SPECIFICATION AnySpec
CONSTANTS
    Last = 2
    Label = {1}
    MaxDepth = 4
INVARIANT GlobalIsValid
CHECK_DEADLOCK FALSE
