SPECIFICATION PlainSpec
CONSTANTS
    Last = 2
    Label = {1, 2}
    MaxDepth = 4
INVARIANTS
    TypeOK
    NoStaleJump
    RecordsAreLive
PROPERTY ImplementsActivations
