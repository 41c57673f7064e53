CONSTANTS
    x = x
    Plain = Plain
    Having = Having
    Name = {x}
    Class = {Plain, Having}
    Fields <- MCFields
    MaxOpened = 7
    MaxDepth = 6

SPECIFICATION Spec
CHECK_DEADLOCK FALSE
INVARIANTS
    NamesResolve
    PointersAreOwn
