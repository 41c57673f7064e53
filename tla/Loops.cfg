CONSTANTS
    Any = FALSE
    MaxInt = 3
    MaxReal = 10
    MaxOther = 2
    Before <- MCBefore
    Program <- MCProgram

SPECIFICATION Spec
CHECK_DEADLOCK FALSE
PROPERTIES
    ImplementsExpansion
    Ends
