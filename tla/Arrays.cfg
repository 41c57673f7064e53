CONSTANTS
    Shapes <- MCShapes
    Later <- MCLater
    MaxSteps = 3

SPECIFICATION ArraySpec
CHECK_DEADLOCK FALSE
INVARIANTS
    RightElement
    BoundsSurvive
