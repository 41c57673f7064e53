SPECIFICATION Spec
CONSTANTS
    p1 = p1
    p2 = p2
    p3 = p3
    Proc <- MCProc
    NULL = NULL
    MaxTime = 3
SYMMETRY Symmetry
INVARIANTS
    TypeOK
    OneNotice
    Ordered
    Consistent
    ResumesOnlyDetached
PROPERTIES
    HoldIsExact
    ImplementsEvents
CHECK_DEADLOCK FALSE
