SPECIFICATION FifoSpec
CONSTANTS
    p1 = p1
    p2 = p2
    p3 = p3
    Proc <- MCProc
    NULL = NULL
    MaxTime = 2
PROPERTIES
    DueProcessRuns
CHECK_DEADLOCK FALSE
