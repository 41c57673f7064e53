CONSTANTS
    x = x
    y = y
    NOTEXT = NOTEXT
    Var <- MCVar
    Char <- MCChar
    Literal <- MCLiteral
    Item <- MCItem
    MaxLength = 3
    MaxLive = 3
    MaxKinds = 2
SPECIFICATION Spec
CHECK_DEADLOCK FALSE
VIEW UpToNames
INVARIANTS
    TypeOK
    WindowsInside
    AssignCopies
    PutReadsBack
PROPERTIES
    ImplementsSharedTexts
