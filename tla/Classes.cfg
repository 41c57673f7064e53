SPECIFICATION Spec
CONSTANTS
    NClass = 4
    NMethod = 3
    Program <- MCProgram
INVARIANTS
    TypeOK
    IndexIsPosition
    RootVirtualsReachOverride
    SlotsInPlace
    BodiesNest
