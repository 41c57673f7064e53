SPECIFICATION Spec
CONSTANTS
    NClass = 4
    NMethod = 3
    Program <- MCProgram
INVARIANTS
    VirtualsReachOverride
