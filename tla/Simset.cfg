SPECIFICATION Spec
CONSTANTS
    Owner = {h1, h2}
    Link = {l1, l2, l3, l4}
    NONE = NONE
INVARIANTS
    TypeOK
    TwoWay
    HasHead
    FunctionsAgree
PROPERTIES
    ImplementsLists
    ClearIsDone
