SPECIFICATION PlainSpec
CONSTANTS
    Coro = {c1, c2, c3, c4}
    NULL = NULL
    NoSlot = NoSlot
    Lost = Lost
SYMMETRY Symmetric
INVARIANTS
    TypeOK
    NoStaleJump
    NothingLost
    ChainHeadIsHead
    DetachedIsResumable
PROPERTY ImplementsComponents
CHECK_DEADLOCK FALSE
