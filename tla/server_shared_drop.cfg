SPECIFICATION FairSpec
CONSTANTS
    Clients = {c1, c2}
    NoClient = NoClient
    Names = {n1}
    HnswNames = {}
    NoName = NoName
    Dims = {1, 2}
    Addresses = {a1, a2}
    NoEngine = NoEngine
    WithMeta = TRUE
    SameDir = TRUE
    StartFails = FALSE
    DropShared = TRUE
    MaxCount = 2
    MaxRestarts = 2
    MaxFaults = 1
INVARIANTS
    DroppedIsGone
PROPERTIES
    LocksAreReleased
CHECK_DEADLOCK FALSE
