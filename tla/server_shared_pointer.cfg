SPECIFICATION Spec
CONSTANTS
    Clients = {c1, c2}
    NoClient = NoClient
    Names = {n1}
    HnswNames = {}
    NoName = NoName
    Dims = {1}
    Addresses = {a1}
    NoEngine = NoEngine
    WithMeta = TRUE
    SameDir = TRUE
    StartFails = FALSE
    DropShared = TRUE
    MaxCount = 1
    MaxRestarts = 0
    MaxFaults = 0
SYMMETRY Symmetry
INVARIANTS
    ActiveIsInCatalog
CHECK_DEADLOCK FALSE
