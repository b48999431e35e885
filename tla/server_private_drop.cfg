SPECIFICATION Spec
CONSTANTS
    Clients = {c1, c2}
    NoClient = NoClient
    Names = {n1, n2}
    HnswNames = {n2}
    NoName = NoName
    Dims = {1}
    Addresses = {a1, a2}
    NoEngine = NoEngine
    WithMeta = TRUE
    SameDir = TRUE
    StartFails = TRUE
    DropShared = FALSE
    MaxCount = 2
    MaxRestarts = 2
    MaxFaults = 1
SYMMETRY Symmetry
INVARIANTS
    TypeOK
    NoUseAfterDrop
    OneEnginePerDatabase
    StoredAreServed
    RowsMatchCatalog
PROPERTIES
    CommandsReachTheirDatabase
    MirroredCountIsReal
