SPECIFICATION Spec
CONSTANTS
    Capacity = 2
    NumClusters = 2
    ManualIds = {11, 12}
    MaxAuto = 0
    Vecs = {v1, v2}
    Garbage = Garbage
    Threads = {t1}
    NoThread = NoThread
    KMeansThreshold = 2
    CompactSlack = 0
    Missing = Missing
    Unsure = Unsure
    Dropped = Dropped
    InsertLive = FALSE
    Reinsert = TRUE
    MaxRestarts = 2
    FailingCalls = {}
    MaxFaults = 0
    MaxListed = 2
SYMMETRY Symmetry
INVARIANTS
    RestartLosesOnlyReinserted
    ListsMatchFile
PROPERTIES
    DeletedComeBackOnlyFromRename
CHECK_DEADLOCK FALSE
