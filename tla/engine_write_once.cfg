SPECIFICATION Spec
CONSTANTS
    Capacity = 2
    NumClusters = 2
    ManualIds = {11}
    MaxAuto = 2
    Vecs = {v1, v2}
    Garbage = Garbage
    Threads = {t1, t2}
    NoThread = NoThread
    KMeansThreshold = 1
    CompactSlack = 0
    Missing = Missing
    Unsure = Unsure
    Dropped = Dropped
    InsertLive = FALSE
    Reinsert = FALSE
    MaxRestarts = 2
    FailingCalls = {"append"}
    MaxFaults = 1
    MaxListed = 2
SYMMETRY Symmetry
INVARIANTS
    TypeOK
    SearchFindsStored
    SearchHidesDeleted
    SearchHasNoDuplicates
PROPERTIES
    AutoIdsAreNew
    KMeansIsNotSkipped
    ImplementsVectorStore
CHECK_DEADLOCK FALSE
