SPECIFICATION FairSpec
CONSTANTS
    Capacity = 2
    NumClusters = 2
    ManualIds = {11, 12}
    MaxAuto = 1
    Vecs = {v1, v2}
    Garbage = Garbage
    Threads = {t1, t2}
    NoThread = NoThread
    KMeansThreshold = 2
    CompactSlack = 0
    Missing = Missing
    Unsure = Unsure
    Dropped = Dropped
    InsertLive = FALSE
    Reinsert = TRUE
    MaxRestarts = 0
    FailingCalls = {"write_tmp", "remove_log", "rename"}
    MaxFaults = 1
    MaxListed = 2
INVARIANTS
    LostTombstonesForceCompaction
    SearchFindsStored
    SearchHidesDeleted
PROPERTIES
    LockIsReleased
    RemoveBoundsLog
CHECK_DEADLOCK FALSE
