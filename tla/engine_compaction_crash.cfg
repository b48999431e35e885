SPECIFICATION Spec
CONSTANTS
    Capacity = 2
    NumClusters = 2
    ManualIds = {11, 12}
    MaxAuto = 0
    Vecs = {v1}
    Garbage = Garbage
    Threads = {t1}
    NoThread = NoThread
    KMeansThreshold = 3
    CompactSlack = 0
    Missing = Missing
    Unsure = Unsure
    Dropped = Dropped
    InsertLive = FALSE
    Reinsert = TRUE
    MaxRestarts = 1
    FailingCalls = {}
    MaxFaults = 0
    MaxListed = 2
PROPERTIES
    DeletedSurviveRestart
CHECK_DEADLOCK FALSE
