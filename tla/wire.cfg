SPECIFICATION FairSpec
CONSTANTS
    MaxConnections = 2
    MaxCalls = 3
    Commands = {"SELECT_DB", "INSERT_AUTO", "DROP_DB"}
    Names = {"good", "bad", "long"}
    Dims = {1, 2}
    Kinds = {"reference", "sdk"}
    CarriesOn = TRUE
    MaxNameLen = 1
    Cuts = {6}
INVARIANTS
    TypeOK
    FramesAgree
    AnswersMatch
PROPERTIES
    CallEnds
CHECK_DEADLOCK FALSE
