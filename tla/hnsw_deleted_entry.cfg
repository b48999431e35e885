SPECIFICATION Spec
CONSTANTS
    Capacity = 3
    M = 2
    MaxLevel = 1
    EfConstruction = 4
    EfSearch = 1
    Vecs <- Points3
    MaxChanges = 2
    MaxReinserts = 0
    MaxRestarts = 0
INVARIANTS
    OnlyEmptyFindsNothing
CHECK_DEADLOCK FALSE
