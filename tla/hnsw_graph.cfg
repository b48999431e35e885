SPECIFICATION Spec
CONSTANTS
    Capacity = 4
    M = 2
    MaxLevel = 1
    EfConstruction = 5
    EfSearch = 1
    Vecs <- Points4
    MaxChanges = 1
    MaxReinserts = 1
    MaxRestarts = 1
INVARIANTS
    TypeOK
    NearestIsFound
    EdgesAreSound
    EdgesAreDistinct
    DeletedAreHidden
CHECK_DEADLOCK FALSE
