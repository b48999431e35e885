SPECIFICATION Spec
CONSTANTS
    Dims = {1, 2}
    Capacities = {1, 2}
    Ks = {1, 2}
    Ms = {1}
    Ids = {11, 12}
    NoArgs = NoArgs
    Noise = Noise
    MaxOpens = 3
INVARIANTS
    TypeOK
    SlotsReadBack
    EdgesStartEmpty
    UnmapsWhatWasMapped

    
CHECK_DEADLOCK FALSE
