SPECIFICATION Spec
CONSTANTS
    Dims = {1}
    Capacities = {1, 2}
    Ks = {1}
    Ms = {1}
    Ids = {11}
    NoArgs = NoArgs
    Noise = Noise
    MaxOpens = 2
INVARIANTS
    ArgumentsDoNotMatter
CHECK_DEADLOCK FALSE
