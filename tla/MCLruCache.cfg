SPECIFICATION FairSpec
CONSTANTS
    Keys = {k1, k2, k3}
    Values = {v1, v2}
    Writers = {w1, w2}
    Ttls <- MCTtls
    MaxSize = 2
    MaxNow = 1
    MaxClock = 4
    NULL = NULL
INVARIANTS
    TypeOK
    MapsAgree
    OvershootBound
PROPERTIES
    LoneSetRestoresCapacity
    ImplementsRecency
    EverySetCompletes
