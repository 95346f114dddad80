SPECIFICATION FairSpec
CONSTANTS
    Requests = {r1}
    Echoes = {}
    Routable = {r1}
    Cacheable = {}
    Slots = {s1, s2}
    Attempts = 2
    MaxStalled = 1
    MaxFaults = 3
    QueueFlag = "unset"
    None = None
INVARIANTS
    TypeOK
    RecordMatchesOutcome
    NoTwoWorkers
    ExecutionsAccounted
    StatusTruthful
PROPERTY
    EveryJobSettles
