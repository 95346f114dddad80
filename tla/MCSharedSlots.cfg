SPECIFICATION Spec
CONSTANTS
    Requests = {r1, e1}
    Echoes = {e1}
    Routable = {r1}
    Cacheable = {r1, e1}
    Slots = {s1, s2}
    Attempts = 2
    MaxStalled = 1
    MaxFaults = 1
    QueueFlag = "unset"
    None = None
SYMMETRY
    Symmetry
INVARIANTS
    CompletedWasServed
