SPECIFICATION Spec
CONSTANTS
    Keys = {k1, k2}
    Callers = {c1, c2, c3}
    None = None
    TTL = 2
    MaxRuns = 3
INVARIANTS
    TypeOK
    NobodyIsForgotten
    AnswersAreGenuine
PROPERTY
    OncePerKey
