SPECIFICATION FairSpec
CONSTANTS
    Clients = {c1, c2}
    Jobs = {j1}
    CleanupPeriod = 1
    MaxAge = 1
    Retention = 2
    None = None
INVARIANTS
    TypeOK
    SubscribersCurrent
PROPERTIES
    NothingIsKept
    CompletionIsTold
