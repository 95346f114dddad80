SPECIFICATION Spec
CONSTANTS
    Clients = {c1}
    Jobs = {j1}
    CleanupPeriod = 1
    MaxAge = 1
    Retention = 2
    None = None
PROPERTY
    OnlyInactiveEvicted
