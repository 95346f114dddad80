SPECIFICATION Spec
CONSTANTS
    TotalJobs = 2
    Concurrency = 1
    ClientJobs = {c1}
    MaxPolls = 3
    MissingPolls = 1
    MaxRounds = 1
    HistoryLimit = 1
    None = None
CHECK_DEADLOCK FALSE
INVARIANT HistoryServed
