SPECIFICATION Spec
CONSTANTS
    TotalJobs = 2
    Concurrency = 1
    ClientJobs = {c1}
    MaxPolls = 2
    MissingPolls = 0
    MaxRounds = 1
    HistoryLimit = 1
    None = None
CHECK_DEADLOCK FALSE
INVARIANTS
    TypeOK
    CountedOnce
    ReportIsTrue
PROPERTY
    TestEnds
