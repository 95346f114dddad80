SPECIFICATION FairSpec
CONSTANTS
    Calls = {c1, c2}
    NewDefs <- MCNewDefs
    Updates <- MCUpdates
    StartDefs <- MCStartDefs
    DefaultDefs <- MCDefaultDefs
    MaxPerQueue = 2
    MaxStarted = 3
    MaxFaults = 1
    None = None
    Torn = Torn
INVARIANTS
    TypeOK
    DefinitionsAgree
    SavesFollow
    MapHasNoDead
    SequentialTracksWorkers
    ConcurrencyApplied
PROPERTY
    EveryCallEnds
CHECK_DEADLOCK FALSE
