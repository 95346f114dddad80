SPECIFICATION Spec
CONSTANTS
    None = None
    Requests <- MCRequests
    InitialQueues <- MCInitialQueues
    NewQueues <- MCNewQueues
    DefaultQueue = "standard"
    Loads = {0, 1}
    Unreadable = 9
    Exclusions <- MCExclusions
    Lower <- MCLower
    Trim <- MCTrim
    Names <- MCNames
    Spelled <- MCSpelled
    MaxChanges = 3
INVARIANTS
    TypeOK
    TablesAgree
    ChoiceIsBest
    UniqueKey
    CacheIsCareful
