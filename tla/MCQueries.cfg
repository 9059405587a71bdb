SPECIFICATION Spec
CONSTANTS
    NULL = NULL
    user = user
    Users = {user}
    Times <- MCTimes
    MonthLater <- MCMonthLater
    OneDay = 2
    Writes <- MCWrites
    Limits <- MCLimits
    Offsets <- MCOffsets
    MaxLimit = 2
    MaxWait = 1
    MaxAudit = 4
    StartClock = 2
    MaxClock = 3
INVARIANTS
    TypeOK
    CanonicalIsCurrent
    TotalCoversPage
    PagingMissesNothing
