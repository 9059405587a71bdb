SPECIFICATION FairSpec
CONSTANTS
    NULL = NULL
    u1 = u1
    u2 = u2
    Users = {u1, u2}
    Times <- MCTimes
    MonthLater <- MCMonthLater
    OneDay = 2
    Requests <- MCRequests
    Grants <- MCGrants
    Handlers = {h1, h2}
    MaxUsers = 3
    MonthLength = 3
    StartClock = 2
    MaxClock = 3
INVARIANTS
    TypeOK
    RecordedIsApplied
    AnsweredIsRecorded
    AuditNamesItsRevocation
    CountsAreRevocations
    NoCircularWait
PROPERTIES
    ImplementsLedger
    EveryRequestAnswered
