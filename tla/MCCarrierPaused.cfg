SPECIFICATION FairSpec
CONSTANTS
    NULL = NULL
    Users = {u1, u2}
    Workers = {w1, w2}
    BatchLimit = 1
    Staleness = 1
    CallTimeout = 1
    Prompt = FALSE
    StartClock = 2
    LastFailure = 2
    MaxClock = 3
INVARIANTS
    TypeOK
    AuditRecordsTransitions
PROPERTIES
    ClaimsAreSpaced
    ImplementsLedger
    EndedPlanIsRevoked
