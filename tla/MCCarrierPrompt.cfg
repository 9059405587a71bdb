SPECIFICATION Spec
CONSTANTS
    NULL = NULL
    Users = {u1, u2}
    Workers = {w1, w2}
    BatchLimit = 2
    Staleness = 3
    CallTimeout = 2
    Prompt = TRUE
    StartClock = 3
    LastFailure = 8
    MaxClock = 8
SYMMETRY Interchangeable
INVARIANTS
    CollisionsComeLate
    RevokedOnlyWithoutPlan
