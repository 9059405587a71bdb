SPECIFICATION Spec
CONSTANTS
    NULL = NULL
    Users = {u1, u2}
    Workers = {w1, w2}
    BatchLimit = 2
    Staleness = 6
    CallTimeout = 5
    Prompt = TRUE
    StartClock = 6
    LastFailure = 5
    MaxClock = 13
SYMMETRY Interchangeable
INVARIANTS
    NoUserPolledTwice
