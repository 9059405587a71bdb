SPECIFICATION FairSpec
CONSTANTS
    NULL = NULL
    Users = {u1}
    Senders = {s1, s2}
    Times <- MCTimes
    OneDay = 2
    BatchLimit = 1
    StartClock = 1
    LastFailure = 3
    MaxClock = 4
INVARIANTS
    TypeOK
    DispatchedAtMostOnce
PROPERTIES
    ImplementsOutbox
    DueIsDispatched
