SPECIFICATION Spec
CONSTANTS
    NULL = NULL
    u1 = u1
    u2 = u2
    h1 = h1
    h2 = h2
    s1 = s1
    s2 = s2
    Users = {u1}
    Times <- MCTimes
    MonthLater <- MCMonthLater
    OneDay = 2
    Payloads <- WebhookPayloads
    Handlers = {h1, h2}
    Sweepers = {}
    BatchLimit = 1
    Skew = 0
    StartClock = 3
    MaxClock = 5
SYMMETRY Interchangeable
INVARIANTS
    TimelineIsChronological
