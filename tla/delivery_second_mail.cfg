SPECIFICATION Spec
CONSTANTS
    Pages = {p1}
    Crons = {c1}
    Addrs = {a1}
    MaxRev = 2
    MaxDay = 1
    MaxAttempts = 2
    MaxFaults = 1
    MaxEdits = 0
    MaxAsks = 2
    CanCrash = TRUE
    CanLoseAnswer = TRUE
    SlowSends = FALSE
SYMMETRY Interchangeable
INVARIANT OneMailADay
CHECK_DEADLOCK FALSE
