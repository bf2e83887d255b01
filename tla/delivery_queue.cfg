SPECIFICATION FairSpec
CONSTANTS
    Pages = {p1}
    Crons = {c1}
    Addrs = {a1}
    MaxRev = 2
    MaxDay = 2
    MaxAttempts = 2
    MaxFaults = 1
    MaxEdits = 0
    MaxAsks = 1
    CanCrash = TRUE
    CanLoseAnswer = FALSE
    SlowSends = FALSE
INVARIANT OneSender
INVARIANT JobIsNewest
INVARIANT OneMailAFaultlessDay
PROPERTY JobEndsByItsOwn
PROPERTY JobsEnd
CHECK_DEADLOCK FALSE
