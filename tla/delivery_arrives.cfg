SPECIFICATION FairSpec
CONSTANTS
    Pages = {}
    Crons = {c1}
    Addrs = {a1}
    MaxRev = 2
    MaxDay = 2
    MaxAttempts = 5
    MaxFaults = 2
    MaxEdits = 0
    MaxAsks = 0
    CanCrash = TRUE
    CanLoseAnswer = TRUE
    SlowSends = FALSE
PROPERTY PackageArrives
CHECK_DEADLOCK FALSE
