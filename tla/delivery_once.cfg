SPECIFICATION Spec
CONSTANTS
    Pages = {p1}
    Crons = {c1}
    Addrs = {a1, a2}
    MaxRev = 1
    MaxDay = 1
    MaxAttempts = 2
    MaxFaults = 2
    MaxEdits = 1
    MaxAsks = 2
    CanCrash = TRUE
    CanLoseAnswer = TRUE
    SlowSends = TRUE
SYMMETRY Interchangeable
INVARIANT TypeOK
INVARIANT MailedOnce
PROPERTY MailboxSpec
PROPERTY SendsToCurrentAddress
CHECK_DEADLOCK FALSE
