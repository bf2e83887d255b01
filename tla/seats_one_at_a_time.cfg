SPECIFICATION Spec
CONSTANTS
    a1 = a1  a2 = a2
    o1 = o1  o2 = o2
    w1 = w1  w2 = w2
    NoLimit = NoLimit
    Accounts <- OneAccount
    Orgs <- TwoOrgs
    Workers <- OneWorker
    StartCaps <- CapOrNoLimit
    MaxCap = 2
    MaxDay = 0
    CanCrash = TRUE
    Barred <- NobodyBarred
CHECK_DEADLOCK FALSE
INVARIANT SeatsMatchPeople
PROPERTY ConsentOnAttach
