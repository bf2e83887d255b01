SPECIFICATION Spec
CONSTANTS
    a1 = a1  a2 = a2
    o1 = o1  o2 = o2
    w1 = w1  w2 = w2
    NoLimit = NoLimit
    Accounts <- TwoAccounts
    Orgs <- OneOrg
    Workers <- TwoWorkers
    StartCaps <- CapOne
    MaxCap = 1
    MaxDay = 1
    CanCrash = FALSE
    Barred <- NobodyBarred
SYMMETRY AccountsAndWorkers
CHECK_DEADLOCK FALSE
INVARIANT TypeOK
INVARIANT SeatCap
INVARIANT LedgerCovers
PROPERTY DurableSeats
PROPERTY SeatOnlyForOpenOffer
PROPERTY LedgerSpec
INVARIANT OneOfferEmailADay
