SPECIFICATION Spec
CONSTANTS
    owen = owen  ann = ann  sue = sue
    c1 = c1  w1 = w1  w2 = w2
    People <- ThreePeople
    Founder = owen
    Platform = {sue}
    Members = {ann}
    Clients = {c1}
    Workers = {w1, w2}
    StartCap = 2
    MaxCap = 2
    MaxInvites = 1
    MaxEdits = 1
    MaxRequests = 4
    CanCrash = TRUE
SYMMETRY Interchangeable
CHECK_DEADLOCK FALSE
INVARIANT TypeOK
INVARIANT NoForgottenGrant
INVARIANT CaseloadIsHeld
PROPERTY AdminsByAuthority
PROPERTY AnswersKeepCap
