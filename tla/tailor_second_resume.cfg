SPECIFICATION Spec
SYMMETRY Tabs
CONSTANTS
    Requests = {r1, r2}
    MaxDuration = 1
    StaleClaim = 1
    KeepDays = 2
    StartBudget = 0
    MaxAttempts = 3
    MaxFaults = 3
    MaxPurges = 0
    CanLoseAnswer = FALSE
PROPERTY SavesOneResume
CHECK_DEADLOCK FALSE
