SPECIFICATION FairSpec
CONSTANTS
    Requests = {r1, r2}
    MaxDuration = 2
    StaleClaim = 2
    KeepDays = 3
    StartBudget = 1
    MaxAttempts = 3
    MaxFaults = 5
    MaxPurges = 2
    CanLoseAnswer = TRUE
INVARIANT TypeOK
INVARIANT OneRunner
INVARIANT ExtraRunsHaveFaults
PROPERTY RunsOnlyWhenNothingIsKept
PROPERTY JobSpec
PROPERTY JobGetsSaved
CHECK_DEADLOCK FALSE
