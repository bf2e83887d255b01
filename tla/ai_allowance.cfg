SPECIFICATION Spec
CONSTANTS
    Calls = {c1, c2, c3}
    Workflows = {coach}
    Counted = {coach}
    Policies <- ToolRows
    Base = 1
    StepUsd = 2
    StepReserve = 1
    BonusCalls = 1
    Parallel = FALSE
    MaxSends = 2
    MaxEvents = 1
    MaxFaults = 1
    NoLimit = NoLimit
    Nobody = Nobody
SYMMETRY Alike
INVARIANT TypeOK
INVARIANT CallsStayWithinLimits
INVARIANT BudgetIsKept
INVARIANT BillsAreCounted
INVARIANT StuckRunsHaveFaults
CHECK_DEADLOCK FALSE
