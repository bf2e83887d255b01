SPECIFICATION Spec
CONSTANTS
    Calls = {c1, c2}
    Workflows = {analyze}
    Counted = {}
    Policies <- ToolRows
    Base = 1
    StepUsd = 2
    StepReserve = 1
    BonusCalls = 1
    Parallel = TRUE
    MaxSends = 2
    MaxEvents = 0
    MaxFaults = 0
    NoLimit = NoLimit
    Nobody = Nobody
SYMMETRY Alike
INVARIANT BillsAreCounted
CHECK_DEADLOCK FALSE
