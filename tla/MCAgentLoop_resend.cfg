SPECIFICATION Spec
CONSTANTS
    MaxTurns = 2
    CostBudget = 2
    Retries = 1
    ToolRetries = 1
    HintAttempts = 2
    MaxCalls = 2
    MaxPauses = 2
    Worlds <- AmbiguousUpstream
INVARIANTS WriteNotMultiplied
CHECK_DEADLOCK FALSE
