SPECIFICATION Spec
CONSTANTS
    MaxTurns = 4
    CostBudget = 2
    Retries = 1
    ToolRetries = 1
    HintAttempts = 2
    MaxCalls = 2
    MaxPauses = 2
    Worlds <- Dependable
INVARIANTS TypeOK LimitsHold EffectsUnderApproval WriteNotMultiplied
    ApprovalNeverSkipped
PROPERTIES EventuallyStops
CHECK_DEADLOCK FALSE
