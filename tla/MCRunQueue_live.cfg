SPECIFICATION FairSpec
CONSTANTS
    r1 = r1
    r2 = r2
    p1 = p1
    p2 = p2
    NoOwner = NoOwner
    Run <- TwoRuns
    Proc = {p1, p2}
    Slot = {1}
    WorkspaceOf <- OneWorkspace
    LaneOf <- LocalAndCloud
    LocalFlaps = TRUE
    Unrecoverable = {r1}
    MayAge = {r2}
    LeaseTTL = 2
    BackoffBase = 1
    BackoffMax = 2
    MaxAttempts = 2
    WsConcurrency = 1
    Fairness = TRUE
    TimelyBeats = TRUE
    UnblockedStart = FALSE
    OperatorWaits = TRUE
    AttemptCap = 5
    MaxRaises <- OneRaiseOfR2
    MaxRedrives = 0
PROPERTIES QueuedRunSettles
CHECK_DEADLOCK FALSE
