SPECIFICATION Spec
CONSTANTS
    q1 = q1
    q2 = q2
    p1 = p1
    p2 = p2
    p3 = p3
    NoProc = NoProc
    Req = {q1, q2}
    Proc = {p1, p2}
    MaxPauses = 2
    MaxCalls = 1
    EffectCap = 2
    StartAlone = TRUE
    LeaseHolds = TRUE
    CrashInClaim = TRUE
    PromptClaim = TRUE
    Restarts = FALSE
INVARIANTS EffectApproved
CHECK_DEADLOCK FALSE
