SPECIFICATION FairSpec
CONSTANTS
    q1 = q1
    q2 = q2
    p1 = p1
    p2 = p2
    p3 = p3
    NoProc = NoProc
    Req = {q1, q2}
    Proc = {p1, p2, p3}
    MaxPauses = 2
    MaxCalls = 2
    EffectCap = 2
    StartAlone = TRUE
    LeaseHolds = TRUE
    CrashInClaim = FALSE
    PromptClaim = TRUE
    Restarts = TRUE
INVARIANTS EffectApproved
PROPERTIES ResolvingSettles
CHECK_DEADLOCK FALSE
