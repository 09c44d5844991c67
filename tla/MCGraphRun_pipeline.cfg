SPECIFICATION Spec
CONSTANTS
    N = 2
    MaxGraphs = 4
    MaxPauses = 2
    MaxCrashes = 1
    Worlds <- AllDeployments
INVARIANTS TypeOK SucceededIfUncancelled MemberWorksOnce PauseIsResumable
PROPERTIES GraphAdvances EventuallyRests
CHECK_DEADLOCK FALSE
