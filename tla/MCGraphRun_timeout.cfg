SPECIFICATION Spec
CONSTANTS
    N = 2
    MaxGraphs = 2
    MaxPauses = 1
    MaxCrashes = 0
    Worlds <- Cancelled
INVARIANTS SucceededMeansComplete
CHECK_DEADLOCK FALSE
