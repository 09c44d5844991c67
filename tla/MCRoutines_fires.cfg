SPECIFICATION Spec
CONSTANTS
    n1 = n1
    n2 = n2
    c1 = c1
    NoNode = NoNode
    Node = {n1, n2}
    Cli = {c1}
    Host <- TwoHosts
    Instants = {1, 2}
    Horizon = 2
    Ttl = 2
    Grace = 2
    MaxCatchup = 2
    Worlds <- AllWorlds
    PromptBackfill = TRUE
    MaxFaults = 2
    MaxRunNow = 1
INVARIANTS TypeOK FiredOnce
PROPERTIES DueIsConsumed
CHECK_DEADLOCK FALSE
