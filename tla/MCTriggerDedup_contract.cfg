SPECIFICATION Spec
CONSTANTS
    n1 = n1
    n2 = n2
    d1 = d1
    d2 = d2
    d3 = d3
    NoNode = NoNode
    Node = {n1, n2}
    Post = {d1, d2, d3}
    Lease = 2
    Ttl = 3
    Worlds <- BothSenders
    MaxFaults = 2
INVARIANTS TypeOK OneHandler
PROPERTIES KeepsContract EventuallyHandled
CHECK_DEADLOCK FALSE
