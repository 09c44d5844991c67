SPECIFICATION Spec
CONSTANTS
    q1 = q1
    q2 = q2
    c1 = c1
    k1 = k1
    NoKey = NoKey
    NoAnswer = NoAnswer
    Refused = Refused
    Request = {q1, q2}
    Compare = {c1}
    Key = {k1}
    Cap = 1
    Slots = 1
    Worlds <- Sound
    MaxCrashes = 1
    MaxResumes = 1
INVARIANTS TypeOK OneRunPerKey SlotsAccounted OutstandingUnderCap RefusedNeverRuns
PROPERTIES EventuallySettled
CHECK_DEADLOCK FALSE
