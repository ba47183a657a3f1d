SPECIFICATION Spec
CONSTANTS
    Key = {1, 2}
    Id = {p1, p2}
    Push = {s1, s2}
    None = None
    MaxAttempts = 2
    LogMax = 2
    MaxFaults = 3
SYMMETRY PushSymmetry
INVARIANTS
    RejectionExplained
    RetryPromiseKept
PROPERTIES
    ClaimedForGood
CHECK_DEADLOCK FALSE
