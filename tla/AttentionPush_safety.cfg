CONSTANTS
    theCard = theCard
    Item = {i1, i2}
    Card = {theCard}
    CardOf <- MCCardOf
    FireClass = {smoke}
    Quiet = quiet
    Job = {j1, j2}
    Window = 2
    Horizon = 3
    MaxAttempts = 2
    RetryDelay <- MCRetryDelay
    MaxTime = 4
    MaxFaults = 1
SPECIFICATION Spec
SYMMETRY Symmetry
INVARIANTS OnePushPerStamp StampsInThePast NoSilentDrop
PROPERTY DebounceHolds
CHECK_DEADLOCK FALSE
