CONSTANTS
    theCard = theCard
    Item = {i1}
    Card = {theCard}
    CardOf <- MCCardOf
    FireClass = {smoke, alert}
    Quiet = quiet
    Job = {j1}
    Window = 1
    Horizon = 1
    MaxAttempts = 2
    RetryDelay <- MCNoDelay
    MaxTime = 1
    MaxFaults = 1
SPECIFICATION FairSpec
INVARIANT NoSilentDrop
PROPERTIES InflightDrains AlarmDelivered
CHECK_DEADLOCK FALSE
