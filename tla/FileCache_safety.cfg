CONSTANTS
    Loop = loop
    Worker = {w1}
    Refresher = refresher
    NoOne = noone
    Discipline = {{"update"}, {"read", "update"}}
    MaxContent = 3
    MaxExternal = 1
    MaxFaults = 1
SPECIFICATION FairSpec
INVARIANTS BookkeepingExact CacheCoherent
PROPERTIES DiskOrder NoLostUpdate EveryOperationEnds
CHECK_DEADLOCK FALSE
