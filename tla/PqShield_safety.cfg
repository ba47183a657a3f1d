SPECIFICATION Spec
CONSTANTS
    o = o
    m = m
    j1 = j1
    j2 = j2
    Owner = o
    Members = {m}
    Job = {j1, j2}
    MaxKeys = 3
    MaxRequests = 5
    MaxFaults = 1
SYMMETRY ShieldSymmetry
INVARIANTS
    GarbledHasCause
    OffMeansGone
    PlainWriteHasCause
CHECK_DEADLOCK FALSE
