SPECIFICATION Spec
CONSTANTS
    Token = {t1, t2, h1}
    HandMade = {h1}
    Addr = {a1, a2}
    Job = {j1, j2}
    None = None
    IssuedMax = 1
    MaxRequests = 6
    MaxFaults = 2
SYMMETRY PairingSymmetry
INVARIANTS
    TypeOK
    UnpairStands
    ServedIsServing
    DocumentSound
PROPERTIES
    SingleUseKept
CHECK_DEADLOCK FALSE
