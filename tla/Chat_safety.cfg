CONSTANTS
    Phone = {}
    Guest = {g1, g2}
    Principal = {p1}
    PrincipalOf <- OnePrincipal
    Panel = panel
    Job = {j1, j2}
    None = none
    MaxStored = 2
    MaxMessages = 3
    MaxRequests = 4
    MaxFaults = 1
SPECIFICATION Spec
SYMMETRY Alike
INVARIANTS ReceiptsHonest LogFaithful
PROPERTIES MarksOnlyGrow
CHECK_DEADLOCK FALSE
