CONSTANTS
    Member = {m1, m2}
    Principal = {p1}
    PrincipalOf <- OnePrincipal
    Source = {panel, owner}
    Job = {j1, j2}
    None = none
    MaxRequests = 3
    MaxFaults = 1
SPECIFICATION Spec
SYMMETRY Alike
INVARIANTS AcceptedWhileGood ReportedOnce LeftoverHasCause
PROPERTIES RevokedForGood OnlyEndedRowsGo
CHECK_DEADLOCK FALSE
