SPECIFICATION Spec
CONSTANTS
    Job = {j1, j2}
    Contact = {c1, c2}
    None = None
    MaxContacts = 1
    LogMax = 1
    MaxRequests = 3
    MaxTime = 1
    MaxFaults = 1
SYMMETRY DocsSymmetry
INVARIANTS
    WritesAreLogged
PROPERTIES
    MembersInOrder
    ReplacesWhatItSaw
CHECK_DEADLOCK FALSE
