SPECIFICATION MappingSpec
CONSTANTS
    c1 = c1
    c2 = c2
    i1 = i1
    w1 = w1
    e1 = e1
    e2 = e2
    a1 = a1
    l1 = l1
    Unset = Unset
    Card = {c1, c2}
    Title = {1, 2}
    Item = {i1, w1}
    Entity = {e1, e2}
    Attribute = {a1}
    Label = {l1}
    Source <- MCSource
    Calendar = {}
    Protected = {w1}
    MaxOnPass = 1
    MaxItems = 1
    MaxCards = 1
    MaxEvents = 2
    MaxSaves = 2
    MaxChanges = 1
    MaxMishaps = 1
SYMMETRY MappingSymmetry
INVARIANTS
    SaveIsStable
    SavedIsServed
    
CHECK_DEADLOCK FALSE
