SPECIFICATION MappingSpec
CONSTANTS
    c1 = c1
    i1 = i1
    e1 = e1
    e2 = e2
    a1 = a1
    l1 = l1
    Unset = Unset
    k1 = k1
    Card = {c1}
    Title = {1}
    Item = {i1}
    Entity = {e1, e2}
    Attribute = {a1}
    Label = {l1}
    Source <- MCSource
    Calendar = {k1}
    Protected = {}
    MaxOnPass = 1
    MaxItems = 1
    MaxCards = 1
    MaxEvents = 1
    MaxSaves = 2
    MaxChanges = 1
    MaxMishaps = 0
INVARIANT HiddenStaysHidden
CHECK_DEADLOCK FALSE
