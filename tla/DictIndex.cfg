SPECIFICATION Spec
CONSTANTS
    k1 = k1
    k2 = k2
    k3 = k3
    k4 = k4
    Keys = {k1, k2, k3}
    Hash <- HashMC
    Rank <- RankMC
    ObjectKey = k1
    TypeKey = k2
    Values = {true, name}
    True = true
    TypeNames = {name}
    None = None
    MinIndex = 1
    InitCap = 2
    MaxLen = 4
INVARIANTS
    ProbesEnd
    FindIsLinear
    TypeNameFresh
