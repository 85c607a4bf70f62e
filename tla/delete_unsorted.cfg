SPECIFICATION Spec
CONSTANTS
    k1 = k1
    k2 = k2
    k3 = k3
    v1 = v1
    v2 = v2
    NoText = NoText
    Garbage = Garbage
    Keys = {k1, k2, k3}
    Values = {v1, v2}
    TextLen <- HugeLengths
    Rank <- Ranks
    KeyCount = 9
    Wild = 1000
    MaxCalls = 6
    Rules = {"one", "fresh", "room"}
    Faults = {}
    MaxVer = 3
    HdrSlots = 8
    KeyAvg = 4
    ValAvg = 16
INVARIANT DeleteRemovesItsKey
CHECK_DEADLOCK FALSE
