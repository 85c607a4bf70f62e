SPECIFICATION Spec
CONSTANTS
    k1 = k1
    k2 = k2
    k3 = k3
    v1 = v1
    v2 = v2
    NoText = NoText
    Garbage = Garbage
    Keys = {k1, k2}
    Values = {v1, v2}
    TextLen <- Lengths
    Rank <- Ranks
    KeyCount = 7
    Wild = 1000
    MaxCalls = 5
    Rules = {"fresh", "order", "room"}
    Faults = {"kill"}
    MaxVer = 3
    HdrSlots = 8
    KeyAvg = 1
    ValAvg = 1
PROPERTY KVSpec
CHECK_DEADLOCK FALSE
