SPECIFICATION Spec
CONSTANTS
    k1 = k1
    k2 = k2
    k3 = k3
    v1 = v1
    v2 = v2
    NoText = NoText
    Garbage = Garbage
    Keys = {k1, k2, k3}
    Values = {v1, v2}
    TextLen <- EvictLengths
    Rank <- Ranks
    KeyCount = 9
    Wild = 1000
    MaxCalls = 5
    Rules = {"one", "fresh", "order", "room"}
    Faults = {"malloc", "msync"}
    MaxVer = 3
    HdrSlots = 8
    KeyAvg = 1
    ValAvg = 1
INVARIANTS NoFault ReplaceAndDeleteAtomic
PROPERTIES LiveItemsStay KVSpec CallsTakeEffect
CHECK_DEADLOCK FALSE
