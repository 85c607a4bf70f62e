SPECIFICATION Spec
CONSTANTS
    k1 = k1
    k2 = k2
    k3 = k3
    v1 = v1
    v2 = v2
    NoText = NoText
    Garbage = Garbage
    Keys = {k1, k2, k3}
    Values = {v1, v2}
    TextLen <- LongLengths
    Rank <- Ranks
    KeyCount = 3
    Wild = 1000
    MaxCalls = 4
    Rules = {}
    Faults = {"msync", "malloc"}
    MaxVer = 3
    HdrSlots = 8
    KeyAvg = 3
    ValAvg = 2
INVARIANTS TypeOK UsedBounded
PROPERTIES KeyOverrunNeedsItemOverrun StoredValuesStay CallsEnd
CHECK_DEADLOCK FALSE
