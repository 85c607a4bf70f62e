SPECIFICATION ReadersSpec
CONSTANTS
    k1 = k1
    k2 = k2
    k3 = k3
    v1 = v1
    v2 = v2
    NoText = NoText
    Garbage = Garbage
    r1 = r1
    Readers = {r1}
    Asked = {0, 2}
    Keys = {k1, k2}
    Values = {v1, v2}
    TextLen <- Lengths
    Rank <- Ranks
    KeyCount = 7
    Wild = 1000
    MaxCalls = 3
    Rules = {"one", "fresh", "order", "room"}
    Faults = {"kill"}
    MaxVer = 3
    HdrSlots = 8
    KeyAvg = 1
    ValAvg = 1
INVARIANTS ReadsCurrent
PROPERTIES  ReadsEnd
CHECK_DEADLOCK FALSE
