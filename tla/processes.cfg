SPECIFICATION BenchSpec
CONSTANTS
    p1 = p1
    p2 = p2
    p3 = p3
    Procs = {p1, p2, p3}
    Children <- ForkOrder
    Programs <- Roles
    KeyCounts = {1, 3}
    BenchCount = 1
    IntLimit = 2048
    Serial = TRUE
    Faults = {"open", "fstat", "ftruncate", "mmap", "kill"}
    ForkFaults = TRUE
    MaxLeaks = 1
    MaxVer = 3
    HdrSlots = 8
    KeyAvg = 4
    ValAvg = 16
INVARIANTS LifecycleTypeOK WholeStoreMapped WriterFindsHeader DescriptorsClosed ToolsCallOnMapped NoChildLeft
PROPERTIES HeaderKept ParentEnds
CHECK_DEADLOCK FALSE
