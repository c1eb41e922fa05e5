\* Two cores that share the cache, the miss registers and the memory.
SPECIFICATION Spec
CONSTANTS
    x = x
    y = y
    NumCores = 2
    Line = {x, y}
    LinesOf <- TwoCoreLines
    SetOf <- OneSet
    Assoc = 1
    RobSize = 2
    CoreWidth = 2
    TransQueueSize = 1
    TraceLen = 1
    MaxReads <- TwoReadsOfOne
    UnsModulus = 4
INVARIANTS
    RetireStaysInRob
    WakeupsMatch
    WaitersAreRegistered
    NoStrayCallback
    StoresReachMemory
CHECK_DEADLOCK FALSE
