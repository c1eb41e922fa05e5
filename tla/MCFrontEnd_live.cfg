\* Two lines in one way and one place in the read queue.
SPECIFICATION FairSpec
CONSTANTS
    x = x
    y = y
    NumCores = 1
    Line = {x, y}
    LinesOf <- PairLines
    SetOf <- OneSet
    Assoc = 1
    RobSize = 3
    CoreWidth = 2
    TransQueueSize = 1
    TraceLen = 1
    MaxReads <- TwoReadsOfOne
    UnsModulus = 8
PROPERTIES
    MissesComplete
CHECK_DEADLOCK FALSE
