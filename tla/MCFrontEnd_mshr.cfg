\* A line is evicted while its miss is outstanding, and missed again.
SPECIFICATION Spec
CONSTANTS
    x = x
    y = y
    NumCores = 1
    Line = {x, y}
    LinesOf <- PairLines
    SetOf <- OneSet
    Assoc = 1
    RobSize = 3
    CoreWidth = 2
    TransQueueSize = 2
    TraceLen = 1
    MaxReads <- TwoReads
    UnsModulus = 16
INVARIANTS
    LineNotPresentAlready
CHECK_DEADLOCK FALSE
