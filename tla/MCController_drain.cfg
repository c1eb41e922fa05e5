\* Separate queues: the write drain and the R->W dependency.
SPECIFICATION SplitFair
CONSTANTS
    x = x
    y = y
    z = z
    b1 = b1
    b2 = b2
    r1 = r1
    r2 = r2
    Addr = {x, y}
    Bank = {b1}
    Row = {r1, r2}
    BankOf <- TwoBankOf
    RowOf <- TwoRowOf
    NoRow = NoRow
    UnifiedQueue = FALSE
    InfWriteBuffer = FALSE
    TransQueueSize = 2
    CmdQueueSize = 2
    DrainFloor = 1
    RowHitLimit = 2
    RowBufPolicy = "OPEN_PAGE"
    MaxTrans = 4
PROPERTIES
    EveryReadReturns
