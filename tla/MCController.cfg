SPECIFICATION EitherFair
CONSTANTS
    x = x
    y = y
    z = z
    b1 = b1
    b2 = b2
    r1 = r1
    r2 = r2
    Addr = {x, y, z}
    Bank = {b1, b2}
    Row = {r1, r2}
    BankOf <- MCBankOf
    RowOf <- MCRowOf
    NoRow = NoRow
    UnifiedQueue = FALSE
    InfWriteBuffer = FALSE
    TransQueueSize = 2
    CmdQueueSize = 2
    DrainFloor = 1
    RowHitLimit = 2
    RowBufPolicy = "OPEN_PAGE"
    MaxTrans = 4
INVARIANTS
    PendingMeansQueued
    NeverExits
    ReadsObserveLatestWrite
    DrainWithinBuffer
PROPERTIES
    AnsweredOnce
    ReadsReturn
