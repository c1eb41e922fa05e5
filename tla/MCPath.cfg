SPECIFICATION PathSpec
CONSTANTS
    NumThreads = 2
    VaLine <- SmallVaLine
    LinesInPage = 4
    TidShift = 4
    NumPages = 8
    UsablePercent = 30
    NoPage = NoPage
    Channels = 2
    Ranks = 1
    Bankgroups = 2
    BanksPerGroup = 1
    Rows = 2
    Columns = 4
    MopSize = 2
    RequestSize = 2
    NumChannels = 2
    BanksInChannel = 2
    LinesInRow = 4
    RowsInBank = 2
    Gang = 2
    Orders <- MCOrders
    LineSize = 2
INVARIANTS
    TranslationInjective
    LineZeroUnused
    CellsAreDistinct
    RowsAreFilled
CHECK_DEADLOCK FALSE
