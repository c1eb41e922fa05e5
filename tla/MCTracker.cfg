\* The three trackers, with and without activations during an alert.
SPECIFICATION FairSpec
CONSTANTS
    Impls = {"MOAT", "PAC", "MOPAC"}
    RowPress = TRUE
    Rows = 3
    RowsRefreshed = 1
    Ath = 2
    PacProb = 1
    BufSize = 2
    AboUpdates = 1
    RefUpdates = 1
    DrainFreq = 2
    QueueTh = 2
    MaxCount = 3
    MaxCritical = 1
INVARIANTS
    TrackedRowIsEligible
    RowsWithinAth
    CountsNeverLost
PROPERTIES
    AlertEnds
