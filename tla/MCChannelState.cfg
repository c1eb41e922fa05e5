SPECIFICATION FairSpec
CONSTANT Configs <- MCConfigs
CHECK_DEADLOCK FALSE
INVARIANTS
    NoIllegalCommand
    RfmsKeepUp
    EveryUnitInTurn
PROPERTIES
    ClosedBanksStayClosed
    TakenInOrder
    RefreshesFinish
    DemandServed
