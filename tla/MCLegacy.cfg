SPECIFICATION FairSpec
CONSTANT Configs <- MCConfigs
INVARIANTS
    EveryWaiterHasItsRead
    RaaBounded
PROPERTIES
    EveryTransferHappens
    EveryBankRefreshed
