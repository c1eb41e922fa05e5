SPECIFICATION Spec
CONSTANT Configs <- MCConfigs
INVARIANTS
    DataBusFree
    SecondColumnNeverReady
PROPERTIES
    BankTimesKept
    FourActivateWindow
