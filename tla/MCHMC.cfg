SPECIFICATION HMCFairSpec
CONSTANTS
    Links = 2
    Quads = 2
    QueueDepth = 1
    VaultDepth = 1
    Addr = {0, 1}
    QuadOf <- TwoQuads
    ReqFlits <- Req32
    RespFlits <- Resp32
    MaxRequests = 4
INVARIANTS
    LookupNeverFails
    AgeMeansWaiting
PROPERTIES
    AllAnswered
