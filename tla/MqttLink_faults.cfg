SPECIFICATION Spec
CONSTANTS
    c1 = c1
    c2 = c2
    None = None
    Client <- TwoClients
    LogCap = 2
    ReqCap = 1
    MaxMsg = 3
    MaxDrops = 3
    MaxCrashes = 1
SYMMETRY AnyClient
INVARIANTS
    TypeOK
    LossHasCause
    DeliveriesBounded
    SubscribeNeverBlocks
CHECK_DEADLOCK FALSE
