SPECIFICATION FairSpec
CONSTANTS
    c1 = c1
    c2 = c2
    None = None
    Client <- OneClient
    LogCap = 2
    ReqCap = 1
    MaxMsg = 3
    MaxDrops = 3
    MaxCrashes = 1
PROPERTIES
    Resubscribed
    Arrives
    FirstArrivalsInOrder
CHECK_DEADLOCK FALSE
