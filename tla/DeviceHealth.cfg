SPECIFICATION Spec
CONSTANTS
    StatusPeriod = 3
    Threshold = 6
    Detect = 1
    Latency = 1
    LogCap = 3
INVARIANTS
    TypeOK
    AliveShownOnline
    DeadShownOffline
    GoneNotReplayed
    LastMessageShown
