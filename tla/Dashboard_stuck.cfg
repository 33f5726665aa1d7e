SPECIFICATION Spec
CONSTANTS
    Metric <- OneName
    Device <- OneName
    Values <- OneName
    Minute = 2
    Hour = 3
    Day = 4
    Min10 = 2
    Day7 = 6
    MaxLate = 0
    MaxTime = 1
    MaxRows = 1
INVARIANT PollFindsMetrics
