SPECIFICATION Spec
CONSTANTS
    Metric <- OneName
    Device <- OneName
    Values <- Frosty
    Minute = 2
    Hour = 3
    Day = 4
    Min10 = 2
    Day7 = 6
    MaxLate = 0
    MaxTime = 2
    MaxRows = 2
INVARIANT BandShowsSpread
