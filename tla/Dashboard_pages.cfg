SPECIFICATION Spec
CONSTANTS
    Metric <- TwoNames
    Device <- TwoNames
    Values <- Warm
    Minute = 2
    Hour = 3
    Day = 4
    Min10 = 2
    Day7 = 5
    MaxLate = 1
    MaxTime = 5
    MaxRows = 2
INVARIANTS
    TypeOK
    OneGroupPerKey
    BandShowsSpread
PROPERTIES
    ChartComplete
    FormKeepsChoice
    CardLeadsToData
