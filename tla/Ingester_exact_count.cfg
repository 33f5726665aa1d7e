SPECIFICATION Spec
CONSTANTS
    SensorRow = {s1}
    As7341Row = {}
    StatusRow = {}
    ChanCap = 1
    MaxRows = 2
    MaxKeys = 2
    InsertRetries = 2
    MaxBad = 0
INVARIANTS
    SensorRowsMatchPublished
