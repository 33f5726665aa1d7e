SPECIFICATION FairSpec
CONSTANTS
    SensorRow = {s1, s2}
    As7341Row = {a1}
    StatusRow = {}
    ChanCap = 1
    MaxRows = 2
    MaxKeys = 2
    InsertRetries = 2
    MaxBad = 1
INVARIANTS
    TypeOK
    Accounting
    CountersAddUp
    SensorBufferBounded
    InsertedLanded
    CopiesBounded
    DropsAfterRetries
PROPERTIES
    NoResubmission
    ImplementsRowFate
    RowsResolved
