SPECIFICATION Spec
CONSTANTS
    m1 = m1
    Mark = {m1}
    Home <- LastTable
    Kinds = {"sensor_raw", "device_status"}
    MaxSecs = 4
    MaxRows = 2
    ChanCap = 1
    InsertRetries = 2
    MaxAnswer = 1
    MaxAge = 45
INVARIANTS
    TypeOK
    BufferedWithinWindow
    ResolvedInTime
