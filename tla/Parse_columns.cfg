SPECIFICATION Spec
CONSTANTS
    Ints <- SmallInts
    Halves <- SmallHalves
    I64 = 16
    I16 = 2
    U32 = 8
    U16 = 4
    U8 = 3
INVARIANTS
    TypeOK
    ChannelsSaturate
    OnlineOnlyIfSaid
    StatusExactInRange
CHECK_DEADLOCK FALSE
