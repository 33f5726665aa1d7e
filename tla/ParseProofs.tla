---------------------------- MODULE ParseProofs ----------------------------
(***************************************************************************)
(* Theorems of Parse, for all integer widths and all payload values.       *)
(***************************************************************************)
EXTENDS Parse, TLAPS

-----------------------------------------------------------------------------
(* Conversions                                                             *)

LEMMA Widths ==
  /\ I64 \in Nat \ {0} /\ I16 \in Nat \ {0} /\ U32 \in Nat \ {0}
  /\ U16 \in Nat \ {0} /\ U8 \in Nat \ {0}
  /\ I16 <= I64 /\ U32 <= I64
  BY ParseAssumption

(* Clamp lands in the interval, and leaves what is in it alone.            *)
LEMMA ClampBounds ==
  ASSUME NEW x \in Int, NEW lo \in Int, NEW hi \in Int, lo <= hi
  PROVE  Clamp(x, lo, hi) \in lo .. hi /\ (x \in lo .. hi => Clamp(x, lo, hi) = x)
  BY DEF Clamp

(* Nothing in the interval is nearer.                                      *)
LEMMA ClampNearest ==
  ASSUME NEW x \in Int, NEW lo \in Int, NEW hi \in Int, lo <= hi, NEW y \in lo .. hi
  PROVE  LET s == Clamp(x, lo, hi) IN (s - x) * (s - x) <= (y - x) * (y - x)
  <1>1. \A a, b \in Int : 0 <= a /\ a <= b => a * a <= b * b
    <2>1. \A a, b, c \in Int : 0 <= c /\ a <= b => a * c <= b * c
      OBVIOUS
    <2> QED BY <2>1
  <1>2. CASE x > hi
    <2>1. Clamp(x, lo, hi) = hi
      BY <1>2 DEF Clamp
    <2>2. (x - hi) * (x - hi) <= (x - y) * (x - y)
      BY <1>1, <1>2
    <2> QED BY <2>1, <2>2
  <1>3. CASE x < lo
    <2>1. Clamp(x, lo, hi) = lo
      BY <1>3 DEF Clamp
    <2>2. (lo - x) * (lo - x) <= (y - x) * (y - x)
      BY <1>1, <1>3
    <2> QED BY <2>1, <2>2
  <1>4. CASE x >= lo /\ x <= hi
    <2>1. Clamp(x, lo, hi) = x
      BY <1>4 DEF Clamp
    <2>2. \A a \in Int : 0 <= a * a
      OBVIOUS
    <2>3. (x - x) * (x - x) = 0
      OBVIOUS
    <2>4. 0 <= (y - x) * (y - x)
      BY <2>2
    <2> QED BY <2>1, <2>3, <2>4
  <1> QED BY <1>2, <1>3, <1>4

(* Wrap keeps the low bits: whatever is beyond the width, it lands in it.  *)
LEMMA WrapBounds ==
  ASSUME NEW x \in Int, NEW lo \in Int, NEW r \in Nat \ {0}
  PROVE  Wrap(x, lo, r) \in lo .. lo + r - 1
  <1>1. \A a \in Int : a % r \in 0 .. r - 1
    OBVIOUS
  <1>2. (x - lo) % r \in 0 .. r - 1
    BY <1>1
  <1> QED BY <1>2 DEF Wrap

(* What fits the width is not changed.                                     *)
LEMMA WrapIdentity ==
  ASSUME NEW x \in Int, NEW lo \in Int, NEW r \in Nat \ {0}, x \in lo .. lo + r - 1
  PROVE  Wrap(x, lo, r) = x
  <1> DEFINE a == x - lo
  <1>1. a \in Int /\ 0 <= a /\ a < r
    OBVIOUS
  <1>2. \A b \in Int : 0 <= b /\ b < r => b % r = b
    OBVIOUS
  <1>3. a % r = a
    BY <1>1, <1>2
  <1> QED BY <1>3 DEF Wrap

(* Truncation towards zero: only what is less than one away from it.       *)
LEMMA FloatTruncates ==
  ASSUME NEW h \in Int
  PROVE  FloatToI64(h) \in Int /\ (h \in -1 .. 1 => FloatToI64(h) = 0)
  <1> DEFINE t == IF h >= 0 THEN h \div 2 ELSE -((-h) \div 2)
  <1>1. t \in Int /\ (h \in -1 .. 1 => t = 0)
    OBVIOUS
  <1>2. -I64 \in Int /\ I64 - 1 \in Int /\ -I64 <= I64 - 1 /\ 0 \in -I64 .. I64 - 1
    BY Widths
  <1> HIDE DEF t
  <1>3. Clamp(t, -I64, I64 - 1) \in Int /\ (t = 0 => Clamp(t, -I64, I64 - 1) = 0)
    BY <1>1, <1>2, ClampBounds
  <1>4. FloatToI64(h) = Clamp(t, -I64, I64 - 1)
    BY DEF FloatToI64, t
  <1> QED BY <1>1, <1>3, <1>4

(* A float whose whole number fits an i64 becomes that number.             *)
LEMMA FloatDenotes ==
  ASSUME NEW h \in Int, NEW x \in -I64 .. I64 - 1,
         \/ h >= 0 /\ h - 2 * x \in 0 .. 1
         \/ h < 0 /\ 2 * x - h \in 0 .. 1
  PROVE  FloatToI64(h) = x
  <1>1. -I64 \in Int /\ I64 - 1 \in Int /\ -I64 <= I64 - 1 /\ x \in Int
    BY Widths
  <1>2. (IF h >= 0 THEN h \div 2 ELSE -((-h) \div 2)) = x
    BY <1>1
  <1> QED BY <1>1, <1>2, ClampBounds DEF FloatToI64

(* A negative float does not become a positive number.                     *)
LEMMA FloatNegative ==
  ASSUME NEW h \in Int, h < 0
  PROVE  FloatToI64(h) <= 0
  <1> DEFINE t == -((-h) \div 2)
  <1>1. t \in Int /\ t <= 0
    OBVIOUS
  <1> HIDE DEF t
  <1>2. Clamp(t, -I64, I64 - 1) <= 0
    BY <1>1, Widths DEF Clamp
  <1> QED BY <1>2 DEF FloatToI64, t

-----------------------------------------------------------------------------
(* Payloads                                                                *)

(* What has been decoded: an object with known keys, or nothing.           *)
Payload ==
    /\ \A k \in DOMAIN obj : obj[k] \in Value
    /\ topic # "status" => DOMAIN obj \subseteq DataKeys

LEMMA ValueTyped ==
  ASSUME NEW v \in Value
  PROVE  v.type \in {"int", "float", "bool", "text"} /\ v.n \in Int
  <1>1. Ints \subseteq Int /\ Halves \subseteq Int
    BY ParseAssumption
  <1>2. CASE v \in [type : {"int"}, n : Ints]
    BY <1>1, <1>2
  <1>3. CASE v \in [type : {"float"}, n : Halves]
    BY <1>1, <1>3
  <1>4. CASE v \in [type : {"bool"}, n : {0, 1}]
    BY <1>4
  <1>5. CASE v \in [type : {"text"}, n : {0}]
    BY <1>5
  <1> QED BY <1>2, <1>3, <1>4, <1>5 DEF Value

(* get_i64 yields at most one number; for what is neither a number other   *)
(* than 0 nor true it does not yield anything other than 0.                *)
LEMMA GetI64Yields ==
  ASSUME Payload, NEW k
  PROVE  /\ GetI64(k) = {} \/ \E x \in Int : GetI64(k) = {x}
         /\ OrZero(GetI64(k)) \in Int
         /\ OrZero(GetI64(k)) # 0 =>
              /\ k \in DOMAIN obj
              /\ \/ obj[k].type \in {"int", "bool"} /\ obj[k].n # 0
                 \/ obj[k].type = "float" /\ obj[k].n \notin -1 .. 1
         /\ \A x \in GetI64(k) : x = OrZero(GetI64(k))
  <1>1. ASSUME GetI64(k) = {} PROVE OrZero(GetI64(k)) = 0
    BY <1>1 DEF OrZero
  <1>2. ASSUME NEW x \in Int, GetI64(k) = {x} PROVE OrZero(GetI64(k)) = x
    BY <1>2 DEF OrZero
  <1>3. CASE k \notin DOMAIN obj
    <2>1. GetI64(k) = {}
      BY <1>3 DEF GetI64
    <2> QED BY <1>1, <2>1
  <1>4. CASE k \in DOMAIN obj
    <2>1. obj[k] \in Value
      BY <1>4 DEF Payload
    <2>2. obj[k].n \in Int
      BY <2>1, ValueTyped
    <2>3. -I64 \in Int /\ I64 - 1 \in Int /\ -I64 <= I64 - 1 /\ 0 \in -I64 .. I64 - 1
      BY Widths
    <2>4. CASE obj[k].type = "int"
      <3>1. GetI64(k) = {Clamp(obj[k].n, -I64, I64 - 1)}
        BY <1>4, <2>4 DEF GetI64
      <3>2. Clamp(obj[k].n, -I64, I64 - 1) \in -I64 .. I64 - 1
        BY <2>2, <2>3, ClampBounds
      <3>3. obj[k].n = 0 => Clamp(obj[k].n, -I64, I64 - 1) = 0
        BY <2>2, <2>3, ClampBounds
      <3> QED BY <1>2, <1>4, <2>3, <2>4, <3>1, <3>2, <3>3
    <2>5. CASE obj[k].type = "float"
      <3>1. GetI64(k) = {FloatToI64(obj[k].n)}
        BY <1>4, <2>5 DEF GetI64
      <3>2. /\ FloatToI64(obj[k].n) \in Int
            /\ obj[k].n \in -1 .. 1 => FloatToI64(obj[k].n) = 0
        BY <2>2, FloatTruncates
      <3> QED BY <1>2, <1>4, <2>5, <3>1, <3>2
    <2>6. CASE obj[k].type = "bool"
      <3>1. GetI64(k) = {obj[k].n}
        BY <1>4, <2>6 DEF GetI64
      <3> QED BY <1>2, <1>4, <2>2, <2>6, <3>1
    <2>7. CASE obj[k].type = "text"
      <3>1. GetI64(k) = {}
        BY <1>4, <2>7 DEF GetI64
      <3> QED BY <1>1, <3>1
    <2> QED BY <2>1, <2>4, <2>5, <2>6, <2>7, ValueTyped
  <1> QED BY <1>3, <1>4

(* What a value denotes is what get_i64 yields for it.                     *)
LEMMA GetI64Denotes ==
  ASSUME Payload, NEW k \in DOMAIN obj
  PROVE  /\ \A x \in -I64 .. I64 - 1 : Denotes(obj[k], x) => OrZero(GetI64(k)) = x
         /\ obj[k].n < 0 => OrZero(GetI64(k)) <= 0
  <1>1. obj[k] \in Value /\ obj[k].n \in Int
    BY ValueTyped DEF Payload
  <1>2. -I64 \in Int /\ I64 - 1 \in Int /\ -I64 <= I64 - 1 /\ 0 \in -I64 .. I64 - 1
    BY Widths
  <1>3. ASSUME NEW x, GetI64(k) = {x} PROVE OrZero(GetI64(k)) = x
    BY <1>3 DEF OrZero
  <1>4. CASE obj[k].type = "int"
    <2>1. OrZero(GetI64(k)) = Clamp(obj[k].n, -I64, I64 - 1)
      BY <1>3, <1>4 DEF GetI64
    <2>2. obj[k].n < 0 => Clamp(obj[k].n, -I64, I64 - 1) <= 0
      BY <1>1, <1>2 DEF Clamp
    <2>3. ASSUME NEW x \in -I64 .. I64 - 1, Denotes(obj[k], x)
          PROVE  Clamp(obj[k].n, -I64, I64 - 1) = x
      <3>1. obj[k].n = x
        BY <1>4, <2>3 DEF Denotes
      <3> QED BY <1>1, <1>2, <3>1, ClampBounds
    <2> QED BY <2>1, <2>2, <2>3
  <1>5. CASE obj[k].type = "float"
    <2>1. OrZero(GetI64(k)) = FloatToI64(obj[k].n)
      BY <1>3, <1>5 DEF GetI64
    <2>2. ASSUME NEW x \in -I64 .. I64 - 1, Denotes(obj[k], x)
          PROVE  FloatToI64(obj[k].n) = x
      <3>1. \/ obj[k].n >= 0 /\ obj[k].n - 2 * x \in 0 .. 1
            \/ obj[k].n < 0 /\ 2 * x - obj[k].n \in 0 .. 1
        BY <1>5, <2>2 DEF Denotes
      <3> QED BY <1>1, <3>1, FloatDenotes
    <2>3. obj[k].n < 0 => FloatToI64(obj[k].n) <= 0
      BY <1>1, FloatNegative
    <2> QED BY <2>1, <2>2, <2>3
  <1>6. CASE obj[k].type = "bool"
    <2>1. OrZero(GetI64(k)) = obj[k].n
      BY <1>3, <1>6 DEF GetI64
    <2>2. \A x \in -I64 .. I64 - 1 : Denotes(obj[k], x) => x = obj[k].n
      BY <1>6 DEF Denotes
    <2> QED BY <1>1, <2>1, <2>2
  <1>7. CASE obj[k].type = "text"
    <2>1. OrZero(GetI64(k)) = 0
      BY <1>7 DEF GetI64, OrZero
    <2>2. \A x : ~Denotes(obj[k], x)
      BY <1>7 DEF Denotes
    <2> QED BY <2>1, <2>2
  <1> QED BY <1>1, <1>4, <1>5, <1>6, <1>7, ValueTyped

-----------------------------------------------------------------------------
(* The rows of one message                                                 *)

LEMMA StatusRowTyped ==
  ASSUME Payload
  PROVE  StatusRow.rssi \in -I16 .. I16 - 1 /\ StatusRow.uptime_s \in 0 .. U32 - 1
  <1>1. OrZero(GetI64("rssi")) \in Int /\ OrZero(GetI64("uptime_s")) \in Int
    BY GetI64Yields
  <1>2. Wrap(OrZero(GetI64("rssi")), -I16, 2 * I16) \in -I16 .. (-I16) + 2 * I16 - 1
    <2>1. -I16 \in Int /\ 2 * I16 \in Nat \ {0}
      BY Widths
    <2> QED BY <1>1, <2>1, WrapBounds
  <1>3. Wrap(Clamp(OrZero(GetI64("uptime_s")), 0, I64), 0, U32) \in 0 .. 0 + U32 - 1
    <2>1. Clamp(OrZero(GetI64("uptime_s")), 0, I64) \in Int
      BY <1>1, Widths, ClampBounds
    <2>2. U32 \in Nat \ {0} /\ 0 \in Int
      BY Widths
    <2> QED BY <2>1, <2>2, WrapBounds
  <1> QED BY <1>2, <1>3, Widths DEF StatusRow

(* What StatusExactInRange says of a row.                                  *)
Exact(r) ==
    /\ "rssi" \in DOMAIN obj =>
         \A x \in -I16 .. I16 - 1 : Denotes(obj["rssi"], x) => r.rssi = x
    /\ "uptime_s" \in DOMAIN obj =>
         /\ \A x \in 0 .. U32 - 1 : Denotes(obj["uptime_s"], x) => r.uptime_s = x
         /\ obj["uptime_s"].n < 0 => r.uptime_s = 0

LEMMA StatusRowExact ==
  ASSUME Payload
  PROVE  Exact(StatusRow)
  <1> DEFINE i == OrZero(GetI64("rssi"))
             u == OrZero(GetI64("uptime_s"))
  <1>1. i \in Int /\ u \in Int
    BY GetI64Yields
  <1>2. /\ StatusRow.rssi = Wrap(i, -I16, 2 * I16)
        /\ StatusRow.uptime_s = Wrap(Clamp(u, 0, I64), 0, U32)
    BY DEF StatusRow
  <1>3. ASSUME "rssi" \in DOMAIN obj, NEW x \in -I16 .. I16 - 1, Denotes(obj["rssi"], x)
        PROVE  i = x
    <2>1. x \in -I64 .. I64 - 1
      BY Widths
    <2> QED BY <1>3, <2>1, GetI64Denotes
  <1>4. ASSUME "uptime_s" \in DOMAIN obj, NEW x \in 0 .. U32 - 1, Denotes(obj["uptime_s"], x)
        PROVE  u = x
    <2>1. x \in -I64 .. I64 - 1
      BY Widths
    <2> QED BY <1>4, <2>1, GetI64Denotes
  <1>5. ASSUME "uptime_s" \in DOMAIN obj, obj["uptime_s"].n < 0
        PROVE  u <= 0
    BY <1>5, GetI64Denotes
  <1> HIDE DEF i, u
  <1>6. \A x \in -I16 .. I16 - 1 : Wrap(x, -I16, 2 * I16) = x
    <2>1. -I16 \in Int /\ 2 * I16 \in Nat \ {0} /\ I16 \in Int
      BY Widths
    <2>2. \A x \in -I16 .. I16 - 1 : x \in Int /\ x \in -I16 .. (-I16) + 2 * I16 - 1
      BY <2>1
    <2> QED BY <2>1, <2>2, WrapIdentity
  <1>7. \A x \in 0 .. U32 - 1 : Wrap(Clamp(x, 0, I64), 0, U32) = x
    <2>1. U32 \in Nat \ {0} /\ I64 \in Nat /\ U32 <= I64 /\ 0 \in Int
      BY Widths
    <2>2. \A x \in 0 .. U32 - 1 : Clamp(x, 0, I64) = x
      BY <2>1 DEF Clamp
    <2>3. \A x \in 0 .. U32 - 1 : x \in Int /\ x \in 0 .. 0 + U32 - 1
      BY <2>1
    <2> QED BY <2>1, <2>2, <2>3, WrapIdentity
  <1>8. u <= 0 => Clamp(u, 0, I64) = 0
    BY <1>1, Widths DEF Clamp
  <1>9. Wrap(0, 0, U32) = 0
    BY Widths, WrapIdentity
  <1> QED BY <1>2, <1>3, <1>4, <1>5, <1>6, <1>7, <1>8, <1>9 DEF Exact

LEMMA ColumnSaturates ==
  ASSUME Payload, NEW key, NEW range \in Nat \ {0}
  PROVE  /\ ClampedColumn(key, range) \in 0 .. range - 1
         /\ NearestStored(key, range, ClampedColumn(key, range))
  <1>1. /\ OrZero(GetI64(key)) \in Int
        /\ \A x \in GetI64(key) : x = OrZero(GetI64(key))
    BY GetI64Yields
  <1>2. ClampedColumn(key, range) \in 0 .. range - 1
    BY <1>1, ClampBounds DEF ClampedColumn
  <1>3. ASSUME NEW x \in GetI64(key), NEW y \in 0 .. range - 1
        PROVE  LET s == ClampedColumn(key, range) IN
                 (s - x) * (s - x) <= (y - x) * (y - x)
    <2>1. x \in Int /\ x = OrZero(GetI64(key))
      BY <1>1
    <2>2. 0 \in Int /\ range - 1 \in Int /\ 0 <= range - 1
      OBVIOUS
    <2>3. LET s == Clamp(x, 0, range - 1) IN (s - x) * (s - x) <= (y - x) * (y - x)
      BY <2>1, <2>2, ClampNearest
    <2> QED BY <2>1, <2>3 DEF ClampedColumn
  <1> QED BY <1>2, <1>3 DEF NearestStored

LEMMA SensorRowsTyped ==
  ASSUME Payload, topic # "status", NEW r \in SensorRows
  PROVE  r.table = "sensor_raw" /\ r.metric \in DataKeys /\ r.value \in Int
  <1>1. PICK k \in DOMAIN obj :
          /\ Numeric(obj[k])
          /\ r = [table |-> "sensor_raw", metric |-> k, value |-> AsF64(obj[k])]
    BY DEF SensorRows
  <1>2. obj[k] \in Value /\ k \in DataKeys
    BY DEF Payload
  <1>3. obj[k].n \in Int
    BY <1>2, ValueTyped
  <1> QED BY <1>1, <1>2, <1>3 DEF AsF64

(* Everything the properties say of the rows, at the moment of parsing.    *)
LEMMA RowsParsed ==
  ASSUME Payload, NEW r \in ParseMessage
  PROVE  \/ /\ topic = "status" /\ r.table = "device_status"
            /\ r.rssi \in -I16 .. I16 - 1 /\ r.uptime_s \in 0 .. U32 - 1
            /\ r.online => OrZero(GetI64("online")) # 0
            /\ Exact(r)
         \/ /\ r.table = "as7341_raw"
            /\ r.gain \in 0 .. U8 - 1 /\ r.f1_415 \in 0 .. U16 - 1
            /\ NearestStored("gain", U8, r.gain) /\ NearestStored("f1_415", U16, r.f1_415)
         \/ /\ r.table = "sensor_raw"
            /\ r.metric \in DataKeys /\ r.value \in Int
  <1>1. CASE topic = "status" /\ r = StatusRow
    <2>1. /\ r.table = "device_status"
          /\ r.online = Online
      BY <1>1 DEF StatusRow
    <2> QED BY <1>1, <2>1, StatusRowTyped, StatusRowExact DEF Online
  <1>2. CASE r = As7341Row
    <2>1. /\ r.table = "as7341_raw"
          /\ r.gain = ClampedColumn("gain", U8)
          /\ r.f1_415 = ClampedColumn("f1_415", U16)
      BY <1>2 DEF As7341Row
    <2> QED BY <2>1, Widths, ColumnSaturates
  <1>3. CASE topic # "status" /\ r \in SensorRows
    BY <1>3, SensorRowsTyped
  <1> QED BY <1>1, <1>2, <1>3 DEF ParseMessage
(* What holds before and after the message is handled.                     *)
ParseInv ==
    /\ Payload
    /\ TypeOK /\ ChannelsSaturate /\ OnlineOnlyIfSaid /\ StatusExactInRange

LEMMA ParseInit == Init => ParseInv
  <1> SUFFICES ASSUME Init PROVE ParseInv
    OBVIOUS
  <1>1. rows = {}
    BY DEF Init
  <1>2. ASSUME decoded # "object" PROVE Payload
    <2>1. obj = <<>>
      BY <1>2 DEF Init
    <2>2. DOMAIN obj = {}
      BY <2>1
    <2> QED BY <2>2 DEF Payload
  <1>3. ASSUME decoded = "object" PROVE Payload
    <2>1. obj \in Objects(IF topic = "status" THEN StatusKeys ELSE DataKeys)
      BY <1>3 DEF Init
    <2>2. PICK ks \in SUBSET (IF topic = "status" THEN StatusKeys ELSE DataKeys) :
            obj \in [ks -> Value]
      BY <2>1 DEF Objects
    <2> QED BY <2>2 DEF Payload
  <1>4. Payload
    BY <1>2, <1>3
  <1> QED BY <1>1, <1>4 DEF ParseInv, TypeOK, ChannelsSaturate, OnlineOnlyIfSaid,
                            StatusExactInRange

LEMMA ParseStep == ParseInv /\ [Next]_vars => ParseInv'
  <1> SUFFICES ASSUME ParseInv, [Next]_vars PROVE ParseInv'
    OBVIOUS
  <1>1. CASE UNCHANGED vars
    BY <1>1 DEF ParseInv, vars, Payload, TypeOK, ChannelsSaturate, OnlineOnlyIfSaid,
                StatusExactInRange, NearestStored, GetI64
  <1>2. CASE HandlePublish
    <2>1. Payload
      BY DEF ParseInv
    <2>2. topic' = topic /\ obj' = obj /\ rows' = ParseMessage
      BY <1>2 DEF HandlePublish
    <2>3. Payload'
      BY <2>1, <2>2 DEF Payload
    <2>4. TypeOK'
      BY <2>1, <2>2, RowsParsed DEF TypeOK
    <2>5. ChannelsSaturate'
      <3>1. \A key, range, x : NearestStored(key, range, x)' = NearestStored(key, range, x)
        BY <2>2 DEF NearestStored, GetI64
      <3> QED BY <2>1, <2>2, <3>1, RowsParsed DEF ChannelsSaturate
    <2>6. OnlineOnlyIfSaid'
      BY <2>1, <2>2, RowsParsed, GetI64Yields DEF OnlineOnlyIfSaid
    <2>7. StatusExactInRange'
      BY <2>1, <2>2, RowsParsed DEF StatusExactInRange, Exact
    <2> QED BY <2>3, <2>4, <2>5, <2>6, <2>7 DEF ParseInv
  <1> QED BY <1>1, <1>2 DEF Next

-----------------------------------------------------------------------------
(* Whatever the payload, the columns of a row are within their types: what *)
(* parse.rs casts with `as` wraps, what it clamps saturates.               *)
THEOREM ColumnsTyped == Spec => []TypeOK
  <1>1. ParseInv => TypeOK
    BY DEF ParseInv
  <1> QED BY ParseInit, ParseStep, <1>1, PTL DEF Spec

(* No AS7341 value is stored farther from the reading than need be         *)
(* (parse.rs:45-49), for every width of the columns and of i64.            *)
THEOREM ChannelsSaturateHolds == Spec => []ChannelsSaturate
  <1>1. ParseInv => ChannelsSaturate
    BY DEF ParseInv
  <1> QED BY ParseInit, ParseStep, <1>1, PTL DEF Spec

(* A device is online only if its status says so (parse.rs:40).            *)
THEOREM OnlineOnlyIfSaidHolds == Spec => []OnlineOnlyIfSaid
  <1>1. ParseInv => OnlineOnlyIfSaid
    BY DEF ParseInv
  <1> QED BY ParseInit, ParseStep, <1>1, PTL DEF Spec

(* The `as` casts of a status (parse.rs:38-39) change no value that fits   *)
(* its column, whatever the widths, and no uptime wraps below zero.        *)
THEOREM StatusExactInRangeHolds == Spec => []StatusExactInRange
  <1>1. ParseInv => StatusExactInRange
    BY DEF ParseInv
  <1> QED BY ParseInit, ParseStep, <1>1, PTL DEF Spec
=============================================================================
