------------------------------- MODULE Parse -------------------------------
(***************************************************************************)
(* services/ingester/src/parse.rs and the Publish arm of mqtt_loop         *)
(* (main.rs:176-191): how one message is routed, converted and counted.    *)
(*                                                                         *)
(* A payload value is a JSON integer, a JSON float (counted in halves, so  *)
(* that truncation shows), a bool, or anything else ("text").  The integer *)
(* widths are constants: TLC runs with small ones and values on both sides *)
(* of every boundary.                                                      *)
(***************************************************************************)
EXTENDS Integers, FiniteSets

CONSTANTS
    Ints,       \* JSON integers that occur
    Halves,     \* JSON floats that occur, in halves
    I64, I16, U32, U16, U8   \* value ranges: 2^63, 2^15, 2^32, 2^16, 2^8 in the code

ASSUME ParseAssumption ==
    /\ Ints \subseteq Int /\ Halves \subseteq Int
    /\ {I64, I16, U32, U16, U8} \subseteq Nat \ {0}
    /\ I16 <= I64 /\ U32 <= I64

(* f1_415 stands for the twelve u16 columns, temp for any other key.       *)
StatusKeys == {"rssi", "uptime_s", "online"}
DataKeys == {"f1_415", "gain", "temp"}

Value == [type : {"int"}, n : Ints] \cup [type : {"float"}, n : Halves]
           \cup [type : {"bool"}, n : {0, 1}] \cup [type : {"text"}, n : {0}]

(* Objects with some of the given keys.                                    *)
Objects(keys) == UNION {[ks -> Value] : ks \in SUBSET keys}

Shape == {"device", "status", "other"}   \* parse.rs:22-26
Decoded == {"not_json", "not_object", "object"}   \* parse.rs:28-32

VARIABLES
    topic,      \* the shape of the topic
    decoded,    \* what the payload decodes to ...
    obj,        \* ... and the object, if it is one
    rows,       \* the rows handed to the batcher
    errors,     \* parse_errors
    done

vars == <<topic, decoded, obj, rows, errors, done>>

-----------------------------------------------------------------------------
(* Conversions                                                             *)

Clamp(x, lo, hi) == IF x < lo THEN lo ELSE IF x > hi THEN hi ELSE x

(* `as` between integers keeps the low bits: r is the number of values of  *)
(* the target, lo its least.                                               *)
Wrap(x, lo, r) == ((x - lo) % r) + lo

(* `as i64` of a float truncates towards zero and saturates.               *)
FloatToI64(h) == Clamp(IF h >= 0 THEN h \div 2 ELSE -((-h) \div 2), -I64, I64 - 1)

(* get_i64: None is the empty set.  An integer above i64 is not as_i64 and *)
(* goes through the float, which saturates.                                *)
GetI64(key) ==
    IF key \notin DOMAIN obj THEN {}
    ELSE CASE obj[key].type = "int" -> {Clamp(obj[key].n, -I64, I64 - 1)}
           [] obj[key].type = "float" -> {FloatToI64(obj[key].n)}
           [] obj[key].type = "bool" -> {obj[key].n}
           [] obj[key].type = "text" -> {}

OrZero(opt) == IF opt = {} THEN 0 ELSE CHOOSE x \in opt : TRUE

Numeric(v) == v.type # "text"

(* The f64 of a sensor row, in halves.                                     *)
AsF64(v) == IF v.type = "float" THEN v.n ELSE 2 * v.n

-----------------------------------------------------------------------------
(* Routing                                                                 *)

ClampedColumn_Unclamped(key, range) == OrZero(GetI64(key))               \* mutant
ClampedColumn_Wraps(key, range) == Wrap(OrZero(GetI64(key)), 0, range)   \* mutant

(* The AS7341 columns saturate (45, 49).                                   *)
ClampedColumn(key, range) == Clamp(OrZero(GetI64(key)), 0, range - 1)

Online_Default == GetI64("online") # {0}   \* mutant: online unless said not to be

(* online is true only for a number other than 0 (40).                     *)
Online == OrZero(GetI64("online")) # 0

StatusRow_NegativeWraps ==   \* mutant: uptime_s without max(0)
    [table |-> "device_status",
     rssi |-> Wrap(OrZero(GetI64("rssi")), -I16, 2 * I16),
     uptime_s |-> Wrap(OrZero(GetI64("uptime_s")), 0, U32),
     online |-> Online]

StatusRow ==
    [table |-> "device_status",
     rssi |-> Wrap(OrZero(GetI64("rssi")), -I16, 2 * I16),
     uptime_s |-> Wrap(Clamp(OrZero(GetI64("uptime_s")), 0, I64), 0, U32),
     online |-> Online]

As7341Row ==
    [table |-> "as7341_raw",
     gain |-> ClampedColumn("gain", U8),
     f1_415 |-> ClampedColumn("f1_415", U16)]

SensorRows ==
    {[table |-> "sensor_raw", metric |-> k, value |-> AsF64(obj[k])] :
        k \in {key \in DOMAIN obj : Numeric(obj[key])}}

(* Routed by the presence of the key, whatever its value.                  *)
IsAs7341 == "f1_415" \in DOMAIN obj

(* parse_message; no rows stands for Err.                                  *)
ParseMessage ==
    IF topic = "other" \/ decoded # "object" THEN {}
    ELSE IF topic = "status" THEN {StatusRow}
    ELSE IF IsAs7341 THEN {As7341Row}
    ELSE SensorRows

-----------------------------------------------------------------------------
Init == /\ topic \in Shape
        /\ decoded \in Decoded
        /\ obj \in IF decoded # "object" THEN {<<>>}
                   ELSE Objects(IF topic = "status" THEN StatusKeys ELSE DataKeys)
        /\ rows = {} /\ errors = 0 /\ done = FALSE

HandlePublish ==
    /\ ~done /\ done' = TRUE
    /\ rows' = ParseMessage
    /\ errors' = IF ParseMessage = {} THEN errors + 1 ELSE errors
    /\ UNCHANGED <<topic, decoded, obj>>

Next == HandlePublish

Spec == Init /\ [][Next]_vars

-----------------------------------------------------------------------------
(* Properties                                                              *)

(* Every column holds a value of its ClickHouse type.                      *)
TypeOK ==
    \A r \in rows :
        CASE r.table = "device_status" ->
                 r.rssi \in -I16 .. I16 - 1 /\ r.uptime_s \in 0 .. U32 - 1
          [] r.table = "as7341_raw" -> r.gain \in 0 .. U8 - 1 /\ r.f1_415 \in 0 .. U16 - 1
          [] r.table = "sensor_raw" -> r.metric \in DataKeys /\ r.value \in Int

(* A reading beyond an AS7341 column is stored as the nearest value the    *)
(* column has: a saturated channel never looks dark.                       *)
NearestStored(key, range, stored) ==
    \A x \in GetI64(key) : \A y \in 0 .. range - 1 :
        (stored - x) * (stored - x) <= (y - x) * (y - x)

ChannelsSaturate ==
    \A r \in rows : r.table = "as7341_raw" =>
        NearestStored("gain", U8, r.gain) /\ NearestStored("f1_415", U16, r.f1_415)

(* A device is recorded online only if its status says so with a number    *)
(* that is at least one in magnitude or true; a status without the key, or *)
(* with text, records it offline.                                          *)
OnlineOnlyIfSaid ==
    \A r \in rows : r.table = "device_status" /\ r.online =>
        /\ "online" \in DOMAIN obj
        /\ \/ obj["online"].type \in {"int", "bool"} /\ obj["online"].n # 0
           \/ obj["online"].type = "float" /\ obj["online"].n \notin -1 .. 1

(* The whole number a payload value stands for, counted towards zero.      *)
Denotes(v, x) ==
    \/ v.type \in {"int", "bool"} /\ v.n = x
    \/ v.type = "float" /\ v.n >= 0 /\ v.n - 2 * x \in 0 .. 1
    \/ v.type = "float" /\ v.n < 0 /\ 2 * x - v.n \in 0 .. 1

(* The two `as` casts of a status wrap, but only what their column cannot  *)
(* hold: a value that fits is stored as it was sent, fractions cut off     *)
(* (the way goes through i64 and, for a float, through its rounding), and  *)
(* a negative uptime reads as just started, never as one of 136 years.     *)
StatusExactInRange ==
    \A r \in rows : r.table = "device_status" =>
        /\ "rssi" \in DOMAIN obj =>
             \A x \in -I16 .. I16 - 1 : Denotes(obj["rssi"], x) => r.rssi = x
        /\ "uptime_s" \in DOMAIN obj =>
             /\ \A x \in 0 .. U32 - 1 : Denotes(obj["uptime_s"], x) => r.uptime_s = x
             /\ obj["uptime_s"].n < 0 => r.uptime_s = 0
=============================================================================
