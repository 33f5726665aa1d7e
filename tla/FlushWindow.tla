----------------------------- MODULE FlushWindow -----------------------------
(***************************************************************************)
(* services/ingester/src/main.rs:222-309 with time: how long a row stays   *)
(* in the ingester between its timestamp (main.rs:178) and its outcome.    *)
(*                                                                         *)
(* Same control as module Ingester, with rows reduced to what time depends *)
(* on: how many sensor rows are buffered, which tables have rows, and a    *)
(* few marked rows (Mark) whose place and age are followed.  Time is       *)
(* discrete, one unit per step Elapse, and Elapse waits for everything     *)
(* that is due: a task that is ready runs in no time.                      *)
(*                                                                         *)
(* The message mqtt_loop is blocked on in tx.send is the slot ChanCap + 1  *)
(* of chan: it already has its timestamp, and it enters the channel as     *)
(* soon as there is room, before any other message.                        *)
(***************************************************************************)
EXTENDS Naturals, Sequences, FiniteSets

CONSTANTS
    Mark,           \* marked rows
    Home,           \* their tables
    Kinds,          \* the tables messages arrive for
    MaxSecs,        \* BATCH_MAX_SECS (60)
    MaxRows,        \* BATCH_MAX_ROWS (5000)
    ChanCap,        \* channel capacity (65536)
    InsertRetries,  \* INSERT_RETRIES (3)
    MaxAnswer,      \* assumed longest insert: the code sets no timeout
    MaxAge          \* bound: ages saturate here

Table == {"sensor_raw", "as7341_raw", "device_status"}

ASSUME WindowAssumption ==
    /\ Home \in [Mark -> Kinds] /\ Kinds \subseteq Table
    /\ MaxSecs \in Nat \ {0} /\ MaxRows \in Nat \ {0} /\ ChanCap \in Nat \ {0}
    /\ InsertRetries \in Nat \ {0}
    /\ MaxAnswer \in Nat /\ MaxAge \in Nat

VARIABLES
    chan,     \* messages [table, mark], mark a set of at most one marked row
    sensor,   \* sensor rows in the buffers
    filled,   \* tables with rows in the buffers
    todo,     \* tables of the current flush not yet resolved
    bySize,   \* the current or last flush was started by the size check
    stage, phase, attempt,   \* as in Ingester
    timer,    \* time in try_insert so far, or time left of the sleep
    ticker,   \* time left to the interval's deadline
    at,       \* where each marked row is
    since,    \* time each marked row has spent there
    age       \* time since each marked row's timestamp

batcher == <<sensor, filled, todo, bySize, stage, phase, attempt, timer, ticker>>
marks   == <<at, since, age>>
vars    == <<chan, batcher, marks>>

Message == [table : Kinds, mark : {{}} \cup {{m} : m \in Mark}]

Place == {"unsent", "chan", "buf", "batch", "done"}

Unresolved(m) == at[m] \in {"chan", "buf", "batch"}

(* 2u64.pow, as a recursive function, for the provers know nothing of ^.   *)
TwoPow[n \in Nat] == IF n = 0 THEN 1 ELSE 2 * TwoPow[n - 1]

(* The sleep after a failed attempt: 1, 2, 4, ... seconds, the last one    *)
(* included (main.rs:297).                                                 *)
Backoff(n) == TwoPow[n - 1]

FirstTable(s) == IF "sensor_raw" \in s THEN "sensor_raw"
                 ELSE IF "as7341_raw" \in s THEN "as7341_raw"
                 ELSE "device_status"

(* The marked rows of S move to a new place.                               *)
Move(S, place) ==
    /\ at' = [m \in Mark |-> IF m \in S THEN place ELSE at[m]]
    /\ since' = [m \in Mark |-> IF m \in S THEN 0 ELSE since[m]]
    /\ UNCHANGED age

(* One unit older, for rows whose age still matters.                       *)
Older(clock, m) == IF Unresolved(m) /\ clock[m] < MaxAge
                   THEN clock[m] + 1 ELSE clock[m]

In(place, t) == {m \in Mark : at[m] = place /\ Home[m] = t}

-----------------------------------------------------------------------------
Init == /\ chan = <<>>
        /\ sensor = 0 /\ filled = {} /\ todo = {} /\ bySize = FALSE
        /\ stage = "select" /\ phase = "try" /\ attempt = 1 /\ timer = 0
        /\ ticker = MaxSecs          \* interval, then reset (230-232)
        /\ at = [m \in Mark |-> "unsent"]
        /\ since = [m \in Mark |-> 0]
        /\ age = [m \in Mark |-> 0]

(* mqtt_loop stamps a message and sends it.                                *)
Publish(msg) ==
    /\ Len(chan) <= ChanCap
    /\ \A m \in msg.mark : at[m] = "unsent" /\ Home[m] = msg.table
    /\ chan' = Append(chan, msg)
    /\ Move(msg.mark, "chan")
    /\ UNCHANGED batcher

(* flush takes the buffers and starts on the first table.                  *)
StartFlush(tables, S) ==
    /\ sensor' = 0 /\ filled' = {}
    /\ todo' = tables
    /\ stage' = FirstTable(tables)
    /\ phase' = "try" /\ attempt' = 1 /\ timer' = 0
    /\ Move(S, "batch")

TickerAfterRecv_Reset == MaxSecs   \* mutant: every message restarts the interval

(* Receiving a message leaves the deadline alone.                          *)
TickerAfterRecv == ticker

SizeReached_Above(n) == n > MaxRows   \* mutant

SizeReached(n) == n >= MaxRows

(* One sensor message stands for one row here.                             *)
Recv ==
    /\ stage = "select" /\ chan # <<>>
    /\ chan' = Tail(chan)
    /\ LET msg == Head(chan)
           n == IF msg.table = "sensor_raw" THEN sensor + 1 ELSE sensor
           tables == filled \cup {msg.table}
       IN \/ /\ SizeReached(n)
             /\ StartFlush(tables, msg.mark \cup {m \in Mark : at[m] = "buf"})
             /\ bySize' = TRUE
             /\ UNCHANGED ticker
          \/ /\ ~SizeReached(n)
             /\ sensor' = n /\ filled' = tables
             /\ ticker' = TickerAfterRecv
             /\ Move(msg.mark, "buf")
             /\ UNCHANGED <<todo, bySize, stage, phase, attempt, timer>>

TickFlushes == filled # {}

(* ticker.tick() completes.  With MissedTickBehavior::Delay the next       *)
(* deadline is one period after this moment, however late it is.           *)
Tick ==
    /\ stage = "select" /\ ticker = 0
    /\ ticker' = MaxSecs
    /\ \/ /\ TickFlushes
          /\ StartFlush(filled, {m \in Mark : at[m] = "buf"})
          /\ bySize' = FALSE
       \/ /\ ~TickFlushes
          /\ UNCHANGED <<sensor, filled, todo, bySize, stage, phase, attempt, timer, marks>>
    /\ UNCHANGED chan

(* On to the next table, or back to the select.  Only a size flush resets  *)
(* the ticker at its end (main.rs:248); after a tick flush the deadline    *)
(* that Tick set stands.                                                   *)
Advance ==
    LET rest == todo \ {stage}
    IN /\ todo' = rest
       /\ phase' = "try" /\ attempt' = 1 /\ timer' = 0
       /\ \/ /\ rest = {}
             /\ stage' = "select"
             /\ ticker' = IF bySize THEN MaxSecs ELSE ticker
          \/ /\ rest # {}
             /\ stage' = FirstTable(rest)
             /\ UNCHANGED ticker

InsertOk ==
    /\ stage \in Table /\ phase = "try"
    /\ Advance
    /\ Move(In("batch", stage), "done")
    /\ UNCHANGED <<chan, sensor, filled, bySize>>

InsertErr ==
    /\ stage \in Table /\ phase = "try"
    /\ phase' = "sleep"
    /\ timer' = Backoff(attempt)
    /\ UNCHANGED <<chan, sensor, filled, todo, bySize, stage, attempt, ticker, marks>>

Exhausted_OneMore == attempt > InsertRetries   \* mutant

Exhausted == attempt >= InsertRetries

SleepRetry ==
    /\ stage \in Table /\ phase = "sleep" /\ timer = 0
    /\ ~Exhausted
    /\ phase' = "try"
    /\ attempt' = attempt + 1
    /\ UNCHANGED <<chan, sensor, filled, todo, bySize, stage, timer, ticker, marks>>

SleepDrop ==
    /\ stage \in Table /\ phase = "sleep" /\ timer = 0
    /\ Exhausted
    /\ Advance
    /\ Move(In("batch", stage), "done")
    /\ UNCHANGED <<chan, sensor, filled, bySize>>

(* One unit of time.  In the select nothing may be due; a sleep may not be *)
(* over; an insert may not be at its longest.                              *)
Elapse ==
    /\ stage = "select" => chan = <<>> /\ ticker > 0
    /\ stage # "select" => IF phase = "sleep" THEN timer > 0 ELSE timer < MaxAnswer
    /\ timer' = IF stage = "select" THEN timer
                ELSE IF phase = "sleep" THEN timer - 1 ELSE timer + 1
    /\ ticker' = IF ticker > 0 THEN ticker - 1 ELSE 0
    /\ since' = [m \in Mark |-> Older(since, m)]
    /\ age' = [m \in Mark |-> Older(age, m)]
    /\ UNCHANGED <<chan, sensor, filled, todo, bySize, stage, phase, attempt, at>>

-----------------------------------------------------------------------------
Next == \/ \E msg \in Message : Publish(msg)
        \/ Recv
        \/ Tick
        \/ InsertOk
        \/ InsertErr
        \/ SleepRetry
        \/ SleepDrop
        \/ Elapse

Spec == Init /\ [][Next]_vars

-----------------------------------------------------------------------------
(* Properties                                                              *)

TypeOK ==
    /\ chan \in Seq(Message) /\ Len(chan) <= ChanCap + 1
    /\ sensor \in 0 .. MaxRows - 1
    /\ filled \subseteq Kinds /\ todo \subseteq Kinds
    /\ bySize \in BOOLEAN
    /\ stage \in Kinds \cup {"select"}
    /\ stage = "select" <=> todo = {}
    /\ stage # "select" => stage \in todo
    /\ phase \in {"try", "sleep"}
    /\ attempt \in 1 .. InsertRetries
    /\ timer \in 0 .. (MaxAnswer + Backoff(InsertRetries))
    /\ ticker \in 0 .. MaxSecs
    /\ at \in [Mark -> Place]
    /\ since \in [Mark -> 0 .. MaxAge] /\ age \in [Mark -> 0 .. MaxAge]

(* Once received, a row waits at most BATCH_MAX_SECS for its flush to      *)
(* start, whatever flushes, resets and late ticks came before: the         *)
(* interval is shared by all rows, restarted only while the buffers are    *)
(* empty, and fires late (Delay) only while the buffers are empty.         *)
BufferedWithinWindow ==
    \A m \in Mark : at[m] = "buf" => since[m] + ticker <= MaxSecs

(* The longest one table may take: InsertRetries answers and as many       *)
(* sleeps; and the longest flush.                                          *)
TableMax == InsertRetries * MaxAnswer + TwoPow[InsertRetries] - 1
FlushMax == Cardinality(Kinds) * TableMax

(* From timestamp to outcome: the flush in progress, at most a one-table   *)
(* flush for each message ahead in the channel, the window, and the row's  *)
(* own flush with the other tables before it.                              *)
ResolvedInTime ==
    \A m \in Mark : Unresolved(m) =>
        age[m] <= MaxSecs + 2 * FlushMax + ChanCap * TableMax
=============================================================================
