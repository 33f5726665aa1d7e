------------------------------ MODULE Ingester ------------------------------
(***************************************************************************)
(* services/ingester/src/main.rs: the path of a row from an MQTT PUBLISH   *)
(* to a ClickHouse part.                                                   *)
(*                                                                         *)
(*   mqtt_loop  --tx.send-->  chan  --rx.recv-->  batch_loop               *)
(*        batch_loop: buf  --flush/mem::take-->  batch  --insert_retry-->  *)
(*        ClickHouse: open (requests in the server)  -->  parts            *)
(*                                                                         *)
(* mqtt_loop and batch_loop are two tokio tasks; every await is the end of *)
(* an action here.  The process may be killed between any two steps and    *)
(* is restarted by Kubernetes with empty memory; what the server has been  *)
(* asked to insert survives.  Time is left out (module FlushWindow): the   *)
(* ticker may fire whenever batch_loop is in its select.                   *)
(*                                                                         *)
(* A row is an identity.  The three row structs are three disjoint sets,   *)
(* as the Rust types are.                                                  *)
(***************************************************************************)
EXTENDS Naturals, Sequences, FiniteSets

CONSTANTS
    SensorRow, As7341Row, StatusRow,  \* the rows that may ever be parsed
    ChanCap,        \* mpsc::channel capacity (65536 at main.rs:135)
    MaxRows,        \* BATCH_MAX_ROWS (5000)
    MaxKeys,        \* bound: numeric keys in one sensor payload
    InsertRetries,  \* INSERT_RETRIES (3)
    MaxBad          \* bound: rejected messages per process life

ASSUME RowsAssumption ==
    /\ IsFiniteSet(SensorRow) /\ IsFiniteSet(As7341Row) /\ IsFiniteSet(StatusRow)
    /\ SensorRow \cap As7341Row = {}
    /\ SensorRow \cap StatusRow = {}
    /\ As7341Row \cap StatusRow = {}

ASSUME BoundsAssumption ==
    /\ ChanCap \in Nat \ {0}
    /\ MaxRows \in Nat
    /\ MaxKeys \in Nat \ {0}
    /\ InsertRetries \in Nat \ {0}
    /\ MaxBad \in Nat

Table == {"sensor_raw", "as7341_raw", "device_status"}

RowsOf == [t \in Table |-> CASE t = "sensor_raw" -> SensorRow
                             [] t = "as7341_raw" -> As7341Row
                             [] t = "device_status" -> StatusRow]

Row == SensorRow \cup As7341Row \cup StatusRow

(* parse::Parsed.  A sensor message carries one row per numeric key and    *)
(* never none (parse.rs:84-86); the other two carry a single row.          *)
Parsed == {m \in [table : Table, rows : SUBSET Row] :
             /\ m.rows \subseteq RowsOf[m.table]
             /\ Cardinality(m.rows) \in 1 .. (IF m.table = "sensor_raw" THEN MaxKeys ELSE 1)}

(* No message is blocked in tx.send.                                       *)
NoMsg == [table |-> "none", rows |-> {}]

(* Buffers::new                                                            *)
NoRows == [t \in Table |-> {}]

VARIABLES
    up,        \* the ingester process runs
    held,      \* the message mqtt_loop is blocked on in tx.send, or NoMsg
    chan,      \* the mpsc channel between the two tasks
    buf,       \* batch_loop's Buffers
    stage,     \* "select", the table flush is inserting into, or "dead"
    phase,     \* inside insert_retry: awaiting try_insert, or the sleep
    attempt,   \* insert_retry's attempt
    batch,     \* what mem::take moved out of buf and is not yet resolved
    metrics,   \* the counters of struct Metrics these paths touch
    open,      \* insert requests the server has neither committed nor refused
    parts,     \* requests the server has committed: blocks of the tables
    session,   \* history: rows parsed since this process started
    inserted,  \* history: rows counted in rows_inserted, of every life
    dropped,   \* history: rows counted in rows_dropped, of every life
    lost,      \* history: rows that died with a process or a task
    failures   \* history: how many inserts of each row returned an error

process == <<held, chan, buf, stage, phase, attempt, batch, metrics>>
server  == <<open, parts>>
history == <<session, inserted, dropped, lost, failures>>
vars    == <<up, process, server, history>>

-----------------------------------------------------------------------------
ChanRows(q) == UNION {q[i].rows : i \in 1 .. Len(q)}
AllRows(b)  == UNION {b[t] : t \in Table}

DistinctSlots(q) ==
    \A i, j \in 1 .. Len(q) : i # j => q[i].rows \cap q[j].rows = {}

(* Every row the process still owes an outcome.                            *)
Pending == held.rows \cup ChanRows(chan) \cup AllRows(buf) \cup AllRows(batch)

Unseen == Row \ (session \cup inserted \cup dropped \cup lost)

Metrics == [messages_received : Nat, parse_errors : Nat, rows_inserted : Nat,
            rows_dropped : Nat, insert_errors : Nat, batch_flushes : Nat]

ZeroMetrics == [messages_received |-> 0, parse_errors |-> 0, rows_inserted |-> 0,
                rows_dropped |-> 0, insert_errors |-> 0, batch_flushes |-> 0]

Requests == [table : Table, rows : SUBSET Row, attempt : 1 .. InsertRetries]

(* The flush order of main.rs:269-271, skipping empty tables (282-284).    *)
FirstTable(b) == IF b["sensor_raw"] # {} THEN "sensor_raw"
                 ELSE IF b["as7341_raw"] # {} THEN "as7341_raw"
                 ELSE "device_status"

Request_SwappedTables(t, b, n) ==   \* mutant: two table names exchanged
    [table |-> CASE t = "as7341_raw" -> "device_status"
                 [] t = "device_status" -> "as7341_raw"
                 [] OTHER -> t,
     rows |-> b[t], attempt |-> n]

(* One try_insert: the whole slice goes out in one HTTP request, so it     *)
(* becomes one block or nothing.                                           *)
Request(t, b, n) == [table |-> t, rows |-> b[t], attempt |-> n]

-----------------------------------------------------------------------------
Init == /\ up = TRUE
        /\ held = NoMsg
        /\ chan = <<>>
        /\ buf = NoRows /\ batch = NoRows
        /\ stage = "select" /\ phase = "try" /\ attempt = 1
        /\ metrics = ZeroMetrics
        /\ open = {} /\ parts = {}
        /\ session = {} /\ inserted = {} /\ dropped = {} /\ lost = {}
        /\ failures = [r \in Row |-> 0]

(* The process ends: whatever it still held, gone, is lost.                *)
ProcessEnds(gone) ==
    /\ up' = FALSE
    /\ held' = NoMsg
    /\ chan' = <<>>
    /\ buf' = NoRows /\ batch' = NoRows
    /\ stage' = "select" /\ phase' = "try" /\ attempt' = 1
    /\ metrics' = ZeroMetrics
    /\ session' = {}
    /\ lost' = lost \cup gone
    /\ UNCHANGED <<server, inserted, dropped, failures>>

-----------------------------------------------------------------------------
(* mqtt_loop                                                               *)

CountReceived == [metrics EXCEPT !.messages_received = @ + 1]

(* A PUBLISH that parses.  rumqttc has acknowledged it by the time poll()  *)
(* returns it.  A full channel blocks mqtt_loop; a closed one, because the *)
(* batcher died, makes mqtt_loop return and main end the process.          *)
PublishParsed(m) ==
    /\ up /\ held = NoMsg
    /\ m.rows \subseteq Unseen
    /\ \/ /\ stage # "dead" /\ Len(chan) < ChanCap
          /\ chan' = Append(chan, m)
          /\ session' = session \cup m.rows
          /\ metrics' = CountReceived
          /\ UNCHANGED <<up, held, buf, stage, phase, attempt, batch, server,
                         inserted, dropped, lost, failures>>
       \/ /\ stage # "dead" /\ Len(chan) >= ChanCap
          /\ held' = m
          /\ session' = session \cup m.rows
          /\ metrics' = CountReceived
          /\ UNCHANGED <<up, chan, buf, stage, phase, attempt, batch, server,
                         inserted, dropped, lost, failures>>
       \/ /\ stage = "dead"
          /\ ProcessEnds(Pending \cup m.rows)

(* A PUBLISH that parse_message rejects: counted, skipped.                 *)
PublishBad ==
    /\ up /\ held = NoMsg
    /\ metrics.parse_errors < MaxBad
    /\ metrics' = [metrics EXCEPT !.messages_received = @ + 1, !.parse_errors = @ + 1]
    /\ UNCHANGED <<up, held, chan, buf, stage, phase, attempt, batch, server, history>>

(* The blocked tx.send gets its slot.                                      *)
SendUnblocked ==
    /\ up /\ held # NoMsg
    /\ stage # "dead" /\ Len(chan) < ChanCap
    /\ chan' = Append(chan, held)
    /\ held' = NoMsg
    /\ UNCHANGED <<up, buf, stage, phase, attempt, batch, metrics, server, history>>

(* The blocked tx.send fails because the receiver is gone.                 *)
SendClosed ==
    /\ up /\ held # NoMsg
    /\ stage = "dead"
    /\ ProcessEnds(Pending)

-----------------------------------------------------------------------------
(* batch_loop, flush, insert_retry                                         *)

StartFlush_Clones(b) ==   \* mutant: the buffers are copied, not taken
    /\ buf' = b
    /\ batch' = b
    /\ stage' = FirstTable(b)
    /\ phase' = "try"
    /\ attempt' = 1
    /\ open' = open \cup {Request(FirstTable(b), b, 1)}

(* flush up to its first await: take the buffers and send the first        *)
(* request.  The sort only orders rows inside a part.  Callers pass a      *)
(* buffer that is not empty.                                               *)
StartFlush(b) ==
    /\ buf' = NoRows
    /\ batch' = b
    /\ stage' = FirstTable(b)
    /\ phase' = "try"
    /\ attempt' = 1
    /\ open' = open \cup {Request(FirstTable(b), b, 1)}

Buffered_Overwrites(m) == [buf EXCEPT ![m.table] = m.rows]   \* mutant

(* The buffers with one more message: extend for sensor, push for the rest. *)
Buffered(m) == [buf EXCEPT ![m.table] = @ \cup m.rows]

SizeReached_Above(b) == Cardinality(b["sensor_raw"]) > MaxRows   \* mutant

(* Only the sensor rows are compared with max_rows.                        *)
SizeReached(b) == Cardinality(b["sensor_raw"]) >= MaxRows

(* The recv branch of the select.  Its None arm needs the sender dropped,  *)
(* and mqtt_loop returns only after the receiver is gone, so it cannot be  *)
(* taken.                                                                  *)
Recv ==
    /\ up /\ stage = "select"
    /\ chan # <<>>
    /\ chan' = Tail(chan)
    /\ LET b == Buffered(Head(chan))
       IN \/ /\ SizeReached(b)
             /\ StartFlush(b)
          \/ /\ ~SizeReached(b)
             /\ buf' = b
             /\ UNCHANGED <<stage, phase, attempt, batch, open>>
    /\ UNCHANGED <<up, held, metrics, parts, history>>

TickFlushes_SensorOnly == buf["sensor_raw"] # {}   \* mutant

TickFlushes == buf # NoRows

(* The tick branch: an empty buffer is not flushed.                        *)
Tick ==
    /\ up /\ stage = "select"
    /\ \/ /\ TickFlushes
          /\ StartFlush(buf)
       \/ /\ ~TickFlushes
          /\ UNCHANGED <<buf, batch, stage, phase, attempt, open>>
    /\ UNCHANGED <<up, held, chan, metrics, parts, history>>

(* The table in stage is done: on to the next non-empty one, or back to    *)
(* the select with one more batch_flushes.                                 *)
Advance(counted) ==
    LET rest == [batch EXCEPT ![stage] = {}]
    IN /\ batch' = rest
       /\ phase' = "try"
       /\ attempt' = 1
       /\ \/ /\ rest = NoRows
             /\ stage' = "select"
             /\ metrics' = [counted EXCEPT !.batch_flushes = @ + 1]
             /\ UNCHANGED open
          \/ /\ rest # NoRows
             /\ stage' = FirstTable(rest)
             /\ metrics' = counted
             /\ open' = open \cup {Request(FirstTable(rest), rest, 1)}

Acknowledged_OnSend == TRUE   \* mutant

Acknowledged == Request(stage, batch, attempt) \in parts

CountInserted == [metrics EXCEPT !.rows_inserted = @ + Cardinality(batch[stage])]

(* try_insert returns Ok: the server has committed the block.              *)
InsertOk ==
    /\ up /\ stage \in Table /\ phase = "try"
    /\ Acknowledged
    /\ inserted' = inserted \cup batch[stage]
    /\ Advance(CountInserted)
    /\ UNCHANGED <<up, held, chan, buf, parts, session, dropped, lost, failures>>

(* try_insert returns Err.  The client cannot tell a refused insert from   *)
(* one whose answer was lost: the request may be committed already, or be  *)
(* committed later.                                                        *)
InsertErr ==
    /\ up /\ stage \in Table /\ phase = "try"
    /\ phase' = "sleep"
    /\ metrics' = [metrics EXCEPT !.insert_errors = @ + 1]
    /\ failures' = [r \in Row |-> IF r \in batch[stage] THEN failures[r] + 1 ELSE failures[r]]
    /\ UNCHANGED <<up, held, chan, buf, stage, attempt, batch, server, session, inserted,
                   dropped, lost>>

Exhausted_OneMore == attempt > InsertRetries            \* mutant
Exhausted_OneLess == attempt + 1 >= InsertRetries       \* mutant

(* The bound of the attempt loop.                                          *)
Exhausted == attempt >= InsertRetries

(* The back-off sleep ends: send the same slice again ...                  *)
SleepRetry ==
    /\ up /\ stage \in Table /\ phase = "sleep"
    /\ ~Exhausted
    /\ phase' = "try"
    /\ attempt' = attempt + 1
    /\ open' = open \cup {Request(stage, batch, attempt + 1)}
    /\ UNCHANGED <<up, held, chan, buf, stage, batch, metrics, parts, history>>

CountDropped_Batches == [metrics EXCEPT !.rows_dropped = @ + 1]   \* mutant

CountDropped == [metrics EXCEPT !.rows_dropped = @ + Cardinality(batch[stage])]

(* ... or, after the last attempt, drop it and count it.                   *)
SleepDrop ==
    /\ up /\ stage \in Table /\ phase = "sleep"
    /\ Exhausted
    /\ dropped' = dropped \cup batch[stage]
    /\ Advance(CountDropped)
    /\ UNCHANGED <<up, held, chan, buf, parts, session, inserted, lost, failures>>

(* The clickhouse crate panics inside try_insert (a row struct that does   *)
(* not fit the table).  tokio drops the task and, with it, the receiver    *)
(* and everything queued; mqtt_loop does not hear of it.                   *)
BatcherPanic ==
    /\ up /\ stage \in Table /\ phase = "try"
    /\ stage' = "dead"
    /\ chan' = <<>>
    /\ buf' = NoRows
    /\ batch' = NoRows
    /\ attempt' = 1
    /\ lost' = lost \cup ChanRows(chan) \cup AllRows(buf) \cup AllRows(batch)
    /\ UNCHANGED <<up, held, phase, metrics, server, session, inserted, dropped, failures>>

-----------------------------------------------------------------------------
(* The ClickHouse server, and the machine the process runs on.             *)

ServerCommit(q) ==
    /\ open' = open \ {q}
    /\ parts' = parts \cup {q}
    /\ UNCHANGED <<up, process, history>>

ServerDiscard(q) ==
    /\ open' = open \ {q}
    /\ UNCHANGED <<up, process, parts, history>>

(* Killed at any point: there is no signal handler and nothing on disk.    *)
Crash == up /\ ProcessEnds(Pending)

Restart ==
    /\ ~up
    /\ up' = TRUE
    /\ UNCHANGED <<process, server, history>>

-----------------------------------------------------------------------------
Next == \/ \E m \in Parsed : PublishParsed(m)
        \/ PublishBad
        \/ SendUnblocked
        \/ SendClosed
        \/ Recv
        \/ Tick
        \/ InsertOk
        \/ InsertErr
        \/ SleepRetry
        \/ SleepDrop
        \/ BatcherPanic
        \/ \E q \in open : ServerCommit(q)
        \/ \E q \in open : ServerDiscard(q)
        \/ Crash
        \/ Restart

Spec == Init /\ [][Next]_vars

(* The tokio scheduler runs a task that is ready; the ticker keeps firing; *)
(* sleeps end.  That every insert is answered is an assumption about       *)
(* ClickHouse and the network: the client has no request timeout.          *)
Fairness == /\ WF_vars(SendUnblocked)
            /\ WF_vars(SendClosed)
            /\ WF_vars(Recv)
            /\ WF_vars(Tick)
            /\ WF_vars(InsertOk \/ InsertErr \/ BatcherPanic)
            /\ WF_vars(SleepRetry \/ SleepDrop)

FairSpec == Spec /\ Fairness

-----------------------------------------------------------------------------
(* Properties                                                              *)

TypeOK ==
    /\ up \in BOOLEAN
    /\ held \in Parsed \cup {NoMsg}
    /\ chan \in Seq(Parsed) /\ Len(chan) <= ChanCap
    /\ buf \in [Table -> SUBSET Row]
    /\ batch \in [Table -> SUBSET Row]
    /\ \A t \in Table : buf[t] \subseteq RowsOf[t] /\ batch[t] \subseteq RowsOf[t]
    /\ stage \in Table \cup {"select", "dead"}
    /\ phase \in {"try", "sleep"}
    /\ attempt \in 1 .. InsertRetries
    /\ metrics \in Metrics
    /\ open \subseteq Requests /\ parts \subseteq Requests
    /\ session \subseteq Row /\ inserted \subseteq Row
    /\ dropped \subseteq Row /\ lost \subseteq Row
    /\ failures \in [Row -> Nat]

(* Every row parsed by this process is in exactly one place of the         *)
(* pipeline or has exactly one outcome: the blocked send, each channel     *)
(* slot, the buffers and the batch being inserted never share a row, and   *)
(* no hand-over (send, recv, mem::take, the three inserts) forgets one.    *)
Accounting ==
    /\ Pending \cap (inserted \cup dropped \cup lost) = {}
    /\ inserted \cap dropped = {}
    /\ (inserted \cup dropped) \cap lost = {}
    /\ session \subseteq Pending \cup inserted \cup dropped \cup lost
    /\ Pending \subseteq session
    /\ held.rows \cap (ChanRows(chan) \cup AllRows(buf) \cup AllRows(batch)) = {}
    /\ ChanRows(chan) \cap (AllRows(buf) \cup AllRows(batch)) = {}
    /\ AllRows(buf) \cap AllRows(batch) = {}
    /\ DistinctSlots(chan)

(* What Prometheus sees adds up: while the batcher lives, rows_inserted +  *)
(* rows_dropped + the rows still in memory are the rows parsed, and every  *)
(* message that was not a parse error brought at least one row.            *)
CountersAddUp ==
    stage # "dead" =>
        /\ metrics.rows_inserted + metrics.rows_dropped + Cardinality(Pending)
             = Cardinality(session)
        /\ metrics.messages_received - metrics.parse_errors <= Cardinality(session)

Copies(r, t) == Cardinality({q \in parts : q.table = t /\ r \in q.rows})

(* A row counted in rows_inserted is in the table of its own kind.         *)
InsertedLanded == \A t \in Table : \A r \in inserted \cap RowsOf[t] : Copies(r, t) >= 1

(* A retry after a lost answer stores a row again, but never more often    *)
(* than there are attempts, and never without an error of an insert of     *)
(* that very row, which is counted as long as its process lives.           *)
CopiesBounded ==
    \A t \in Table : \A r \in RowsOf[t] :
        /\ Copies(r, t) <= InsertRetries
        /\ Copies(r, t) <= 1 + failures[r]
        /\ r \in session => failures[r] <= metrics.insert_errors

(* A row is given up after InsertRetries inserts of this row have failed,  *)
(* however many inserts of other tables and earlier batches failed before. *)
DropsAfterRetries == \A r \in dropped : failures[r] = InsertRetries

(* The size threshold holds for sensor rows: in the select there are fewer *)
(* than MaxRows of them, and a batch exceeds it by less than one message.  *)
SensorBufferBounded ==
    /\ stage = "select" => Cardinality(buf["sensor_raw"]) < MaxRows \/ buf = NoRows
    /\ Cardinality(batch["sensor_raw"]) < MaxRows + MaxKeys

(* Once a row has an outcome no new request ever carries it.               *)
NoResubmission ==
    [][\A q \in open' \ open : q.rows \cap (inserted' \cup dropped' \cup lost') = {}]_vars

(* Every row the ingester accepts gets an outcome.                         *)
RowsResolved == \A r \in Row : r \in Pending ~> r \in inserted \cup dropped \cup lost

(* The ingester implements the row-level promise: moving rows between the  *)
(* channel, the buffers and the batch is invisible to it.                  *)
Fate == INSTANCE RowFate WITH pending <- Pending,
                              stored <- UNION {q.rows : q \in parts}

ImplementsRowFate == Fate!Spec

(* docs/iot-sensing-platform-spec-v1.md:349: sensor_raw holds as many rows *)
(* as were published, up to those waiting for a flush.                     *)
SensorRowsMatchPublished ==
    \A r \in SensorRow : Copies(r, "sensor_raw") <= 1
=============================================================================
