--------------------------- MODULE IngesterProofs ---------------------------
(***************************************************************************)
(* Theorems of Ingester, for any finite sets of rows and any bounds.       *)
(***************************************************************************)
EXTENDS Ingester, FiniteSetTheorems, TLAPS

-----------------------------------------------------------------------------
(* Messages, sequences of them and buffers                                 *)

LEMMA RowFinite == IsFiniteSet(Row)
  BY RowsAssumption, FS_Union DEF Row

(* The rows of a message are countable and belong to the message's table.  *)
LEMMA ParsedRows ==
  ASSUME NEW m \in Parsed
  PROVE  /\ m.table \in Table
         /\ m.rows \subseteq Row
         /\ m.rows \subseteq RowsOf[m.table]
         /\ m # NoMsg
  BY DEF Parsed, NoMsg, Table, RowsOf, Row

(* RowsOf splits Row by table.                                             *)
LEMMA RowsOfDisjoint ==
  /\ \A t \in Table : RowsOf[t] \subseteq Row
  /\ \A t, u \in Table : t # u => RowsOf[t] \cap RowsOf[u] = {}
  BY RowsAssumption DEF Table, RowsOf, Row

LEMMA ChanEmpty == ChanRows(<<>>) = {} /\ DistinctSlots(<<>>)
  BY DEF ChanRows, DistinctSlots

(* tx.send puts exactly the message's rows at the back.                    *)
LEMMA ChanAppend ==
  ASSUME NEW q \in Seq(Parsed), NEW m \in Parsed
  PROVE  /\ Append(q, m) \in Seq(Parsed)
         /\ Len(Append(q, m)) = Len(q) + 1
         /\ ChanRows(Append(q, m)) = ChanRows(q) \cup m.rows
         /\ DistinctSlots(q) /\ m.rows \cap ChanRows(q) = {}
               => DistinctSlots(Append(q, m))
  <1> DEFINE p == Append(q, m)
  <1>1. p \in Seq(Parsed) /\ Len(p) = Len(q) + 1
    OBVIOUS
  <1>2. p[Len(q) + 1] = m /\ \A i \in 1 .. Len(q) : p[i] = q[i]
    OBVIOUS
  <1>3. 1 .. Len(p) = 1 .. Len(q) \cup {Len(q) + 1}
    BY <1>1
  <1>4. ChanRows(p) = ChanRows(q) \cup m.rows
    BY <1>2, <1>3 DEF ChanRows
  <1>5. ASSUME DistinctSlots(q), m.rows \cap ChanRows(q) = {}
        PROVE  DistinctSlots(p)
    <2>1. \A i \in 1 .. Len(q) : p[i].rows \subseteq ChanRows(q)
      BY <1>2 DEF ChanRows
    <2> QED BY <1>2, <1>3, <1>5, <2>1 DEF DistinctSlots
  <1> QED BY <1>1, <1>4, <1>5

(* rx.recv takes exactly the head's rows out of the channel.               *)
LEMMA ChanTail ==
  ASSUME NEW q \in Seq(Parsed), q # <<>>, DistinctSlots(q)
  PROVE  /\ Head(q) \in Parsed
         /\ Tail(q) \in Seq(Parsed)
         /\ Len(Tail(q)) = Len(q) - 1
         /\ Head(q).rows \subseteq ChanRows(q)
         /\ ChanRows(Tail(q)) = ChanRows(q) \ Head(q).rows
         /\ DistinctSlots(Tail(q))
  <1> DEFINE p == Tail(q)
  <1>1. Len(q) \in Nat \ {0} /\ Head(q) = q[1] /\ Head(q) \in Parsed
    OBVIOUS
  <1>2. p \in Seq(Parsed) /\ Len(p) = Len(q) - 1
    OBVIOUS
  <1>3. \A i \in 1 .. Len(p) : p[i] = q[i + 1] /\ i + 1 \in 1 .. Len(q)
    BY <1>1, <1>2
  <1>4. \A j \in 1 .. Len(q) : j = 1 \/ (j - 1 \in 1 .. Len(p) /\ p[j - 1] = q[j])
    BY <1>1, <1>2, <1>3
  <1>5. Head(q).rows \subseteq ChanRows(q)
    BY <1>1 DEF ChanRows
  <1>6. \A i \in 1 .. Len(p) : p[i].rows \cap Head(q).rows = {}
    BY <1>1, <1>3 DEF DistinctSlots
  <1>7. ChanRows(p) \subseteq ChanRows(q) \ Head(q).rows
    BY <1>3, <1>6 DEF ChanRows
  <1>8. ChanRows(q) \ Head(q).rows \subseteq ChanRows(p)
    BY <1>1, <1>4 DEF ChanRows
  <1>9. DistinctSlots(p)
    BY <1>2, <1>3 DEF DistinctSlots
  <1> QED BY <1>1, <1>2, <1>5, <1>7, <1>8, <1>9

LEMMA AllRowsUnion ==
  ASSUME NEW b \in [Table -> SUBSET Row]
  PROVE  AllRows(b) = b["sensor_raw"] \cup b["as7341_raw"] \cup b["device_status"]
  BY DEF AllRows, Table

LEMMA NoRowsEmpty == NoRows \in [Table -> SUBSET Row] /\ AllRows(NoRows) = {}
  BY DEF NoRows, AllRows

(* extend/push add exactly the message's rows.                             *)
LEMMA AllRowsAdd ==
  ASSUME NEW b \in [Table -> SUBSET Row], NEW t \in Table, NEW S \in SUBSET Row
  PROVE  /\ [b EXCEPT ![t] = @ \cup S] \in [Table -> SUBSET Row]
         /\ AllRows([b EXCEPT ![t] = @ \cup S]) = AllRows(b) \cup S
  BY DEF AllRows

(* Resolving one table takes exactly that table's rows out of the batch.   *)
LEMMA AllRowsClear ==
  ASSUME NEW b \in [Table -> SUBSET Row], NEW t \in Table,
         \A u \in Table : b[u] \subseteq RowsOf[u]
  PROVE  /\ [b EXCEPT ![t] = {}] \in [Table -> SUBSET Row]
         /\ AllRows([b EXCEPT ![t] = {}]) = AllRows(b) \ b[t]
         /\ b[t] \subseteq AllRows(b)
  <1> DEFINE c == [b EXCEPT ![t] = {}]
  <1>1. c \in [Table -> SUBSET Row]
    OBVIOUS
  <1>2. \A u \in Table : c[u] = (IF u = t THEN {} ELSE b[u])
    OBVIOUS
  <1>3. \A u \in Table : u # t => b[u] \cap b[t] = {}
    BY RowsOfDisjoint
  <1> QED BY <1>1, <1>2, <1>3 DEF AllRows

LEMMA FirstTableInTable == ASSUME NEW b PROVE FirstTable(b) \in Table
  BY DEF FirstTable, Table

-----------------------------------------------------------------------------
(* Type correctness                                                        *)

LEMMA TypeFacts ==
  ASSUME TypeOK
  PROVE  /\ \A t \in Table : Cardinality(batch[t]) \in Nat
         /\ \A m \in Parsed : m.rows \in SUBSET Row
  <1>1. \A t \in Table : batch[t] \subseteq Row
    BY DEF TypeOK
  <1>2. \A t \in Table : Cardinality(batch[t]) \in Nat
    BY <1>1, RowFinite, FS_Subset, FS_CardinalityType
  <1> QED BY <1>2, ParsedRows

(* The counters stay counters.                                             *)
LEMMA CountedType ==
  ASSUME TypeOK, stage \in Table
  PROVE  CountInserted \in Metrics /\ CountDropped \in Metrics
  <1> DEFINE n == Cardinality(batch[stage])
  <1>1. n \in Nat
    BY TypeFacts
  <1> HIDE DEF n
  <1>2. metrics.rows_inserted + n \in Nat /\ metrics.rows_dropped + n \in Nat
    BY <1>1 DEF TypeOK, Metrics
  <1>3. metrics \in Metrics
    BY DEF TypeOK
  <1>4. [metrics EXCEPT !.rows_inserted = @ + n] \in Metrics
    BY <1>2, <1>3 DEF Metrics
  <1>5. [metrics EXCEPT !.rows_dropped = @ + n] \in Metrics
    BY <1>2, <1>3 DEF Metrics
  <1> QED BY <1>4, <1>5 DEF CountInserted, CountDropped, n

LEMMA RequestType ==
  ASSUME NEW b \in [Table -> SUBSET Row], NEW t \in Table, NEW n \in 1 .. InsertRetries
  PROVE  Request(t, b, n) \in Requests
  BY DEF Request, Requests

(* Starting a flush of a well-typed buffer leaves the batcher well typed.  *)
LEMMA StartFlushType ==
  ASSUME TypeOK, NEW b \in [Table -> SUBSET Row],
         \A t \in Table : b[t] \subseteq RowsOf[t],
         StartFlush(b)
  PROVE  /\ buf' \in [Table -> SUBSET Row]
         /\ batch' \in [Table -> SUBSET Row]
         /\ \A t \in Table : buf'[t] \subseteq RowsOf[t] /\ batch'[t] \subseteq RowsOf[t]
         /\ stage' \in Table /\ phase' \in {"try", "sleep"}
         /\ attempt' \in 1 .. InsertRetries
         /\ open' \subseteq Requests
  <1>1. 1 \in 1 .. InsertRetries
    BY BoundsAssumption
  <1>2. Request(FirstTable(b), b, 1) \in Requests
    BY <1>1, RequestType, FirstTableInTable
  <1>3. \A t \in Table : NoRows[t] = {}
    BY DEF NoRows
  <1> QED BY <1>1, <1>2, <1>3, NoRowsEmpty, FirstTableInTable DEF StartFlush, TypeOK

(* So does finishing one table.                                            *)
LEMMA AdvanceType ==
  ASSUME TypeOK, stage \in Table, NEW counted \in Metrics, Advance(counted)
  PROVE  /\ batch' \in [Table -> SUBSET Row]
         /\ \A t \in Table : batch'[t] \subseteq RowsOf[t]
         /\ stage' \in Table \cup {"select"} /\ phase' \in {"try", "sleep"}
         /\ attempt' \in 1 .. InsertRetries
         /\ metrics' \in Metrics
         /\ open' \subseteq Requests
  <1> DEFINE rest == [batch EXCEPT ![stage] = {}]
  <1>1. 1 \in 1 .. InsertRetries
    BY BoundsAssumption
  <1>2. /\ rest \in [Table -> SUBSET Row]
        /\ \A t \in Table : rest[t] \subseteq RowsOf[t]
    BY DEF TypeOK
  <1>3. Request(FirstTable(rest), rest, 1) \in Requests
    BY <1>1, <1>2, RequestType, FirstTableInTable
  <1>4. [counted EXCEPT !.batch_flushes = @ + 1] \in Metrics
    BY DEF Metrics
  <1> HIDE DEF rest
  <1>5. /\ batch' = rest /\ phase' = "try" /\ attempt' = 1
        /\ \/ /\ stage' = "select"
              /\ metrics' = [counted EXCEPT !.batch_flushes = @ + 1]
              /\ open' = open
           \/ /\ stage' = FirstTable(rest)
              /\ metrics' = counted
              /\ open' = open \cup {Request(FirstTable(rest), rest, 1)}
    BY DEF Advance, rest
  <1> QED BY <1>1, <1>2, <1>3, <1>4, <1>5, FirstTableInTable DEF TypeOK

LEMMA ProcessEndsType ==
  ASSUME TypeOK, NEW gone \in SUBSET Row, ProcessEnds(gone)
  PROVE  TypeOK'
  <1>1. 1 \in 1 .. InsertRetries /\ ChanCap \in Nat
    BY BoundsAssumption
  <1>2. ZeroMetrics \in Metrics
    BY DEF ZeroMetrics, Metrics
  <1>3. \A t \in Table : NoRows[t] = {}
    BY DEF NoRows
  <1>4. <<>> \in Seq(Parsed) /\ Len(<<>>) = 0
    OBVIOUS
  <1>5. /\ up' \in BOOLEAN /\ held' \in Parsed \cup {NoMsg}
        /\ chan' \in Seq(Parsed) /\ Len(chan') <= ChanCap
        /\ stage' \in Table \cup {"select", "dead"} /\ phase' \in {"try", "sleep"}
        /\ attempt' \in 1 .. InsertRetries /\ metrics' \in Metrics
    <2>1. chan' = <<>> /\ chan' \in Seq(Parsed) /\ Len(chan') <= ChanCap
      BY <1>1, <1>4 DEF ProcessEnds
    <2> QED BY <1>1, <1>2, <2>1 DEF ProcessEnds
  <1>6. /\ buf' \in [Table -> SUBSET Row] /\ batch' \in [Table -> SUBSET Row]
        /\ \A t \in Table : buf'[t] \subseteq RowsOf[t] /\ batch'[t] \subseteq RowsOf[t]
    BY <1>3, NoRowsEmpty DEF ProcessEnds
  <1>7. /\ open' \subseteq Requests /\ parts' \subseteq Requests
        /\ session' \subseteq Row /\ inserted' \subseteq Row
        /\ dropped' \subseteq Row /\ lost' \subseteq Row
        /\ failures' \in [Row -> Nat]
    BY DEF TypeOK, ProcessEnds, server
  <1> QED BY <1>5, <1>6, <1>7 DEF TypeOK

LEMMA PendingInRow == ASSUME TypeOK PROVE Pending \subseteq Row
  <1>1. held.rows \subseteq Row
    BY ParsedRows DEF TypeOK, NoMsg
  <1>2. ChanRows(chan) \subseteq Row
    <2>1. \A i \in 1 .. Len(chan) : chan[i] \in Parsed
      BY DEF TypeOK
    <2> QED BY <2>1, ParsedRows DEF ChanRows
  <1>3. AllRows(buf) \subseteq Row /\ AllRows(batch) \subseteq Row
    BY DEF TypeOK, AllRows
  <1> QED BY <1>1, <1>2, <1>3 DEF Pending

(* Every state of the ingester, however often it crashed, is well typed.   *)
THEOREM TypeCorrect == Spec => []TypeOK
  <1>1. Init => TypeOK
    <2> SUFFICES ASSUME Init PROVE TypeOK
      OBVIOUS
    <2>1. 1 \in 1 .. InsertRetries /\ ChanCap \in Nat
      BY BoundsAssumption
    <2>2. ZeroMetrics \in Metrics
      BY DEF ZeroMetrics, Metrics
    <2>3. \A t \in Table : NoRows[t] = {}
      BY DEF NoRows
    <2>4. <<>> \in Seq(Parsed) /\ Len(<<>>) = 0
      OBVIOUS
    <2> QED BY <2>1, <2>2, <2>3, <2>4, NoRowsEmpty DEF TypeOK, Init
  <1>2. TypeOK /\ [Next]_vars => TypeOK'
    <2> SUFFICES ASSUME TypeOK, [Next]_vars PROVE TypeOK'
      OBVIOUS
    <2> USE DEF process, server, history
    <2>1. ASSUME NEW m \in Parsed, PublishParsed(m) PROVE TypeOK'
      <3>0. Len(chan) \in Nat /\ ChanCap \in Nat
        BY BoundsAssumption DEF TypeOK
      <3>1. CountReceived \in Metrics
        BY DEF TypeOK, Metrics, CountReceived
      <3>2. m.rows \subseteq Row
        BY ParsedRows
      <3>3. CASE stage # "dead" /\ Len(chan) < ChanCap
        <4>1. Append(chan, m) \in Seq(Parsed) /\ Len(Append(chan, m)) <= ChanCap
          BY <3>3, ChanAppend, BoundsAssumption DEF TypeOK
        <4> QED BY <2>1, <3>1, <3>2, <3>3, <4>1, BoundsAssumption DEF TypeOK, PublishParsed
      <3>4. CASE stage # "dead" /\ Len(chan) >= ChanCap
        <4>0. ~(Len(chan) < ChanCap)
          BY <3>0, <3>4
        <4>1. /\ held' = m /\ session' = session \cup m.rows
              /\ metrics' = CountReceived
              /\ UNCHANGED <<up, chan, buf, stage, phase, attempt, batch, open, parts,
                             inserted, dropped, lost, failures>>
          BY <2>1, <3>4, <4>0 DEF PublishParsed
        <4> QED BY <3>1, <3>2, <4>1 DEF TypeOK
      <3>5. CASE stage = "dead"
        BY <2>1, <3>2, <3>5, ProcessEndsType, PendingInRow DEF PublishParsed
      <3> QED BY <3>0, <3>3, <3>4, <3>5
    <2>2. CASE PublishBad
      <3>1. [metrics EXCEPT !.messages_received = @ + 1, !.parse_errors = @ + 1] \in Metrics
        <4> DEFINE m == [metrics EXCEPT !.messages_received = @ + 1]
        <4>1. m \in Metrics /\ m.parse_errors = metrics.parse_errors
          BY DEF TypeOK, Metrics
        <4>2. [m EXCEPT !.parse_errors = m.parse_errors + 1] \in Metrics
          <5> HIDE DEF m
          <5> QED BY <4>1 DEF Metrics
        <4> QED BY <4>1, <4>2
      <3> QED BY <2>2, <3>1 DEF TypeOK, PublishBad
    <2>3. CASE SendUnblocked
      <3>1. held \in Parsed
        BY <2>3 DEF TypeOK, SendUnblocked
      <3>2. Append(chan, held) \in Seq(Parsed) /\ Len(Append(chan, held)) <= ChanCap
        BY <2>3, <3>1, ChanAppend, BoundsAssumption DEF TypeOK, SendUnblocked
      <3> QED BY <2>3, <3>2 DEF TypeOK, SendUnblocked
    <2>4. CASE SendClosed
      BY <2>4, ProcessEndsType, PendingInRow DEF SendClosed
    <2>5. CASE Recv
      <3>1. Head(chan) \in Parsed /\ Tail(chan) \in Seq(Parsed) /\ Len(Tail(chan)) <= ChanCap
        BY <2>5, BoundsAssumption DEF TypeOK, Recv
      <3>2. /\ Buffered(Head(chan)) \in [Table -> SUBSET Row]
            /\ \A t \in Table : Buffered(Head(chan))[t] \subseteq RowsOf[t]
        BY <3>1, ParsedRows DEF TypeOK, Buffered
      <3>3. CASE StartFlush(Buffered(Head(chan)))
        BY <2>5, <3>1, <3>2, <3>3, StartFlushType DEF TypeOK, Recv
      <3>4. CASE /\ buf' = Buffered(Head(chan))
                 /\ UNCHANGED <<stage, phase, attempt, batch, open>>
        BY <2>5, <3>1, <3>2, <3>4 DEF TypeOK, Recv
      <3> QED BY <2>5, <3>3, <3>4 DEF Recv
    <2>6. CASE Tick
      <3>1. CASE StartFlush(buf)
        <4>1. buf \in [Table -> SUBSET Row] /\ \A t \in Table : buf[t] \subseteq RowsOf[t]
          BY DEF TypeOK
        <4> QED BY <2>6, <3>1, <4>1, StartFlushType DEF TypeOK, Tick
      <3>2. CASE UNCHANGED <<buf, batch, stage, phase, attempt, open>>
        BY <2>6, <3>2 DEF TypeOK, Tick
      <3> QED BY <2>6, <3>1, <3>2 DEF Tick
    <2>7. CASE InsertOk
      <3>1. CountInserted \in Metrics
        BY <2>7, CountedType DEF InsertOk
      <3>2. batch[stage] \subseteq Row
        BY <2>7 DEF TypeOK, InsertOk
      <3> QED BY <2>7, <3>1, <3>2, AdvanceType DEF TypeOK, InsertOk
    <2>8. CASE InsertErr
      <3>1. [metrics EXCEPT !.insert_errors = @ + 1] \in Metrics
        BY DEF TypeOK, Metrics
      <3>2. failures' \in [Row -> Nat]
        <4>1. \A r \in Row : failures[r] \in Nat /\ failures[r] + 1 \in Nat
          BY DEF TypeOK
        <4> QED BY <2>8, <4>1 DEF InsertErr
      <3> QED BY <2>8, <3>1, <3>2 DEF TypeOK, InsertErr
    <2>9. CASE SleepRetry
      <3>1. attempt + 1 \in 1 .. InsertRetries
        BY <2>9, BoundsAssumption DEF TypeOK, SleepRetry, Exhausted
      <3>2. Request(stage, batch, attempt + 1) \in Requests
        BY <2>9, <3>1, RequestType DEF TypeOK, SleepRetry
      <3> QED BY <2>9, <3>1, <3>2 DEF TypeOK, SleepRetry
    <2>10. CASE SleepDrop
      <3>1. CountDropped \in Metrics
        BY <2>10, CountedType DEF SleepDrop
      <3>2. batch[stage] \subseteq Row
        BY <2>10 DEF TypeOK, SleepDrop
      <3> QED BY <2>10, <3>1, <3>2, AdvanceType DEF TypeOK, SleepDrop
    <2>11. CASE BatcherPanic
      <3>1. /\ 1 \in 1 .. InsertRetries /\ ChanCap \in Nat
            /\ <<>> \in Seq(Parsed) /\ Len(<<>>) = 0
            /\ \A t \in Table : NoRows[t] = {}
        BY BoundsAssumption DEF NoRows
      <3>2. ChanRows(chan) \cup AllRows(buf) \cup AllRows(batch) \subseteq Row
        BY PendingInRow DEF Pending
      <3> QED BY <2>11, <3>1, <3>2, NoRowsEmpty DEF TypeOK, BatcherPanic
    <2>12. ASSUME NEW q \in open, ServerCommit(q) PROVE TypeOK'
      BY <2>12 DEF TypeOK, ServerCommit
    <2>13. ASSUME NEW q \in open, ServerDiscard(q) PROVE TypeOK'
      BY <2>13 DEF TypeOK, ServerDiscard
    <2>14. CASE Crash
      BY <2>14, ProcessEndsType, PendingInRow DEF Crash
    <2>15. CASE Restart
      BY <2>15 DEF TypeOK, Restart
    <2>16. CASE UNCHANGED vars
      BY <2>16 DEF TypeOK, vars
    <2> QED BY <2>1, <2>2, <2>3, <2>4, <2>5, <2>6, <2>7, <2>8, <2>9, <2>10,
               <2>11, <2>12, <2>13, <2>14, <2>15, <2>16 DEF Next
  <1> QED BY <1>1, <1>2, PTL DEF Spec

-----------------------------------------------------------------------------
(* Accounting.  Alone it is not inductive: flush overwrites batch, so one  *)
(* must know that batch is empty outside a flush; a dead batcher drops     *)
(* its queue, so one must know it holds nothing; and RequestsSeen says     *)
(* that the server only ever gets rows that were parsed.                   *)

Quiet == /\ stage \notin Table => batch = NoRows
         /\ stage = "dead" => chan = <<>> /\ buf = NoRows

RequestsSeen ==
    \A q \in open \cup parts : q.rows \subseteq Pending \cup inserted \cup dropped \cup lost

AccountingInv == Accounting /\ Quiet /\ RequestsSeen

LEMMA StartFlushRows ==
  ASSUME NEW b \in [Table -> SUBSET Row], StartFlush(b)
  PROVE  /\ AllRows(buf') = {}
         /\ AllRows(batch') = AllRows(b)
         /\ stage' \in Table
         /\ \A q \in open' : q \in open \/ q.rows \subseteq AllRows(b)
  <1>1. \A q \in open' : q \in open \/ q.rows = b[FirstTable(b)]
    BY DEF StartFlush, Request
  <1>2. b[FirstTable(b)] \subseteq AllRows(b)
    BY FirstTableInTable DEF AllRows
  <1> QED BY <1>1, <1>2, NoRowsEmpty, FirstTableInTable DEF StartFlush

LEMMA AdvanceRows ==
  ASSUME TypeOK, stage \in Table, NEW counted, Advance(counted)
  PROVE  /\ batch[stage] \subseteq AllRows(batch)
         /\ AllRows(batch') = AllRows(batch) \ batch[stage]
         /\ stage' \in Table \/ (stage' = "select" /\ batch' = NoRows)
         /\ \A q \in open' : q \in open \/ q.rows \subseteq AllRows(batch')
  <1> DEFINE rest == [batch EXCEPT ![stage] = {}]
  <1>1. /\ rest \in [Table -> SUBSET Row]
        /\ AllRows(rest) = AllRows(batch) \ batch[stage]
        /\ batch[stage] \subseteq AllRows(batch)
    BY AllRowsClear DEF TypeOK
  <1> HIDE DEF rest
  <1>2. /\ batch' = rest
        /\ \/ rest = NoRows /\ stage' = "select" /\ open' = open
           \/ /\ stage' = FirstTable(rest)
              /\ open' = open \cup {Request(FirstTable(rest), rest, 1)}
    BY DEF Advance, rest
  <1>3. Request(FirstTable(rest), rest, 1).rows \subseteq AllRows(rest)
    BY FirstTableInTable DEF Request, AllRows
  <1> QED BY <1>1, <1>2, <1>3, FirstTableInTable

LEMMA ProcessEndsAccounting ==
  ASSUME AccountingInv, NEW gone \in SUBSET Row,
         Pending \subseteq gone,
         gone \cap (inserted \cup dropped) = {},
         ProcessEnds(gone)
  PROVE  AccountingInv' /\ Pending' = {}
  <1>1. /\ held' = NoMsg /\ chan' = <<>> /\ buf' = NoRows /\ batch' = NoRows
        /\ stage' = "select" /\ session' = {} /\ lost' = lost \cup gone
        /\ UNCHANGED <<open, parts, inserted, dropped>>
    BY DEF ProcessEnds, server
  <1>2. /\ held'.rows = {} /\ ChanRows(chan') = {} /\ DistinctSlots(chan')
        /\ AllRows(buf') = {} /\ AllRows(batch') = {}
    BY <1>1, ChanEmpty, NoRowsEmpty DEF NoMsg
  <1>3. Pending' = {}
    BY <1>2 DEF Pending
  <1>4. Accounting'
    BY <1>1, <1>2, <1>3 DEF Accounting, AccountingInv
  <1>5. Quiet'
    BY <1>1 DEF Quiet
  <1>6. RequestsSeen'
    BY <1>1, <1>3 DEF RequestsSeen, AccountingInv
  <1> QED BY <1>3, <1>4, <1>5, <1>6 DEF AccountingInv

(* A PUBLISH adds its rows to the pending ones, or ends the process.       *)
LEMMA PublishStep ==
  ASSUME TypeOK, AccountingInv, NEW m \in Parsed, PublishParsed(m)
  PROVE  /\ AccountingInv'
         /\ \/ /\ Pending' = Pending \cup m.rows
               /\ UNCHANGED <<parts, inserted, dropped, lost>>
            \/ /\ Pending' = {} /\ ProcessEnds(Pending \cup m.rows)
  <1> USE DEF process, server, history
  <1>0. /\ Accounting /\ Quiet /\ RequestsSeen
        /\ chan \in Seq(Parsed) /\ DistinctSlots(chan)
        /\ buf \in [Table -> SUBSET Row]
    BY DEF AccountingInv, TypeOK, Accounting
  <1>1. /\ m.rows \subseteq Row
        /\ m.rows \cap (session \cup inserted \cup dropped \cup lost) = {}
    BY ParsedRows DEF PublishParsed, Unseen
  <1>2. m.rows \cap Pending = {} /\ held = NoMsg /\ held.rows = {}
    BY <1>0, <1>1 DEF Accounting, PublishParsed, NoMsg
  <1>3. CASE /\ stage # "dead" /\ chan' = Append(chan, m)
             /\ session' = session \cup m.rows
             /\ UNCHANGED <<held, buf, stage, batch, open, parts, inserted, dropped, lost>>
    <2>1. ChanRows(chan') = ChanRows(chan) \cup m.rows /\ DistinctSlots(chan')
      BY <1>0, <1>2, <1>3, ChanAppend DEF Pending
    <2>2. Pending' = Pending \cup m.rows
      BY <1>3, <2>1 DEF Pending
    <2>3. Accounting'
      BY <1>0, <1>1, <1>2, <1>3, <2>1, <2>2 DEF Accounting, Pending
    <2>4. Quiet' /\ RequestsSeen'
      BY <1>0, <1>3, <2>2 DEF Quiet, RequestsSeen
    <2> QED BY <1>3, <2>2, <2>3, <2>4 DEF AccountingInv
  <1>4. CASE /\ stage # "dead" /\ held' = m
             /\ session' = session \cup m.rows
             /\ UNCHANGED <<chan, buf, stage, batch, open, parts, inserted, dropped, lost>>
    <2>1. Pending' = Pending \cup m.rows
      BY <1>2, <1>4 DEF Pending
    <2>2. Accounting'
      BY <1>0, <1>1, <1>2, <1>4, <2>1 DEF Accounting, Pending
    <2>3. Quiet' /\ RequestsSeen'
      BY <1>0, <1>4, <2>1 DEF Quiet, RequestsSeen
    <2> QED BY <1>4, <2>1, <2>2, <2>3 DEF AccountingInv
  <1>5. CASE ProcessEnds(Pending \cup m.rows)
    <2>1. Pending \cap (inserted \cup dropped) = {} /\ Pending \subseteq Row
      BY <1>0, PendingInRow DEF Accounting
    <2> QED BY <1>1, <1>5, <2>1, ProcessEndsAccounting
  <1> QED BY <1>3, <1>4, <1>5 DEF PublishParsed

(* The blocked message moves into the channel.                             *)
LEMMA SendStep ==
  ASSUME TypeOK, AccountingInv, SendUnblocked
  PROVE  /\ AccountingInv'
         /\ Pending' = Pending
  <1> USE DEF process, server, history
  <1>0. /\ Accounting /\ Quiet /\ RequestsSeen
        /\ chan \in Seq(Parsed) /\ DistinctSlots(chan)
        /\ buf \in [Table -> SUBSET Row]
    BY DEF AccountingInv, TypeOK, Accounting
  <1>1. /\ chan' = Append(chan, held) /\ held' = NoMsg /\ held \in Parsed /\ stage # "dead"
        /\ UNCHANGED <<buf, stage, batch, open, parts, session, inserted, dropped, lost>>
    BY DEF SendUnblocked, TypeOK
  <1>2. /\ held'.rows = {}
        /\ ChanRows(chan') = ChanRows(chan) \cup held.rows /\ DistinctSlots(chan')
    BY <1>0, <1>1, ChanAppend DEF Accounting, NoMsg
  <1>3. Pending' = Pending
    BY <1>1, <1>2 DEF Pending
  <1>4. Accounting'
    BY <1>0, <1>1, <1>2, <1>3 DEF Accounting
  <1>5. Quiet' /\ RequestsSeen'
    BY <1>0, <1>1, <1>3 DEF Quiet, RequestsSeen
  <1> QED BY <1>3, <1>4, <1>5 DEF AccountingInv

(* A message moves from the channel into the buffers, or on into a batch.  *)
LEMMA RecvStep ==
  ASSUME TypeOK, AccountingInv, Recv
  PROVE  /\ AccountingInv'
         /\ Pending' = Pending
  <1> USE DEF process, server, history
  <1>0. /\ Accounting /\ Quiet /\ RequestsSeen
        /\ chan \in Seq(Parsed) /\ DistinctSlots(chan)
        /\ buf \in [Table -> SUBSET Row]
    BY DEF AccountingInv, TypeOK, Accounting
  <1> DEFINE m == Head(chan)
             b == Buffered(m)
  <1>1. /\ m \in Parsed /\ m.rows \subseteq ChanRows(chan)
        /\ ChanRows(Tail(chan)) = ChanRows(chan) \ m.rows
        /\ DistinctSlots(Tail(chan))
    BY <1>0, ChanTail DEF Recv
  <1>2. b \in [Table -> SUBSET Row] /\ AllRows(b) = AllRows(buf) \cup m.rows
    BY <1>0, <1>1, ParsedRows, AllRowsAdd DEF Buffered
  <1> HIDE DEF m, b
  <1>3. /\ stage = "select" /\ chan' = Tail(chan)
        /\ UNCHANGED <<held, parts, session, inserted, dropped, lost>>
        /\ \/ StartFlush(b)
           \/ buf' = b /\ UNCHANGED <<stage, batch, open>>
    BY DEF Recv, m, b
  <1>4. AllRows(batch) = {} /\ batch = NoRows
    BY <1>0, <1>3, NoRowsEmpty DEF Quiet, Table
  <1>5. ChanRows(chan') = ChanRows(chan) \ m.rows /\ DistinctSlots(chan')
    BY <1>1, <1>3
  <1>6. CASE StartFlush(b)
    <2>1. /\ AllRows(buf') = {} /\ AllRows(batch') = AllRows(buf) \cup m.rows
          /\ stage' \in Table
          /\ \A q \in open' : q \in open \/ q.rows \subseteq AllRows(batch')
      BY <1>2, <1>6, StartFlushRows
    <2>2. Pending' = Pending
      BY <1>1, <1>3, <1>4, <1>5, <2>1 DEF Pending
    <2>3. Accounting'
      BY <1>0, <1>1, <1>3, <1>4, <1>5, <2>1, <2>2 DEF Accounting
    <2>4. Quiet'
      BY <2>1 DEF Quiet, Table
    <2>5. RequestsSeen'
      BY <1>0, <1>3, <2>1, <2>2 DEF RequestsSeen, Pending
    <2> QED BY <2>2, <2>3, <2>4, <2>5 DEF AccountingInv
  <1>7. CASE buf' = b /\ UNCHANGED <<stage, batch, open>>
    <2>1. AllRows(buf') = AllRows(buf) \cup m.rows
      BY <1>2, <1>7
    <2>2. Pending' = Pending
      BY <1>1, <1>3, <1>4, <1>5, <1>7, <2>1 DEF Pending
    <2>3. Accounting'
      BY <1>0, <1>1, <1>3, <1>4, <1>5, <1>7, <2>1, <2>2 DEF Accounting
    <2>4. Quiet' /\ RequestsSeen'
      BY <1>0, <1>3, <1>7, <2>2 DEF Quiet, RequestsSeen
    <2> QED BY <2>2, <2>3, <2>4 DEF AccountingInv
  <1> QED BY <1>3, <1>6, <1>7

(* The buffers move into the batch.                                        *)
LEMMA TickStep ==
  ASSUME TypeOK, AccountingInv, Tick
  PROVE  /\ AccountingInv'
         /\ Pending' = Pending
  <1> USE DEF process, server, history
  <1>0. /\ Accounting /\ Quiet /\ RequestsSeen
        /\ chan \in Seq(Parsed) /\ DistinctSlots(chan)
        /\ buf \in [Table -> SUBSET Row]
    BY DEF AccountingInv, TypeOK, Accounting
  <1>1. /\ stage = "select"
        /\ UNCHANGED <<held, chan, parts, session, inserted, dropped, lost>>
        /\ StartFlush(buf) \/ UNCHANGED <<buf, stage, batch, open>>
    BY DEF Tick
  <1>2. AllRows(batch) = {}
    BY <1>0, <1>1, NoRowsEmpty DEF Quiet, Table
  <1>3. CASE StartFlush(buf)
    <2>1. /\ AllRows(buf') = {} /\ AllRows(batch') = AllRows(buf)
          /\ stage' \in Table
          /\ \A q \in open' : q \in open \/ q.rows \subseteq AllRows(batch')
      BY <1>0, <1>3, StartFlushRows
    <2>2. Pending' = Pending
      BY <1>1, <1>2, <2>1 DEF Pending
    <2>3. Accounting'
      BY <1>0, <1>1, <1>2, <2>1, <2>2 DEF Accounting
    <2>4. Quiet'
      BY <2>1 DEF Quiet, Table
    <2>5. RequestsSeen'
      BY <1>0, <1>1, <2>1, <2>2 DEF RequestsSeen, Pending
    <2> QED BY <2>2, <2>3, <2>4, <2>5 DEF AccountingInv
  <1>4. CASE UNCHANGED <<buf, stage, batch, open>>
    BY <1>0, <1>1, <1>4 DEF AccountingInv, Accounting, Quiet, RequestsSeen, Pending
  <1> QED BY <1>1, <1>3, <1>4

(* The inserted table's rows leave, and no others.                         *)
LEMMA InsertOkStep ==
  ASSUME TypeOK, AccountingInv, InsertOk
  PROVE  /\ AccountingInv'
         /\ Pending' = Pending \ batch[stage] /\ batch[stage] \subseteq Pending
  <1> USE DEF process, server, history
  <1>0. /\ Accounting /\ Quiet /\ RequestsSeen
        /\ chan \in Seq(Parsed) /\ DistinctSlots(chan)
        /\ buf \in [Table -> SUBSET Row]
    BY DEF AccountingInv, TypeOK, Accounting
  <1>1. /\ stage \in Table /\ inserted' = inserted \cup batch[stage]
        /\ Advance(CountInserted)
        /\ UNCHANGED <<held, chan, buf, parts, session, dropped, lost>>
    BY DEF InsertOk
  <1>2. /\ batch[stage] \subseteq AllRows(batch)
        /\ AllRows(batch') = AllRows(batch) \ batch[stage]
        /\ stage' \in Table \/ (stage' = "select" /\ batch' = NoRows)
        /\ \A q \in open' : q \in open \/ q.rows \subseteq AllRows(batch')
    BY <1>1, AdvanceRows
  <1>3. Pending' = Pending \ batch[stage] /\ batch[stage] \subseteq Pending
    BY <1>0, <1>1, <1>2 DEF Pending, Accounting
  <1>4. Accounting'
    BY <1>0, <1>1, <1>2, <1>3 DEF Accounting
  <1>5. Quiet'
    BY <1>2 DEF Quiet, Table
  <1>6. RequestsSeen'
    BY <1>0, <1>1, <1>2, <1>3 DEF RequestsSeen, Pending
  <1> QED BY <1>3, <1>4, <1>5, <1>6 DEF AccountingInv

(* The dropped table's rows leave, and no others.                          *)
LEMMA DropStep ==
  ASSUME TypeOK, AccountingInv, SleepDrop
  PROVE  /\ AccountingInv'
         /\ Pending' = Pending \ batch[stage] /\ batch[stage] \subseteq Pending
  <1> USE DEF process, server, history
  <1>0. /\ Accounting /\ Quiet /\ RequestsSeen
        /\ chan \in Seq(Parsed) /\ DistinctSlots(chan)
        /\ buf \in [Table -> SUBSET Row]
    BY DEF AccountingInv, TypeOK, Accounting
  <1>1. /\ stage \in Table /\ dropped' = dropped \cup batch[stage]
        /\ Advance(CountDropped)
        /\ UNCHANGED <<held, chan, buf, parts, session, inserted, lost>>
    BY DEF SleepDrop
  <1>2. /\ batch[stage] \subseteq AllRows(batch)
        /\ AllRows(batch') = AllRows(batch) \ batch[stage]
        /\ stage' \in Table \/ (stage' = "select" /\ batch' = NoRows)
        /\ \A q \in open' : q \in open \/ q.rows \subseteq AllRows(batch')
    BY <1>1, AdvanceRows
  <1>3. Pending' = Pending \ batch[stage] /\ batch[stage] \subseteq Pending
    BY <1>0, <1>1, <1>2 DEF Pending, Accounting
  <1>4. Accounting'
    BY <1>0, <1>1, <1>2, <1>3 DEF Accounting
  <1>5. Quiet'
    BY <1>2 DEF Quiet, Table
  <1>6. RequestsSeen'
    BY <1>0, <1>1, <1>2, <1>3 DEF RequestsSeen, Pending
  <1> QED BY <1>3, <1>4, <1>5, <1>6 DEF AccountingInv

(* A retry sends rows that are pending.                                    *)
LEMMA RetryStep ==
  ASSUME TypeOK, AccountingInv, SleepRetry
  PROVE  /\ AccountingInv'
         /\ Pending' = Pending
  <1> USE DEF process, server, history
  <1>0. /\ Accounting /\ Quiet /\ RequestsSeen
        /\ chan \in Seq(Parsed) /\ DistinctSlots(chan)
        /\ buf \in [Table -> SUBSET Row]
    BY DEF AccountingInv, TypeOK, Accounting
  <1>1. /\ stage \in Table /\ open' = open \cup {Request(stage, batch, attempt + 1)}
        /\ UNCHANGED <<held, chan, buf, stage, batch, parts, session, inserted, dropped, lost>>
    BY DEF SleepRetry
  <1>2. Pending' = Pending /\ Request(stage, batch, attempt + 1).rows \subseteq Pending
    BY <1>1 DEF Pending, AllRows, Request
  <1>3. Accounting' /\ Quiet'
    BY <1>0, <1>1, <1>2 DEF Accounting, Quiet
  <1>4. RequestsSeen'
    BY <1>0, <1>1, <1>2 DEF RequestsSeen
  <1> QED BY <1>2, <1>3, <1>4 DEF AccountingInv

(* A panic loses everything but the blocked message.                       *)
LEMMA PanicStep ==
  ASSUME TypeOK, AccountingInv, BatcherPanic
  PROVE  /\ AccountingInv'
         /\ Pending' = held.rows
  <1> USE DEF process, server, history
  <1>0. /\ Accounting /\ Quiet /\ RequestsSeen
        /\ chan \in Seq(Parsed) /\ DistinctSlots(chan)
        /\ buf \in [Table -> SUBSET Row]
    BY DEF AccountingInv, TypeOK, Accounting
  <1>1. /\ stage' = "dead" /\ chan' = <<>> /\ buf' = NoRows /\ batch' = NoRows
        /\ lost' = lost \cup ChanRows(chan) \cup AllRows(buf) \cup AllRows(batch)
        /\ UNCHANGED <<held, open, parts, session, inserted, dropped>>
    BY DEF BatcherPanic
  <1>2. /\ ChanRows(chan') = {} /\ DistinctSlots(chan')
        /\ AllRows(buf') = {} /\ AllRows(batch') = {}
    BY <1>1, ChanEmpty, NoRowsEmpty
  <1>3. Pending' = held.rows
    BY <1>1, <1>2 DEF Pending
  <1>4. Accounting'
    BY <1>0, <1>1, <1>2, <1>3 DEF Accounting, Pending
  <1>5. Quiet'
    BY <1>1 DEF Quiet
  <1>6. RequestsSeen'
    BY <1>0, <1>1, <1>3 DEF RequestsSeen, Pending
  <1> QED BY <1>3, <1>4, <1>5, <1>6 DEF AccountingInv

(* Steps that move no row.                                                 *)
LEMMA QuietStep ==
  ASSUME TypeOK, AccountingInv, PublishBad \/ InsertErr \/ Restart \/ UNCHANGED vars
  PROVE  /\ AccountingInv'
         /\ Pending' = Pending
  <1> USE DEF process, server, history
  <1>0. /\ Accounting /\ Quiet /\ RequestsSeen
        /\ chan \in Seq(Parsed) /\ DistinctSlots(chan)
        /\ buf \in [Table -> SUBSET Row]
    BY DEF AccountingInv, TypeOK, Accounting
  <1>1. UNCHANGED <<held, chan, buf, stage, batch, open, parts,
                    session, inserted, dropped, lost>>
    BY DEF PublishBad, InsertErr, Restart, vars
  <1>2. Pending' = Pending
    BY <1>1 DEF Pending
  <1> QED BY <1>0, <1>1, <1>2 DEF AccountingInv, Accounting, Quiet, RequestsSeen

(* The server's own steps touch nothing the process holds.                 *)
LEMMA ServerStep ==
  ASSUME TypeOK, AccountingInv, NEW q \in open, ServerCommit(q) \/ ServerDiscard(q)
  PROVE  /\ AccountingInv'
         /\ Pending' = Pending
  <1> USE DEF process, server, history
  <1>0. /\ Accounting /\ Quiet /\ RequestsSeen
        /\ chan \in Seq(Parsed) /\ DistinctSlots(chan)
        /\ buf \in [Table -> SUBSET Row]
    BY DEF AccountingInv, TypeOK, Accounting
  <1>1. /\ open' \cup parts' \subseteq open \cup parts
        /\ UNCHANGED <<held, chan, buf, stage, batch, session, inserted, dropped, lost>>
    BY DEF ServerCommit, ServerDiscard
  <1>2. Pending' = Pending
    BY <1>1 DEF Pending
  <1> QED BY <1>0, <1>1, <1>2 DEF AccountingInv, Accounting, Quiet, RequestsSeen

(* The end of the process loses exactly what was pending.                  *)
LEMMA CrashStep ==
  ASSUME TypeOK, AccountingInv, Crash \/ SendClosed
  PROVE  /\ AccountingInv'
         /\ Pending' = {} /\ ProcessEnds(Pending)
  <1> USE DEF process, server, history
  <1>0. /\ Accounting /\ Quiet /\ RequestsSeen
        /\ chan \in Seq(Parsed) /\ DistinctSlots(chan)
        /\ buf \in [Table -> SUBSET Row]
    BY DEF AccountingInv, TypeOK, Accounting
  <1>1. ProcessEnds(Pending)
    BY DEF Crash, SendClosed
  <1>2. Pending \cap (inserted \cup dropped) = {} /\ Pending \subseteq Row
    BY <1>0, PendingInRow DEF Accounting
  <1> QED BY <1>1, <1>2, ProcessEndsAccounting

LEMMA AccountingInvariant == Spec => []AccountingInv
  <1>1. Init => AccountingInv
    <2> SUFFICES ASSUME Init PROVE AccountingInv
      OBVIOUS
    <2>1. /\ held.rows = {} /\ ChanRows(chan) = {} /\ DistinctSlots(chan)
          /\ AllRows(buf) = {} /\ AllRows(batch) = {}
      BY ChanEmpty, NoRowsEmpty DEF NoMsg, Init
    <2>2. Pending = {}
      BY <2>1 DEF Pending
    <2> QED BY <2>1, <2>2 DEF AccountingInv, Accounting, Quiet, RequestsSeen, Init, Table
  <1>2. TypeOK /\ AccountingInv /\ [Next]_vars => AccountingInv'
    BY PublishStep, SendStep, RecvStep, TickStep, InsertOkStep, DropStep, RetryStep,
       PanicStep, QuietStep, ServerStep, CrashStep DEF Next
  <1> QED BY <1>1, <1>2, TypeCorrect, PTL DEF Spec

(* No row is ever forgotten, duplicated inside the process, or given two   *)
(* outcomes: property Accounting of the run ingester_rows.                 *)
THEOREM AccountingHolds == Spec => []Accounting
  <1>1. AccountingInv => Accounting
    BY DEF AccountingInv
  <1> QED BY <1>1, AccountingInvariant, PTL

-----------------------------------------------------------------------------
(* Refinement                                                              *)

Stored == UNION {q.rows : q \in parts}

(* Every behaviour of the ingester is one of RowFate: property             *)
(* ImplementsRowFate of the run ingester_rows.                             *)
THEOREM RefinesRowFate == Spec => ImplementsRowFate
  <1>1. Init => Fate!Init
    <2> SUFFICES ASSUME Init PROVE Fate!Init
      OBVIOUS
    <2>1. /\ held.rows = {} /\ ChanRows(chan) = {}
          /\ AllRows(buf) = {} /\ AllRows(batch) = {}
      BY ChanEmpty, NoRowsEmpty DEF NoMsg, Init
    <2> QED BY <2>1 DEF Fate!Init, Init, Pending
  <1>2. TypeOK /\ TypeOK' /\ AccountingInv /\ [Next]_vars => [Fate!Next]_(Fate!vars)
    <2> SUFFICES ASSUME TypeOK, TypeOK', AccountingInv, [Next]_vars
                 PROVE  Fate!Next \/ UNCHANGED Fate!vars
      BY DEF Fate!vars
    <2> USE DEF process, server, history
    <2>0. /\ Accounting /\ Quiet /\ RequestsSeen
          /\ Pending \subseteq Row /\ Stored \subseteq Row
          /\ Stored \cap Fate!Unseen = {}
      BY PendingInRow DEF AccountingInv, RequestsSeen, Stored, Fate!Unseen, TypeOK, Requests
    <2>1. ASSUME NEW gone \in SUBSET Row, ProcessEnds(gone), Pending' = {},
                 Pending \subseteq gone, gone \subseteq Pending \cup Fate!Unseen
          PROVE  Fate!Lose(gone)
      BY <2>1 DEF ProcessEnds, Fate!Lose
    <2>2. ASSUME NEW m \in Parsed, PublishParsed(m) PROVE Fate!Next
      <3>1. m.rows \subseteq Row /\ m.rows \subseteq Fate!Unseen
        BY <2>0, <2>2, ParsedRows DEF PublishParsed, Unseen, Fate!Unseen, Accounting
      <3>2. CASE /\ Pending' = Pending \cup m.rows
                 /\ UNCHANGED <<parts, inserted, dropped, lost>>
        <4>1. Fate!Accept(m.rows)
          BY <3>1, <3>2 DEF Fate!Accept
        <4> QED BY <3>1, <4>1 DEF Fate!Next
      <3>3. CASE Pending' = {} /\ ProcessEnds(Pending \cup m.rows)
        <4>1. Fate!Lose(Pending \cup m.rows)
          BY <2>0, <2>1, <3>1, <3>3
        <4> QED BY <2>0, <3>1, <4>1 DEF Fate!Next
      <3> QED BY <2>2, <3>2, <3>3, PublishStep
    <2>3. CASE SendUnblocked \/ Recv \/ Tick \/ SleepRetry \/ PublishBad \/ InsertErr
               \/ Restart \/ UNCHANGED vars
      <3>1. Pending' = Pending
        BY <2>3, SendStep, RecvStep, TickStep, RetryStep, QuietStep
      <3>2. UNCHANGED <<parts, inserted, dropped, lost>>
        BY <2>3 DEF SendUnblocked, Recv, Tick, SleepRetry, PublishBad, InsertErr, Restart, vars
      <3> QED BY <3>1, <3>2 DEF Fate!vars
    <2>4. CASE InsertOk
      <3>1. /\ Pending' = Pending \ batch[stage] /\ batch[stage] \subseteq Pending
            /\ inserted' = inserted \cup batch[stage]
            /\ UNCHANGED <<parts, dropped, lost>>
        BY <2>4, InsertOkStep DEF InsertOk
      <3>2. batch[stage] \subseteq Stored
        <4>1. Request(stage, batch, attempt) \in parts
          BY <2>4 DEF InsertOk, Acknowledged
        <4> QED BY <4>1 DEF Request, Stored
      <3>3. Fate!Confirm(batch[stage])
        BY <3>1, <3>2 DEF Fate!Confirm, Stored
      <3> QED BY <2>0, <3>1, <3>3 DEF Fate!Next
    <2>5. CASE SleepDrop
      <3>1. /\ Pending' = Pending \ batch[stage] /\ batch[stage] \subseteq Pending
            /\ dropped' = dropped \cup batch[stage]
            /\ UNCHANGED <<parts, inserted, lost>>
        BY <2>5, DropStep DEF SleepDrop
      <3>2. Fate!Drop(batch[stage])
        BY <3>1 DEF Fate!Drop
      <3> QED BY <2>0, <3>1, <3>2 DEF Fate!Next
    <2>6. CASE BatcherPanic
      <3> DEFINE S == ChanRows(chan) \cup AllRows(buf) \cup AllRows(batch)
      <3>1. S \subseteq Pending /\ Pending' = Pending \ S
        BY <2>0, <2>6, PanicStep DEF Pending, Accounting
      <3>2. lost' = lost \cup S /\ UNCHANGED <<parts, inserted, dropped>>
        BY <2>6 DEF BatcherPanic
      <3> HIDE DEF S
      <3>3. Fate!Lose(S)
        BY <3>1, <3>2 DEF Fate!Lose
      <3> QED BY <2>0, <3>1, <3>3 DEF Fate!Next
    <2>7. ASSUME NEW q \in open, ServerCommit(q) PROVE Fate!Next
      <3>1. /\ Pending' = Pending /\ parts' = parts \cup {q}
            /\ UNCHANGED <<inserted, dropped, lost>>
        BY <2>7, ServerStep DEF ServerCommit
      <3>2. q.rows \subseteq Row /\ q.rows \cap Fate!Unseen = {}
        BY <2>0 DEF RequestsSeen, Fate!Unseen, TypeOK, Requests
      <3>3. Fate!Store(q.rows)
        BY <3>1, <3>2 DEF Fate!Store
      <3> QED BY <3>2, <3>3 DEF Fate!Next
    <2>8. ASSUME NEW q \in open, ServerDiscard(q) PROVE UNCHANGED Fate!vars
      <3>1. Pending' = Pending
        BY <2>8, ServerStep
      <3> QED BY <2>8, <3>1 DEF ServerDiscard, Fate!vars
    <2>9. CASE Crash \/ SendClosed
      <3>1. Fate!Lose(Pending)
        BY <2>0, <2>1, <2>9, CrashStep
      <3> QED BY <2>0, <3>1 DEF Fate!Next
    <2> QED BY <2>2, <2>3, <2>4, <2>5, <2>6, <2>7, <2>8, <2>9 DEF Next
  <1> QED BY <1>1, <1>2, TypeCorrect, AccountingInvariant, PTL
          DEF Spec, ImplementsRowFate, Fate!Spec

=============================================================================
