------------------------ MODULE IngesterCopiesProofs ------------------------
(***************************************************************************)
(* What the server gets from the ingester: how often a row is stored, and  *)
(* what the counters and the buffer limit say of it, for any finite sets   *)
(* of rows and any bounds.                                                 *)
(***************************************************************************)
EXTENDS IngesterProofs, FunctionTheorems

-----------------------------------------------------------------------------
(* The invariant                                                           *)

Sent == open \cup parts

(* All requests that carry a row are attempts for the same slice.          *)
OneBatch ==
    \A p, q \in Sent : p.rows \cap q.rows # {} => p.table = q.table /\ p.rows = q.rows

(* A request for rows that have no outcome yet is for the slice being      *)
(* inserted.                                                               *)
InFlight ==
    \A q \in Sent : q.rows \cap Pending # {} =>
        stage \in Table /\ q.table = stage /\ q.rows = batch[stage]

(* Every attempt but the first follows an error of the same rows.          *)
AttemptsFailed ==
    \A q \in Sent : \A r \in q.rows : q.attempt <= 1 + failures[r]

Landed ==
    \A t \in Table : \A r \in inserted \cap RowsOf[t] :
        \E q \in parts : q.table = t /\ r \in q.rows

CopiesInv == OneBatch /\ InFlight /\ AttemptsFailed

(* A row that no flush has taken has not failed.                           *)
NotTried ==
    \A r \in Row \ (AllRows(batch) \cup inserted \cup dropped \cup lost) : failures[r] = 0

(* The rows of the slice being inserted have failed once in every attempt  *)
(* made, those of the tables behind it not at all: flush (main.rs:269-271) *)
(* awaits one table before the next, and each starts at attempt 1.         *)
SliceFailures ==
    \A t \in Table : \A r \in batch[t] :
        failures[r] = IF t # stage THEN 0
                      ELSE IF phase = "sleep" THEN attempt ELSE attempt - 1

(* What failed in this process was counted in it.                          *)
ErrorsCounted == \A r \in session : failures[r] <= metrics.insert_errors

FailuresInv == NotTried /\ SliceFailures /\ DropsAfterRetries /\ ErrorsCounted

-----------------------------------------------------------------------------
(* Errors                                                                  *)

(* A batch's tables share no row.                                          *)
LEMMA BatchDisjoint ==
  ASSUME TypeOK, NEW t \in Table, NEW u \in Table, t # u
  PROVE  batch[t] \cap batch[u] = {}
  BY RowsOfDisjoint DEF TypeOK

(* Only a failed insert touches the errors of a row, and it adds one.      *)
LEMMA FailuresGrow ==
  ASSUME TypeOK, [Next]_vars
  PROVE  \/ failures' = failures
         \/ InsertErr /\ \A r \in Row : /\ failures[r] \in Nat
                                        /\ failures'[r] \in {failures[r], failures[r] + 1}
  <1>1. \A r \in Row : failures[r] \in Nat
    BY DEF TypeOK
  <1>2. CASE InsertErr
    BY <1>1, <1>2 DEF InsertErr
  <1>3. CASE UNCHANGED failures
    BY <1>3
  <1> QED BY <1>2, <1>3 DEF Next, PublishParsed, PublishBad, SendUnblocked, SendClosed, Recv,
             Tick, InsertOk, SleepRetry, SleepDrop, BatcherPanic, ServerCommit,
             ServerDiscard, Crash, Restart, ProcessEnds, vars, history

(* The rows that no flush has taken stay untried as long as the batch only *)
(* gives its rows to the outcomes.                                         *)
LEMMA UntriedStay ==
  ASSUME NotTried, UNCHANGED failures,
         AllRows(batch) \cup inserted \cup dropped \cup lost
           \subseteq AllRows(batch') \cup inserted' \cup dropped' \cup lost'
  PROVE  NotTried'
  BY DEF NotTried

(* Before its first request a flush holds only untried rows.               *)
LEMMA FlushUntried ==
  ASSUME TypeOK, TypeOK', AccountingInv, AccountingInv', FailuresInv,
         NEW b \in [Table -> SUBSET Row], stage = "select", StartFlush(b),
         UNCHANGED <<session, inserted, dropped, lost, failures, metrics>>
  PROVE  FailuresInv'
  <1>1. /\ batch' = b /\ phase' = "try" /\ attempt' = 1
        /\ AllRows(batch') \subseteq Pending'
        /\ AllRows(batch) = {}
    BY NoRowsEmpty DEF StartFlush, Pending, AccountingInv, Quiet, Table
  <1>2. \A r \in AllRows(batch') : r \in Row /\ failures[r] = 0
    <2>1. AllRows(batch') \cap (inserted \cup dropped \cup lost) = {}
      BY <1>1 DEF AccountingInv, Accounting
    <2>2. AllRows(batch') \subseteq Row
      BY DEF TypeOK, AllRows
    <2> QED BY <1>1, <2>1, <2>2 DEF FailuresInv, NotTried
  <1>3. NotTried'
    BY <1>1, UntriedStay DEF FailuresInv
  <1>4. SliceFailures'
    BY <1>1, <1>2 DEF SliceFailures, AllRows
  <1> QED BY <1>3, <1>4 DEF FailuresInv, DropsAfterRetries, ErrorsCounted

(* When a table is done, the next one has not been tried.                  *)
LEMMA AdvanceUntried ==
  ASSUME TypeOK, stage \in Table, FailuresInv, NEW counted, Advance(counted),
         counted \in Metrics, counted.insert_errors = metrics.insert_errors,
         batch[stage] \subseteq inserted' \cup dropped',
         inserted \subseteq inserted', dropped \subseteq dropped',
         UNCHANGED <<session, lost, failures>>
  PROVE  NotTried' /\ SliceFailures' /\ ErrorsCounted'
  <1>1. /\ batch' = [batch EXCEPT ![stage] = {}]
        /\ phase' = "try" /\ attempt' = 1
        /\ metrics'.insert_errors = metrics.insert_errors
    BY DEF Advance, Metrics
  <1>2. AllRows(batch') = AllRows(batch) \ batch[stage]
    BY AdvanceRows
  <1>3. NotTried'
    BY <1>2, UntriedStay DEF FailuresInv
  <1>4. ASSUME NEW t \in Table, NEW r \in batch'[t] PROVE failures[r] = 0
    <2>1. t # stage /\ r \in batch[t]
      BY <1>1, <1>4 DEF TypeOK
    <2> QED BY <2>1 DEF FailuresInv, SliceFailures
  <1>5. SliceFailures'
    BY <1>1, <1>4 DEF SliceFailures
  <1> QED BY <1>1, <1>3, <1>5 DEF FailuresInv, ErrorsCounted

(* A failed insert adds an error to the rows of its slice, and to these    *)
(* only.                                                                   *)
LEMMA ErrorStep ==
  ASSUME TypeOK, AccountingInv, FailuresInv, InsertErr
  PROVE  FailuresInv'
  <1> USE DEF history
  <1>1. /\ stage \in Table /\ phase = "try" /\ phase' = "sleep"
        /\ metrics'.insert_errors = metrics.insert_errors + 1
        /\ metrics.insert_errors \in Nat /\ attempt \in Nat
        /\ UNCHANGED <<stage, attempt, batch, session, inserted, dropped, lost>>
        /\ \A r \in Row : failures[r] \in Nat
        /\ \A r \in Row : failures'[r] = IF r \in batch[stage] THEN failures[r] + 1
                                                                ELSE failures[r]
        /\ batch[stage] \subseteq AllRows(batch)
    <2>1. metrics \in Metrics /\ attempt \in Nat
      BY BoundsAssumption DEF TypeOK
    <2>2. metrics'.insert_errors = metrics.insert_errors + 1 /\ metrics.insert_errors \in Nat
      BY <2>1 DEF InsertErr, Metrics
    <2> QED BY <2>1, <2>2 DEF InsertErr, TypeOK, AllRows
  <1>2. NotTried'
    BY <1>1 DEF FailuresInv, NotTried
  <1>3. ASSUME NEW t \in Table, NEW r \in batch[t]
        PROVE  failures'[r] = IF t # stage THEN 0 ELSE attempt
    <2>1. r \in Row
      BY DEF TypeOK
    <2>2. failures[r] = IF t # stage THEN 0 ELSE attempt - 1
      BY <1>1 DEF FailuresInv, SliceFailures
    <2>3. t # stage => r \notin batch[stage]
      BY <1>1, BatchDisjoint
    <2> QED BY <1>1, <2>1, <2>2, <2>3
  <1>4. SliceFailures'
    BY <1>1, <1>3 DEF SliceFailures
  <1>5. DropsAfterRetries'
    <2>1. dropped \cap batch[stage] = {} /\ dropped \subseteq Row
      BY <1>1 DEF AccountingInv, Accounting, Pending, TypeOK
    <2> QED BY <1>1, <2>1 DEF FailuresInv, DropsAfterRetries
  <1>6. ErrorsCounted'
    <2>1. \A r \in session : r \in Row /\ failures[r] <= metrics.insert_errors
      BY DEF TypeOK, FailuresInv, ErrorsCounted
    <2>2. \A r \in session : failures'[r] <= metrics.insert_errors + 1
      BY <1>1, <2>1
    <2> QED BY <1>1, <2>2 DEF ErrorsCounted
  <1> QED BY <1>2, <1>4, <1>5, <1>6 DEF FailuresInv

LEMMA FailuresStep ==
  ASSUME TypeOK, TypeOK', AccountingInv, AccountingInv', FailuresInv, [Next]_vars
  PROVE  FailuresInv'
  <1> USE DEF process, server, history
  <1>0. metrics \in Metrics /\ Pending \subseteq session /\ AllRows(batch) \subseteq Pending
    BY DEF TypeOK, AccountingInv, Accounting, Pending
  <1>1. ASSUME NEW gone, ProcessEnds(gone), AllRows(batch) \subseteq gone PROVE FailuresInv'
    <2>1. /\ AllRows(batch') = {} /\ session' = {} /\ lost' = lost \cup gone
          /\ UNCHANGED <<inserted, dropped, failures>> /\ batch' = NoRows
      BY <1>1, NoRowsEmpty DEF ProcessEnds
    <2>2. NotTried'
      BY <1>1, <2>1, UntriedStay DEF FailuresInv
    <2>3. SliceFailures'
      BY <2>1 DEF SliceFailures, NoRows
    <2> QED BY <2>1, <2>2, <2>3 DEF FailuresInv, DropsAfterRetries, ErrorsCounted
  <1>2. ASSUME UNCHANGED <<stage, phase, attempt, batch, inserted, dropped, lost, failures>>,
               metrics'.insert_errors = metrics.insert_errors,
               \A r \in session' \ session : failures[r] <= metrics.insert_errors
        PROVE  FailuresInv'
    <2>1. NotTried'
      BY <1>2, UntriedStay DEF FailuresInv
    <2> QED BY <1>2, <2>1 DEF FailuresInv, SliceFailures, DropsAfterRetries, ErrorsCounted
  <1>3. ASSUME NEW m \in Parsed, PublishParsed(m) PROVE FailuresInv'
    <2>1. CASE /\ metrics' = CountReceived /\ session' = session \cup m.rows
               /\ UNCHANGED <<stage, phase, attempt, batch, inserted, dropped, lost, failures>>
      <3>1. /\ metrics'.insert_errors = metrics.insert_errors
            /\ metrics.insert_errors \in Nat
        BY <1>0, <2>1 DEF CountReceived, Metrics
      <3>2. \A r \in m.rows : failures[r] = 0
        BY <1>0, <1>3 DEF PublishParsed, Unseen, FailuresInv, NotTried
      <3>3. \A r \in session' \ session : failures[r] <= metrics.insert_errors
        BY <2>1, <3>1, <3>2
      <3> QED BY <1>2, <2>1, <3>1, <3>3
    <2>2. CASE ProcessEnds(Pending \cup m.rows)
      BY <1>0, <1>1, <2>2
    <2> QED BY <1>3, <2>1, <2>2 DEF PublishParsed
  <1>4. CASE PublishBad
    <2>1. metrics'.insert_errors = metrics.insert_errors
      BY <1>0, <1>4 DEF PublishBad, Metrics
    <2> QED BY <1>2, <1>4, <2>1 DEF PublishBad
  <1>5. CASE SendClosed \/ Crash
    BY <1>0, <1>1, <1>5 DEF SendClosed, Crash
  <1>6. CASE Recv
    <2>1. /\ stage = "select"
          /\ UNCHANGED <<session, inserted, dropped, lost, failures, metrics>>
      BY <1>6 DEF Recv
    <2>2. Buffered(Head(chan)) \in [Table -> SUBSET Row]
      <3>1. Head(chan) \in Parsed
        BY <1>6 DEF Recv, TypeOK
      <3> QED BY <3>1, ParsedRows, AllRowsAdd DEF Buffered, TypeOK
    <2>3. CASE StartFlush(Buffered(Head(chan)))
      BY <2>1, <2>2, <2>3, FlushUntried
    <2>4. CASE UNCHANGED <<stage, phase, attempt, batch>>
      BY <1>2, <2>1, <2>4
    <2> QED BY <1>6, <2>3, <2>4 DEF Recv
  <1>7. CASE Tick
    <2>1. /\ stage = "select" /\ buf \in [Table -> SUBSET Row]
          /\ UNCHANGED <<session, inserted, dropped, lost, failures, metrics>>
      BY <1>7 DEF Tick, TypeOK
    <2>2. CASE StartFlush(buf)
      BY <2>1, <2>2, FlushUntried
    <2>3. CASE UNCHANGED <<stage, phase, attempt, batch>>
      BY <1>2, <2>1, <2>3
    <2> QED BY <1>7, <2>2, <2>3 DEF Tick
  <1>8. CASE InsertOk
    <2>1. CountInserted \in Metrics /\ CountInserted.insert_errors = metrics.insert_errors
      BY <1>0, <1>8, CountedType DEF CountInserted, Metrics, InsertOk
    <2>2. /\ inserted' = inserted \cup batch[stage] /\ stage \in Table /\ dropped' = dropped
          /\ Advance(CountInserted) /\ UNCHANGED <<session, lost, failures>>
      BY <1>8 DEF InsertOk
    <2>3. NotTried' /\ SliceFailures' /\ ErrorsCounted'
      BY <2>1, <2>2, AdvanceUntried
    <2> QED BY <2>2, <2>3 DEF FailuresInv, DropsAfterRetries
  <1>9. CASE InsertErr
    BY <1>9, ErrorStep
  <1>10. CASE SleepRetry
    <2>1. /\ phase = "sleep" /\ phase' = "try" /\ attempt' = attempt + 1
          /\ attempt \in Int
          /\ UNCHANGED <<stage, batch, metrics, session, inserted, dropped, lost, failures>>
      BY <1>10 DEF SleepRetry, TypeOK
    <2>2. NotTried'
      BY <2>1, UntriedStay DEF FailuresInv
    <2>3. SliceFailures'
      BY <2>1 DEF FailuresInv, SliceFailures
    <2> QED BY <2>1, <2>2, <2>3 DEF FailuresInv, DropsAfterRetries, ErrorsCounted
  <1>11. CASE SleepDrop
    <2>1. CountDropped \in Metrics /\ CountDropped.insert_errors = metrics.insert_errors
      BY <1>0, <1>11, CountedType DEF CountDropped, Metrics, SleepDrop
    <2>2. /\ dropped' = dropped \cup batch[stage] /\ stage \in Table /\ inserted' = inserted
          /\ Advance(CountDropped) /\ UNCHANGED <<session, lost, failures>>
          /\ phase = "sleep" /\ attempt >= InsertRetries
      BY <1>11 DEF SleepDrop, Exhausted
    <2>3. NotTried' /\ SliceFailures' /\ ErrorsCounted'
      BY <2>1, <2>2, AdvanceUntried
    <2>4. \A r \in batch[stage] : failures[r] = InsertRetries
      <3>1. attempt = InsertRetries
        BY <2>2, BoundsAssumption DEF TypeOK
      <3> QED BY <2>2, <3>1 DEF FailuresInv, SliceFailures
    <2> QED BY <2>2, <2>3, <2>4 DEF FailuresInv, DropsAfterRetries
  <1>12. CASE BatcherPanic
    <2>1. /\ batch' = NoRows /\ AllRows(batch') = {}
          /\ AllRows(batch) \subseteq lost' /\ lost \subseteq lost'
          /\ UNCHANGED <<metrics, session, inserted, dropped, failures>>
      BY <1>12, NoRowsEmpty DEF BatcherPanic
    <2>2. NotTried'
      BY <2>1, UntriedStay DEF FailuresInv
    <2>3. SliceFailures'
      BY <2>1 DEF SliceFailures, NoRows
    <2> QED BY <2>1, <2>2, <2>3 DEF FailuresInv, DropsAfterRetries, ErrorsCounted
  <1>13. CASE \/ SendUnblocked \/ Restart \/ UNCHANGED vars
              \/ \E q \in open : ServerCommit(q) \/ ServerDiscard(q)
    <2>1. UNCHANGED <<stage, phase, attempt, batch, metrics, session, inserted, dropped,
                      lost, failures>>
      BY <1>13 DEF SendUnblocked, Restart, vars, ServerCommit, ServerDiscard
    <2> QED BY <1>2, <2>1
  <1> QED BY <1>3, <1>4, <1>5, <1>6, <1>7, <1>8, <1>9, <1>10, <1>11, <1>12, <1>13 DEF Next

LEMMA FailuresInvariant == Spec => []FailuresInv
  <1>1. Init => FailuresInv
    <2> SUFFICES ASSUME Init PROVE FailuresInv
      OBVIOUS
    <2>1. batch = NoRows /\ session = {} /\ dropped = {} /\ \A r \in Row : failures[r] = 0
      BY DEF Init
    <2> QED BY <2>1 DEF FailuresInv, NotTried, SliceFailures, DropsAfterRetries,
                        ErrorsCounted, NoRows
  <1> QED BY <1>1, FailuresStep, TypeCorrect, AccountingInvariant, PTL DEF Spec

-----------------------------------------------------------------------------
(* Steps by what they send                                                 *)

(* Nothing new is sent.                                                    *)
LEMMA NothingSent ==
  ASSUME CopiesInv, TypeOK, TypeOK', Sent' \subseteq Sent,
         \A r \in Row : failures'[r] >= failures[r],
         \A q \in Sent : q.rows \cap Pending' # {} =>
           /\ q.rows \cap Pending # {}
           /\ stage' = stage /\ batch' = batch
  PROVE  CopiesInv'
  <1>1. OneBatch'
    BY DEF CopiesInv, OneBatch
  <1>2. InFlight'
    BY DEF CopiesInv, InFlight
  <1>3. ASSUME NEW q \in Sent', NEW r \in q.rows
        PROVE  q.attempt <= 1 + failures'[r]
    <2>1. q \in Sent /\ q.attempt \in Int /\ r \in Row
      BY DEF Sent, TypeOK, Requests
    <2>2. q.attempt <= 1 + failures[r]
      BY <2>1 DEF CopiesInv, AttemptsFailed
    <2>3. failures'[r] >= failures[r] /\ failures[r] \in Nat /\ failures'[r] \in Nat
      BY <2>1 DEF TypeOK
    <2> QED BY <2>1, <2>2, <2>3
  <1> QED BY <1>1, <1>2, <1>3 DEF CopiesInv, AttemptsFailed

(* The first attempt for a slice of which nothing has been sent.           *)
LEMMA FirstSent ==
  ASSUME CopiesInv, TypeOK, TypeOK', stage' \in Table,
         open' = open \cup {Request(stage', batch', 1)}, parts' = parts,
         failures' = failures,
         batch'[stage'] \subseteq Pending',
         \A q \in Sent : q.rows \cap Pending' = {}
  PROVE  CopiesInv'
  <1> DEFINE new == Request(stage', batch', 1)
  <1>1. new.table = stage' /\ new.rows = batch'[stage'] /\ new.attempt = 1
    BY DEF Request
  <1> HIDE DEF new
  <1>2. Sent' = Sent \cup {new}
    BY DEF Sent, new
  <1>3. \A q \in Sent : q.rows \cap new.rows = {}
    BY <1>1
  <1>4. OneBatch'
    BY <1>2, <1>3 DEF CopiesInv, OneBatch
  <1>5. InFlight'
    BY <1>1, <1>2 DEF InFlight
  <1>6. \A r \in new.rows : failures[r] \in Nat
    BY <1>1 DEF TypeOK
  <1>7. AttemptsFailed'
    BY <1>1, <1>2, <1>6 DEF CopiesInv, AttemptsFailed
  <1> QED BY <1>4, <1>5, <1>7 DEF CopiesInv

(* The flush begins: what it takes was never sent.                         *)
LEMMA FlushSends ==
  ASSUME CopiesInv, TypeOK, TypeOK', stage = "select", NEW b \in [Table -> SUBSET Row],
         StartFlush(b), Pending' = Pending, UNCHANGED <<parts, failures>>
  PROVE  CopiesInv'
  <1>1. stage' \in Table /\ open' = open \cup {Request(stage', batch', 1)}
    BY FirstTableInTable DEF StartFlush
  <1>2. batch'[stage'] \subseteq Pending'
    <2>1. batch'[stage'] \subseteq AllRows(batch')
      BY <1>1 DEF AllRows
    <2> QED BY <2>1 DEF Pending
  <1>3. \A q \in Sent : q.rows \cap Pending' = {}
    BY DEF CopiesInv, InFlight, Table
  <1> QED BY <1>1, <1>2, <1>3, FirstSent

(* A table is done: nothing of the next one was sent.                      *)
LEMMA AdvanceSends ==
  ASSUME CopiesInv, TypeOK, TypeOK', stage \in Table, NEW counted, Advance(counted),
         Pending' = Pending \ batch[stage], UNCHANGED <<parts, failures>>
  PROVE  CopiesInv'
  <1>1. \A q \in Sent : q.rows \cap Pending' = {}
    BY DEF CopiesInv, InFlight
  <1>2. \A r \in Row : failures'[r] >= failures[r]
    BY DEF TypeOK
  <1>4. CASE open' = open
    BY <1>1, <1>2, <1>4, NothingSent DEF Sent
  <1>5. CASE /\ stage' = FirstTable(batch')
             /\ open' = open \cup {Request(FirstTable(batch'), batch', 1)}
    <2>1. stage' \in Table
      BY <1>5, FirstTableInTable
    <2>2. batch'[stage'] \subseteq Pending'
      <3>1. batch'[stage'] \subseteq AllRows(batch')
        BY <2>1 DEF AllRows
      <3> QED BY <3>1 DEF Pending
    <2> QED BY <1>1, <1>5, <2>1, <2>2, FirstSent
  <1> QED BY <1>4, <1>5 DEF Advance

(* The same slice again: rows and table as before, one attempt more.       *)
LEMMA RetrySends ==
  ASSUME CopiesInv, TypeOK, AccountingInv, FailuresInv, SleepRetry
  PROVE  CopiesInv'
  <1> DEFINE new == Request(stage, batch, attempt + 1)
  <1>1. new.table = stage /\ new.rows = batch[stage] /\ new.attempt = attempt + 1
    BY DEF Request
  <1> HIDE DEF new
  <1>2. /\ Sent' = Sent \cup {new} /\ stage \in Table /\ phase = "sleep"
        /\ UNCHANGED <<stage, batch, failures>>
    BY DEF Sent, new, SleepRetry, history
  <1>3. Pending' = Pending
    BY RetryStep
  <1>4. batch[stage] \subseteq Pending
    <2>1. batch[stage] \subseteq AllRows(batch)
      BY <1>2 DEF AllRows
    <2> QED BY <2>1 DEF Pending
  <1>5. \A q \in Sent : q.rows \cap new.rows # {} =>
                          q.table = new.table /\ q.rows = new.rows
    BY <1>1, <1>4 DEF CopiesInv, InFlight
  <1>6. OneBatch'
    BY <1>2, <1>5 DEF CopiesInv, OneBatch
  <1>7. InFlight'
    BY <1>1, <1>2, <1>3 DEF CopiesInv, InFlight
  <1>8. \A r \in new.rows : new.attempt <= 1 + failures[r]
    <2>1. attempt \in Int
      BY DEF TypeOK
    <2>2. \A r \in batch[stage] : failures[r] = attempt
      BY <1>2 DEF FailuresInv, SliceFailures
    <2> QED BY <1>1, <2>1, <2>2
  <1>9. AttemptsFailed'
    BY <1>2, <1>8 DEF CopiesInv, AttemptsFailed
  <1> QED BY <1>6, <1>7, <1>9 DEF CopiesInv

LEMMA CopiesStep ==
  ASSUME TypeOK, TypeOK', AccountingInv, FailuresInv, CopiesInv, [Next]_vars
  PROVE  CopiesInv'
  <1> USE DEF process, server, history
  <1>0. \A r \in Row : failures'[r] >= failures[r]
    <2>1. \A r \in Row : failures[r] \in Nat
      BY DEF TypeOK
    <2> QED BY <2>1, FailuresGrow
  <1>1. ASSUME NEW gone, ProcessEnds(gone), Pending' = {} PROVE CopiesInv'
    BY <1>0, <1>1, NothingSent DEF ProcessEnds, Sent
  <1>2. ASSUME Sent' \subseteq Sent, Pending' = Pending, UNCHANGED <<stage, batch>>
        PROVE  CopiesInv'
    BY <1>0, <1>2, NothingSent
  <1>3. ASSUME NEW m \in Parsed, PublishParsed(m) PROVE CopiesInv'
    <2>1. CASE UNCHANGED <<stage, batch, open, parts>>
      <3>2. Pending' \subseteq Pending \cup m.rows
        BY <1>3, PublishStep
      <3>3. \A q \in Sent : q.rows \cap m.rows = {}
        <4>1. m.rows \cap (Pending \cup inserted \cup dropped \cup lost) = {}
          BY <1>3 DEF PublishParsed, Unseen, AccountingInv, Accounting
        <4> QED BY <4>1 DEF AccountingInv, RequestsSeen, Sent
      <3> QED BY <1>0, <2>1, <3>2, <3>3, NothingSent DEF Sent
    <2>2. CASE stage = "dead"
      <3>1. ProcessEnds(Pending \cup m.rows)
        BY <1>3, <2>2 DEF PublishParsed
      <3>2. Pending' = {}
        <4>1. /\ held' = NoMsg /\ chan' = <<>> /\ buf' = NoRows /\ batch' = NoRows
          BY <3>1 DEF ProcessEnds
        <4>2. held'.rows = {} /\ ChanRows(chan') = {} /\ AllRows(buf') = {} /\ AllRows(batch') = {}
          BY <4>1, ChanEmpty, NoRowsEmpty DEF NoMsg
        <4> QED BY <4>2 DEF Pending
      <3> QED BY <1>1, <3>1, <3>2
    <2> QED BY <1>3, <2>1, <2>2 DEF PublishParsed
  <1>4. CASE PublishBad
    BY <1>2, <1>4, QuietStep DEF PublishBad, Sent
  <1>5. CASE SendClosed \/ Crash
    BY <1>1, <1>5, CrashStep
  <1>6. CASE SendUnblocked \/ Restart \/ UNCHANGED vars
    <2>1. UNCHANGED <<open, parts, stage, batch>>
      BY <1>6 DEF SendUnblocked, Restart, vars
    <2> QED BY <1>2, <1>6, <2>1, SendStep, QuietStep DEF Sent
  <1>7. CASE Recv
    <2>1. Pending' = Pending /\ stage = "select" /\ UNCHANGED <<parts, failures>>
      BY <1>7, RecvStep DEF Recv
    <2>2. Buffered(Head(chan)) \in [Table -> SUBSET Row]
      <3>1. Head(chan) \in Parsed
        BY <1>7 DEF Recv, TypeOK
      <3> QED BY <3>1, ParsedRows, AllRowsAdd DEF Buffered, TypeOK
    <2>3. CASE StartFlush(Buffered(Head(chan)))
      BY <2>1, <2>2, <2>3, FlushSends
    <2>4. CASE UNCHANGED <<stage, batch, open>>
      BY <1>2, <2>1, <2>4 DEF Sent
    <2> QED BY <1>7, <2>3, <2>4 DEF Recv
  <1>8. CASE Tick
    <2>1. Pending' = Pending /\ stage = "select" /\ UNCHANGED <<parts, failures>>
      BY <1>8, TickStep DEF Tick
    <2>2. CASE StartFlush(buf)
      BY <2>1, <2>2, FlushSends DEF TypeOK
    <2>3. CASE UNCHANGED <<stage, batch, open>>
      BY <1>2, <2>1, <2>3 DEF Sent
    <2> QED BY <1>8, <2>2, <2>3 DEF Tick
  <1>9. CASE InsertOk
    BY <1>9, InsertOkStep, AdvanceSends DEF InsertOk
  <1>10. CASE SleepDrop
    BY <1>10, DropStep, AdvanceSends DEF SleepDrop
  <1>11. CASE InsertErr
    BY <1>2, <1>11, QuietStep DEF InsertErr, Sent
  <1>12. CASE SleepRetry
    BY <1>12, RetrySends
  <1>13. CASE BatcherPanic
    <2>1. Pending' = held.rows /\ UNCHANGED <<open, parts>>
      BY <1>13, PanicStep DEF BatcherPanic
    <2>2. ASSUME NEW q \in Sent, q.rows \cap Pending' # {} PROVE FALSE
      <3>1. q.rows \cap Pending # {} /\ held.rows \cap AllRows(batch) = {}
        BY <2>1, <2>2 DEF Pending, AccountingInv, Accounting
      <3>2. stage \in Table /\ q.rows = batch[stage]
        BY <3>1 DEF CopiesInv, InFlight
      <3>3. q.rows \subseteq AllRows(batch)
        BY <3>2 DEF AllRows
      <3> QED BY <2>1, <2>2, <3>1, <3>3
    <2> QED BY <1>0, <2>1, <2>2, NothingSent DEF Sent
  <1>14. ASSUME NEW q \in open, ServerCommit(q) \/ ServerDiscard(q) PROVE CopiesInv'
    <2>1. Sent' \subseteq Sent /\ UNCHANGED <<stage, batch>>
      BY <1>14 DEF ServerCommit, ServerDiscard, Sent
    <2> QED BY <1>2, <1>14, <2>1, ServerStep
  <1> QED BY <1>3, <1>4, <1>5, <1>6, <1>7, <1>8, <1>9, <1>10, <1>11, <1>12, <1>13,
             <1>14 DEF Next

LEMMA CopiesInvariant == Spec => []CopiesInv
  <1>1. Init => CopiesInv
    BY DEF Init, CopiesInv, OneBatch, InFlight, AttemptsFailed, Sent
  <1> QED BY <1>1, CopiesStep, TypeCorrect, AccountingInvariant, FailuresInvariant, PTL
          DEF Spec

-----------------------------------------------------------------------------
(* Counting                                                                *)

CopiesOf(r, t) == {q \in parts : q.table = t /\ r \in q.rows}

(* The copies of a row differ in their attempt only.                       *)
LEMMA CopiesByAttempt ==
  ASSUME TypeOK, CopiesInv, NEW r, NEW t, NEW n \in Nat,
         \A q \in CopiesOf(r, t) : q.attempt <= n
  PROVE  IsFiniteSet(CopiesOf(r, t)) /\ Copies(r, t) <= n
  <1> DEFINE C == CopiesOf(r, t)
             f == [q \in C |-> q.attempt]
  <1>1. \A q \in C : q \in Requests /\ q.table = t /\ r \in q.rows /\ q \in Sent
    BY DEF CopiesOf, TypeOK, Sent
  <1>2. f \in [C -> 1 .. n]
    <2>1. ASSUME NEW q \in C PROVE q.attempt \in 1 .. n
      BY <1>1, BoundsAssumption DEF Requests
    <2> QED BY <2>1
  <1>3. ASSUME NEW p \in C, NEW q \in C, p.attempt = q.attempt PROVE p = q
    <2>1. p.rows = q.rows /\ p.table = q.table
      BY <1>1 DEF CopiesInv, OneBatch
    <2>2. /\ p = [table |-> p.table, rows |-> p.rows, attempt |-> p.attempt]
          /\ q = [table |-> q.table, rows |-> q.rows, attempt |-> q.attempt]
      BY <1>1 DEF Requests
    <2> QED BY <1>3, <2>1, <2>2
  <1>4. f \in Injection(C, 1 .. n)
    BY <1>2, <1>3, Fun_IsInj
  <1>5. IsFiniteSet(1 .. n) /\ Cardinality(1 .. n) = n
    BY FS_Interval
  <1>6. IsFiniteSet(C) /\ Cardinality(C) <= Cardinality(1 .. n)
    BY <1>4, <1>5, FS_Injection
  <1> QED BY <1>5, <1>6 DEF Copies, CopiesOf

(* However answers are lost, processes die and requests arrive late, a row *)
(* is stored at most InsertRetries times (main.rs:285-300), and at most    *)
(* once more than inserts of that very row returned an error.              *)
THEOREM CopiesBoundedHolds == Spec => []CopiesBounded
  <1>1. TypeOK /\ CopiesInv /\ FailuresInv => CopiesBounded
    <2> SUFFICES ASSUME TypeOK, CopiesInv, FailuresInv, NEW t \in Table, NEW r \in RowsOf[t]
                 PROVE  /\ Copies(r, t) <= InsertRetries
                        /\ Copies(r, t) <= 1 + failures[r]
                        /\ r \in session => failures[r] <= metrics.insert_errors
      BY DEF CopiesBounded
    <2>1. \A q \in CopiesOf(r, t) : q \in Requests /\ q \in Sent /\ r \in q.rows
      BY DEF CopiesOf, TypeOK, Sent
    <2>2. Copies(r, t) <= InsertRetries
      <3>1. \A q \in CopiesOf(r, t) : q.attempt <= InsertRetries
        BY <2>1 DEF Requests
      <3>2. InsertRetries \in Nat
        BY BoundsAssumption
      <3> QED BY <3>1, <3>2, CopiesByAttempt
    <2>3. Copies(r, t) <= 1 + failures[r]
      <3>1. \A q \in CopiesOf(r, t) : q.attempt <= 1 + failures[r]
        BY <2>1 DEF CopiesInv, AttemptsFailed
      <3>2. 1 + failures[r] \in Nat
        BY RowsOfDisjoint DEF TypeOK
      <3> QED BY <3>1, <3>2, CopiesByAttempt
    <2> QED BY <2>2, <2>3 DEF FailuresInv, ErrorsCounted
  <1> QED BY <1>1, TypeCorrect, CopiesInvariant, FailuresInvariant, PTL

(* rows_dropped never counts a row of which fewer than InsertRetries       *)
(* inserts failed (main.rs:285-302), in however long an outage.            *)
THEOREM DropsAfterRetriesHolds == Spec => []DropsAfterRetries
  <1>1. FailuresInv => DropsAfterRetries
    BY DEF FailuresInv
  <1> QED BY <1>1, FailuresInvariant, PTL

(* What is counted as inserted was committed, to the table of its kind:    *)
(* the acknowledged request is for the slice that is then counted.         *)
THEOREM InsertedLandedHolds == Spec => []InsertedLanded
  <1>1. Init => Landed
    BY DEF Init, Landed
  <1>2. TypeOK /\ Landed /\ [Next]_vars => Landed'
    <2> SUFFICES ASSUME TypeOK, Landed, [Next]_vars PROVE Landed'
      OBVIOUS
    <2>1. parts \subseteq parts'
      BY DEF Next, PublishParsed, PublishBad, SendUnblocked, SendClosed, Recv, Tick,
             InsertOk, InsertErr, SleepRetry, SleepDrop, BatcherPanic, ServerCommit,
             ServerDiscard, Crash, Restart, ProcessEnds, vars, server
    <2>2. CASE InsertOk
      <3>1. /\ stage \in Table /\ inserted' = inserted \cup batch[stage]
            /\ Request(stage, batch, attempt) \in parts
        BY <2>2 DEF InsertOk, Acknowledged
      <3>2. ASSUME NEW t \in Table, NEW r \in batch[stage] \cap RowsOf[t]
            PROVE  \E q \in parts : q.table = t /\ r \in q.rows
        <4>1. r \in RowsOf[stage] /\ t = stage
          BY <3>1, RowsOfDisjoint DEF TypeOK
        <4> QED BY <3>1, <4>1 DEF Request
      <3> QED BY <2>1, <3>1, <3>2 DEF Landed
    <2>3. CASE inserted' = inserted
      BY <2>1, <2>3 DEF Landed
    <2> QED BY <2>2, <2>3 DEF Next, PublishParsed, PublishBad, SendUnblocked, SendClosed,
               Recv, Tick, InsertErr, SleepRetry, SleepDrop, BatcherPanic, ServerCommit,
               ServerDiscard, Crash, Restart, ProcessEnds, vars, history
  <1>3. TypeOK /\ CopiesInv /\ Landed => InsertedLanded
    <2> SUFFICES ASSUME TypeOK, CopiesInv, Landed, NEW t \in Table,
                        NEW r \in inserted \cap RowsOf[t]
                 PROVE  Copies(r, t) >= 1
      BY DEF InsertedLanded
    <2>1. CopiesOf(r, t) # {}
      BY DEF Landed, CopiesOf
    <2>2. IsFiniteSet(CopiesOf(r, t))
      <3>1. \A q \in CopiesOf(r, t) : q.attempt <= InsertRetries
        BY DEF CopiesOf, TypeOK, Requests
      <3>2. InsertRetries \in Nat
        BY BoundsAssumption
      <3> QED BY <3>1, <3>2, CopiesByAttempt
    <2>3. Cardinality(CopiesOf(r, t)) \in Nat /\ Cardinality(CopiesOf(r, t)) # 0
      BY <2>1, <2>2, FS_CardinalityType, FS_EmptySet
    <2> QED BY <2>3 DEF Copies, CopiesOf
  <1> QED BY <1>1, <1>2, <1>3, TypeCorrect, CopiesInvariant, PTL DEF Spec

(* What a step sends is in the batch it leaves behind.                     *)
LEMMA SentFromBatch ==
  ASSUME TypeOK, [Next]_vars
  PROVE  \A q \in open' \ open : q.rows \subseteq AllRows(batch')
  <1> USE DEF process, server, history
  <1>1. CASE Recv
    <2>1. Head(chan) \in Parsed
      BY <1>1 DEF Recv, TypeOK
    <2>2. Buffered(Head(chan)) \in [Table -> SUBSET Row]
      BY <2>1, ParsedRows, AllRowsAdd DEF Buffered, TypeOK
    <2>3. CASE StartFlush(Buffered(Head(chan)))
      <3>1. \A q \in open' : q \in open \/ q.rows \subseteq AllRows(Buffered(Head(chan)))
        BY <2>2, <2>3, StartFlushRows
      <3>2. AllRows(batch') = AllRows(Buffered(Head(chan)))
        BY <2>2, <2>3, StartFlushRows
      <3> QED BY <3>1, <3>2
    <2> QED BY <1>1, <2>3 DEF Recv
  <1>2. CASE Tick
    BY <1>2, StartFlushRows DEF Tick, TypeOK
  <1>3. CASE InsertOk
    BY <1>3, AdvanceRows DEF InsertOk
  <1>4. CASE SleepDrop
    BY <1>4, AdvanceRows DEF SleepDrop
  <1>5. CASE SleepRetry
    <2>1. /\ \A q \in open' : q \in open \/ q.rows = batch[stage]
          /\ stage \in Table /\ batch' = batch
      BY <1>5 DEF SleepRetry, Request
    <2>2. batch[stage] \subseteq AllRows(batch)
      BY <2>1 DEF AllRows
    <2> QED BY <2>1, <2>2
  <1>6. CASE open' \subseteq open
    BY <1>6
  <1> QED BY <1>1, <1>2, <1>3, <1>4, <1>5, <1>6
          DEF Next, PublishParsed, PublishBad, SendUnblocked, SendClosed, InsertErr,
              BatcherPanic, ServerCommit, ServerDiscard, Crash, Restart, ProcessEnds, vars

(* A row with an outcome is never sent again: main.rs:265 takes the rows   *)
(* out of the buffers, and insert_retry keeps no slice that it has given   *)
(* back.                                                                   *)
THEOREM NoResubmissionHolds == Spec => NoResubmission
  <1>1. TypeOK /\ AccountingInv' /\ [Next]_vars =>
          [\A q \in open' \ open :
             q.rows \cap (inserted' \cup dropped' \cup lost') = {}]_vars
    <2> SUFFICES ASSUME TypeOK, AccountingInv', [Next]_vars, NEW q \in open' \ open
                 PROVE  q.rows \cap (inserted' \cup dropped' \cup lost') = {}
      OBVIOUS
    <2>1. q.rows \subseteq AllRows(batch')
      BY SentFromBatch
    <2>2. AllRows(batch') \subseteq Pending'
      BY DEF Pending
    <2>3. Pending' \cap (inserted' \cup dropped' \cup lost') = {}
      BY DEF AccountingInv, Accounting
    <2> QED BY <2>1, <2>2, <2>3
  <1> QED BY <1>1, TypeCorrect, AccountingInvariant, PTL DEF Spec, NoResubmission

-----------------------------------------------------------------------------
(* Sets of rows are finite: their sizes add up.                            *)

LEMMA RowsCount ==
  ASSUME NEW S \in SUBSET Row
  PROVE  IsFiniteSet(S) /\ Cardinality(S) \in Nat
  BY RowFinite, FS_Subset, FS_CardinalityType

LEMMA CountDisjoint ==
  ASSUME NEW S \in SUBSET Row, NEW T \in SUBSET Row, S \cap T = {}
  PROVE  Cardinality(S \cup T) = Cardinality(S) + Cardinality(T)
  <1>1. /\ IsFiniteSet(S) /\ IsFiniteSet(T)
        /\ Cardinality(S) \in Nat /\ Cardinality(T) \in Nat
    BY RowsCount
  <1>2. Cardinality(S \cup T)
          = Cardinality(S) + Cardinality(T) - Cardinality(S \cap T)
    BY <1>1, FS_Union
  <1>3. Cardinality(S \cap T) = 0
    BY FS_EmptySet
  <1> QED BY <1>1, <1>2, <1>3

LEMMA CountTaken ==
  ASSUME NEW S \in SUBSET Row, NEW T \in SUBSET S
  PROVE  Cardinality(S \ T) + Cardinality(T) = Cardinality(S)
  <1>1. (S \ T) \cup T = S /\ (S \ T) \cap T = {}
    OBVIOUS
  <1> QED BY <1>1, CountDisjoint

(* A message brings at least one row, and at most MaxKeys.                 *)
LEMMA MessageCount ==
  ASSUME NEW m \in Parsed
  PROVE  Cardinality(m.rows) \in 1 .. MaxKeys
  <1>1. Cardinality(m.rows) \in 1 .. (IF m.table = "sensor_raw" THEN MaxKeys ELSE 1)
    BY DEF Parsed
  <1> QED BY <1>1, BoundsAssumption

-----------------------------------------------------------------------------
(* Counters                                                                *)

LEMMA CountersStep ==
  ASSUME TypeOK, TypeOK', AccountingInv, CountersAddUp, [Next]_vars
  PROVE  CountersAddUp'
  <1> USE DEF process, server, history
  <1>0. /\ metrics \in Metrics
        /\ metrics.rows_inserted \in Nat /\ metrics.rows_dropped \in Nat
        /\ metrics.messages_received \in Nat /\ metrics.parse_errors \in Nat
        /\ Pending \in SUBSET Row /\ Pending \subseteq session
        /\ session \in SUBSET Row
        /\ Cardinality(Pending) \in Nat /\ Cardinality(session) \in Nat
    <2>1. Pending \in SUBSET Row /\ session \in SUBSET Row
      BY PendingInRow DEF TypeOK
    <2> QED BY <2>1, RowsCount DEF TypeOK, Metrics, AccountingInv, Accounting
  <1>1. ASSUME NEW gone, ProcessEnds(gone), Pending' = {} PROVE CountersAddUp'
    <2>1. metrics' = ZeroMetrics /\ session' = {}
      BY <1>1 DEF ProcessEnds
    <2>2. Cardinality({}) = 0
      BY FS_EmptySet
    <2> QED BY <1>1, <2>1, <2>2 DEF CountersAddUp, ZeroMetrics
  <1>2. ASSUME Pending' = Pending, UNCHANGED <<metrics, session>>, stage' = "dead" \/ stage # "dead"
        PROVE  CountersAddUp'
    BY <1>2 DEF CountersAddUp
  <1>3. ASSUME NEW m \in Parsed, PublishParsed(m) PROVE CountersAddUp'
    <2>1. CASE /\ stage # "dead" /\ metrics' = CountReceived
               /\ session' = session \cup m.rows /\ ~ProcessEnds(Pending \cup m.rows)
      <3>1. Pending' = Pending \cup m.rows
        BY <1>3, <2>1, PublishStep
      <3>2. m.rows \in SUBSET Row /\ m.rows \cap session = {} /\ m.rows \cap Pending = {}
        BY <1>0, <1>3, ParsedRows DEF PublishParsed, Unseen
      <3>3. /\ Cardinality(Pending') = Cardinality(Pending) + Cardinality(m.rows)
            /\ Cardinality(session') = Cardinality(session) + Cardinality(m.rows)
        BY <1>0, <2>1, <3>1, <3>2, CountDisjoint
      <3>4. Cardinality(m.rows) \in Nat /\ Cardinality(m.rows) >= 1
        BY MessageCount, BoundsAssumption
      <3>5. /\ metrics'.rows_inserted = metrics.rows_inserted
            /\ metrics'.rows_dropped = metrics.rows_dropped
            /\ metrics'.messages_received = metrics.messages_received + 1
            /\ metrics'.parse_errors = metrics.parse_errors
        BY <1>0, <2>1 DEF CountReceived, Metrics
      <3> QED BY <1>0, <2>1, <3>3, <3>4, <3>5 DEF CountersAddUp
    <2>2. CASE ProcessEnds(Pending \cup m.rows)
      <3>1. Pending' = {}
        <4>1. held' = NoMsg /\ chan' = <<>> /\ buf' = NoRows /\ batch' = NoRows
          BY <2>2 DEF ProcessEnds
        <4>2. held'.rows = {} /\ ChanRows(chan') = {} /\ AllRows(buf') = {} /\ AllRows(batch') = {}
          BY <4>1, ChanEmpty, NoRowsEmpty DEF NoMsg
        <4> QED BY <4>2 DEF Pending
      <3> QED BY <1>1, <2>2, <3>1
    <2> QED BY <1>3, <2>1, <2>2 DEF PublishParsed
  <1>4. CASE PublishBad
    <2>1. /\ metrics'.rows_inserted = metrics.rows_inserted
          /\ metrics'.rows_dropped = metrics.rows_dropped
          /\ metrics'.messages_received = metrics.messages_received + 1
          /\ metrics'.parse_errors = metrics.parse_errors + 1
      BY <1>0, <1>4 DEF PublishBad, Metrics
    <2>2. Pending' = Pending /\ session' = session /\ stage' = stage
      BY <1>4, QuietStep DEF PublishBad
    <2> QED BY <1>0, <2>1, <2>2 DEF CountersAddUp
  <1>5. CASE SendClosed \/ Crash
    BY <1>1, <1>5, CrashStep
  <1>6. CASE SendUnblocked \/ Recv \/ Tick \/ SleepRetry
    <2>1. Pending' = Pending
      BY <1>6, SendStep, RecvStep, TickStep, RetryStep
    <2>2. UNCHANGED <<metrics, session>> /\ stage # "dead"
      BY <1>6 DEF SendUnblocked, Recv, Tick, SleepRetry, Table
    <2> QED BY <1>2, <2>1, <2>2
  <1>7. CASE InsertErr
    <2>1. Pending' = Pending /\ session' = session /\ stage' = stage
      BY <1>7, QuietStep DEF InsertErr
    <2>2. /\ metrics'.rows_inserted = metrics.rows_inserted
          /\ metrics'.rows_dropped = metrics.rows_dropped
          /\ metrics'.messages_received = metrics.messages_received
          /\ metrics'.parse_errors = metrics.parse_errors
      BY <1>0, <1>7 DEF InsertErr, Metrics
    <2> QED BY <2>1, <2>2 DEF CountersAddUp
  <1>8. CASE InsertOk \/ SleepDrop
    <2>1. /\ Pending' = Pending \ batch[stage] /\ batch[stage] \subseteq Pending
          /\ session' = session /\ stage # "dead"
      BY <1>8, InsertOkStep, DropStep DEF InsertOk, SleepDrop, Table
    <2>2. /\ Cardinality(Pending') + Cardinality(batch[stage]) = Cardinality(Pending)
          /\ Cardinality(Pending') \in Nat /\ Cardinality(batch[stage]) \in Nat
      BY <1>0, <2>1, CountTaken, RowsCount
    <2>3. /\ metrics'.rows_inserted + metrics'.rows_dropped
               = metrics.rows_inserted + metrics.rows_dropped + Cardinality(batch[stage])
          /\ metrics'.messages_received = metrics.messages_received
          /\ metrics'.parse_errors = metrics.parse_errors
      <3>1. CASE InsertOk
        <4>1. /\ CountInserted \in Metrics
              /\ CountInserted.rows_inserted = metrics.rows_inserted + Cardinality(batch[stage])
              /\ CountInserted.rows_dropped = metrics.rows_dropped
              /\ CountInserted.messages_received = metrics.messages_received
              /\ CountInserted.parse_errors = metrics.parse_errors
          BY <1>0, <2>2, <3>1, CountedType DEF CountInserted, InsertOk, Metrics
        <4>2. /\ metrics'.rows_inserted = CountInserted.rows_inserted
              /\ metrics'.rows_dropped = CountInserted.rows_dropped
              /\ metrics'.messages_received = CountInserted.messages_received
              /\ metrics'.parse_errors = CountInserted.parse_errors
          BY <3>1, <4>1 DEF InsertOk, Advance, Metrics
        <4> QED BY <1>0, <2>2, <4>1, <4>2
      <3>2. CASE SleepDrop
        <4>1. /\ CountDropped \in Metrics
              /\ CountDropped.rows_inserted = metrics.rows_inserted
              /\ CountDropped.rows_dropped = metrics.rows_dropped + Cardinality(batch[stage])
              /\ CountDropped.messages_received = metrics.messages_received
              /\ CountDropped.parse_errors = metrics.parse_errors
          BY <1>0, <2>2, <3>2, CountedType DEF CountDropped, SleepDrop, Metrics
        <4>2. /\ metrics'.rows_inserted = CountDropped.rows_inserted
              /\ metrics'.rows_dropped = CountDropped.rows_dropped
              /\ metrics'.messages_received = CountDropped.messages_received
              /\ metrics'.parse_errors = CountDropped.parse_errors
          BY <3>2, <4>1 DEF SleepDrop, Advance, Metrics
        <4> QED BY <1>0, <2>2, <4>1, <4>2
      <3> QED BY <1>8, <3>1, <3>2
    <2>4. metrics'.rows_inserted \in Nat /\ metrics'.rows_dropped \in Nat
      BY DEF TypeOK, Metrics
    <2> QED BY <1>0, <2>1, <2>2, <2>3, <2>4 DEF CountersAddUp
  <1>9. CASE BatcherPanic
    BY <1>9 DEF BatcherPanic, CountersAddUp
  <1>10. CASE Restart \/ UNCHANGED vars \/ \E q \in open : ServerCommit(q) \/ ServerDiscard(q)
    <2>1. Pending' = Pending
      BY <1>10, QuietStep, ServerStep
    <2>2. UNCHANGED <<metrics, session, stage>>
      BY <1>10 DEF Restart, vars, ServerCommit, ServerDiscard
    <2> QED BY <2>1, <2>2 DEF CountersAddUp
  <1> QED BY <1>3, <1>4, <1>5, <1>6, <1>7, <1>8, <1>9, <1>10 DEF Next

(* The counters that Prometheus scrapes account for every row and every    *)
(* message, as long as the batcher lives.                                  *)
THEOREM CountersAddUpHolds == Spec => []CountersAddUp
  <1>1. Init => CountersAddUp
    <2> SUFFICES ASSUME Init PROVE CountersAddUp
      OBVIOUS
    <2>1. /\ held.rows = {} /\ ChanRows(chan) = {}
          /\ AllRows(buf) = {} /\ AllRows(batch) = {}
      BY ChanEmpty, NoRowsEmpty DEF NoMsg, Init
    <2>2. Pending = {} /\ session = {} /\ Cardinality({}) = 0
      BY <2>1, FS_EmptySet DEF Pending, Init
    <2> QED BY <2>2 DEF Init, CountersAddUp, ZeroMetrics
  <1> QED BY <1>1, CountersStep, TypeCorrect, AccountingInvariant, PTL DEF Spec
-----------------------------------------------------------------------------
(* The buffer limit                                                        *)

(* Nothing is buffered while a flush runs: a flush always starts from what *)
(* the select has kept below the limit, plus one message.                  *)
BufferInv ==
    /\ stage # "select" => buf = NoRows
    /\ Cardinality(buf["sensor_raw"]) < MaxRows \/ buf = NoRows
    /\ Cardinality(batch["sensor_raw"]) < MaxRows + MaxKeys

LEMMA BufferStep ==
  ASSUME MaxRows # 0, TypeOK, TypeOK', BufferInv, [Next]_vars
  PROVE  BufferInv'
  <1> USE DEF process, server, history
  <1>0. /\ MaxRows \in Nat /\ MaxKeys \in Nat \ {0} /\ "sensor_raw" \in Table
        /\ NoRows["sensor_raw"] = {} /\ Cardinality({}) = 0
        /\ buf["sensor_raw"] \in SUBSET Row /\ batch["sensor_raw"] \in SUBSET Row
    BY BoundsAssumption, FS_EmptySet DEF Table, NoRows, TypeOK
  <1>1. Cardinality(buf["sensor_raw"]) \in Nat /\ Cardinality(buf["sensor_raw"]) < MaxRows
    <2>1. Cardinality(buf["sensor_raw"]) \in Nat
      BY <1>0, RowsCount
    <2>2. CASE Cardinality(buf["sensor_raw"]) < MaxRows
      BY <2>1, <2>2
    <2>3. CASE buf = NoRows
      <3>1. Cardinality(buf["sensor_raw"]) = 0
        BY <1>0, <2>3
      <3> QED BY <1>0, <3>1
    <2> QED BY <2>2, <2>3 DEF BufferInv
  <1>2. ASSUME buf' = NoRows, batch' = NoRows PROVE BufferInv'
    BY <1>0, <1>2 DEF BufferInv
  <1>3. ASSUME UNCHANGED <<stage, buf, batch>> PROVE BufferInv'
    BY <1>3 DEF BufferInv
  <1>4. ASSUME NEW b, StartFlush(b), Cardinality(b["sensor_raw"]) < MaxRows + MaxKeys
        PROVE  BufferInv'
    BY <1>4 DEF StartFlush, BufferInv
  <1>5. ASSUME NEW m \in Parsed, PublishParsed(m) PROVE BufferInv'
    BY <1>2, <1>3, <1>5 DEF PublishParsed, ProcessEnds
  <1>6. CASE PublishBad \/ SendUnblocked \/ InsertErr \/ SleepRetry \/ Restart
             \/ UNCHANGED vars \/ \E q \in open : ServerCommit(q) \/ ServerDiscard(q)
    BY <1>3, <1>6 DEF PublishBad, SendUnblocked, InsertErr, SleepRetry, Restart, vars,
                      ServerCommit, ServerDiscard
  <1>7. CASE SendClosed \/ Crash \/ BatcherPanic
    BY <1>2, <1>7 DEF SendClosed, Crash, BatcherPanic, ProcessEnds
  <1>8. CASE Recv
    <2> DEFINE m == Head(chan)
               b == Buffered(m)
    <2>1. m \in Parsed
      BY <1>8 DEF Recv, TypeOK
    <2>2. b["sensor_raw"] = buf["sensor_raw"] \/ b["sensor_raw"] = buf["sensor_raw"] \cup m.rows
      BY <1>0 DEF Buffered, TypeOK
    <2>3. /\ m.rows \in SUBSET Row /\ Cardinality(m.rows) \in Nat
          /\ Cardinality(m.rows) <= MaxKeys
      BY <1>0, <2>1, ParsedRows, MessageCount
    <2> HIDE DEF m, b
    <2>4. /\ Cardinality(b["sensor_raw"]) \in Nat
          /\ Cardinality(b["sensor_raw"]) < MaxRows + MaxKeys
      <3>1. CASE b["sensor_raw"] = buf["sensor_raw"]
        BY <1>0, <1>1, <3>1
      <3>2. CASE b["sensor_raw"] = buf["sensor_raw"] \cup m.rows
        <4>1. IsFiniteSet(buf["sensor_raw"]) /\ IsFiniteSet(m.rows)
          BY <1>0, <2>3, RowsCount
        <4>2. Cardinality(buf["sensor_raw"] \cap m.rows) \in Nat
          BY <1>0, RowsCount
        <4>3. Cardinality(b["sensor_raw"])
                = Cardinality(buf["sensor_raw"]) + Cardinality(m.rows)
                    - Cardinality(buf["sensor_raw"] \cap m.rows)
          BY <3>2, <4>1, FS_Union
        <4>4. Cardinality(b["sensor_raw"]) \in Nat
          BY <1>0, <2>3, <3>2, RowsCount
        <4> QED BY <1>0, <1>1, <2>3, <4>2, <4>3, <4>4
      <3> QED BY <2>2, <3>1, <3>2
    <2>5. CASE StartFlush(b)
      BY <1>4, <2>4, <2>5
    <2>6. CASE /\ ~SizeReached(b) /\ buf' = b
               /\ UNCHANGED <<stage, batch>>
      <3>1. Cardinality(b["sensor_raw"]) < MaxRows
        BY <1>0, <2>4, <2>6 DEF SizeReached
      <3> QED BY <1>8, <2>6, <3>1 DEF Recv, BufferInv
    <2> QED BY <1>8, <2>5, <2>6 DEF Recv, m, b
  <1>9. CASE Tick
    <2>1. Cardinality(buf["sensor_raw"]) < MaxRows + MaxKeys
      BY <1>0, <1>1
    <2> QED BY <1>3, <1>4, <1>9, <2>1 DEF Tick
  <1>10. CASE InsertOk \/ SleepDrop
    <2>1. buf' = buf /\ stage \in Table /\ batch' = [batch EXCEPT ![stage] = {}]
      BY <1>10 DEF InsertOk, SleepDrop, Advance
    <2>2. buf = NoRows
      BY <2>1 DEF BufferInv, Table
    <2>3. batch'["sensor_raw"] = batch["sensor_raw"] \/ batch'["sensor_raw"] = {}
      BY <1>0, <2>1 DEF TypeOK
    <2>4. Cardinality(batch'["sensor_raw"]) < MaxRows + MaxKeys
      BY <1>0, <2>3 DEF BufferInv
    <2> QED BY <2>1, <2>2, <2>4 DEF BufferInv
  <1> QED BY <1>5, <1>6, <1>7, <1>8, <1>9, <1>10 DEF Next

(* BATCH_MAX_ROWS bounds the sensor rows (main.rs:246): fewer than that    *)
(* wait, and a flush carries less than one message more.  A limit of 0,    *)
(* which main.rs:107 accepts, flushes every message at once.           *)
THEOREM SensorBufferBoundedHolds ==
  ASSUME MaxRows # 0
  PROVE  Spec => []SensorBufferBounded
  <1>1. Init => BufferInv
    <2>1. /\ NoRows["sensor_raw"] = {} /\ Cardinality({}) = 0
          /\ MaxRows \in Nat /\ MaxKeys \in Nat \ {0}
      BY BoundsAssumption, FS_EmptySet DEF NoRows, Table
    <2> SUFFICES ASSUME Init PROVE BufferInv
      OBVIOUS
    <2>2. stage = "select" /\ buf = NoRows /\ batch["sensor_raw"] = {}
      BY <2>1 DEF Init
    <2>3. Cardinality(batch["sensor_raw"]) < MaxRows + MaxKeys
      BY <2>1, <2>2
    <2> QED BY <2>2, <2>3 DEF BufferInv
  <1>2. TypeOK /\ TypeOK' /\ BufferInv /\ [Next]_vars => BufferInv'
    BY BufferStep
  <1>3. BufferInv => SensorBufferBounded
    BY DEF BufferInv, SensorBufferBounded
  <1> QED BY <1>1, <1>2, <1>3, TypeCorrect, PTL DEF Spec
=============================================================================
