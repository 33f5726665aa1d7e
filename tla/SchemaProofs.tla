---------------------------- MODULE SchemaProofs ----------------------------
(***************************************************************************)
(* Theorems of Schema, for any number of retries, restarts and faults.     *)
(***************************************************************************)
EXTENDS Schema, TLAPS

-----------------------------------------------------------------------------
(* The script                                                              *)

LEMMA ScriptLines ==
  /\ Len(Script) = 9
  /\ Script[1] = Statement("CREATE", "sensor_raw")
  /\ Script[2] = Statement("CREATE", "sensor_1m")
  /\ Script[3] = Statement("CREATE", "sensor_1d")
  /\ Script[4] = Statement("CREATE", "as7341_raw")
  /\ Script[5] = Statement("CREATE", "device_status")
  /\ Script[6] = Statement("ALTER", "sensor_raw")
  /\ Script[7] = Statement("ALTER", "as7341_raw")
  /\ Script[8] = Statement("ALTER", "device_status")
  /\ Script[9] = Statement("ALTER", "sensor_1m")
  BY DEF Script, File, Inner

LEMMA Statements ==
  ASSUME NEW i \in 1 .. 9
  PROVE  /\ Script[i].op \in {"CREATE", "ALTER"} /\ Script[i].table \in Tables
         /\ Script[i].op = "ALTER" => Script[i].table # "sensor_1d"
         /\ Script[i] = Inner => i = 9 /\ Script[i].table = "sensor_1m"
  <1>1. \/ i = 1 \/ i = 2 \/ i = 3 \/ i = 4 \/ i = 5 \/ i = 6 \/ i = 7 \/ i = 8 \/ i = 9
    OBVIOUS
  <1> QED BY <1>1, ScriptLines DEF Inner, Statement, Tables, Sensor, Views

(* What a statement leaves behind.                                         *)
Effective(s) == IF s.op = "CREATE" THEN Exists(s.table) ELSE tables[s.table] = "new"

Tabled == tables \in [Tables -> {"none", "old", "new"}]

(* A statement does its work, and undoes none of another's; the last one   *)
(* finds the inner table that the second has made.                         *)
LEMMA ExecutedOnce ==
  ASSUME Tabled, NEW i \in 1 .. 9, tables' = Executed(Script[i]),
         i = 9 => Exists("sensor_1m")
  PROVE  /\ Tabled' /\ Effective(Script[i])'
         /\ \A t \in Tables : /\ tables[t] # "none" => tables'[t] # "none"
                              /\ tables[t] = "new" => tables'[t] = "new"
                              /\ t # Script[i].table => tables'[t] = tables[t]
         /\ tables["sensor_1d"] # "old" => tables'["sensor_1d"] # "old"
  <1>1. /\ Script[i].op \in {"CREATE", "ALTER"} /\ Script[i].table \in Tables
        /\ Script[i].op = "ALTER" => Script[i].table # "sensor_1d"
    BY Statements
  <1>2. "sensor_1d" \in Tables
    BY DEF Tables, Sensor, Views
  <1>3. CASE Script[i].op = "CREATE" /\ Exists(Script[i].table)
    BY <1>1, <1>2, <1>3 DEF Executed, Exists, Effective, Tabled
  <1>4. CASE ~(Script[i].op = "CREATE" /\ Exists(Script[i].table))
    <2>1. ~(Script[i] = Inner /\ ~Exists(Script[i].table))
      BY Statements
    <2>2. tables' = [tables EXCEPT ![Script[i].table] = "new"]
      BY <1>4, <2>1 DEF Executed
    <2> QED BY <1>1, <1>2, <2>2 DEF Exists, Effective, Tabled
  <1> QED BY <1>3, <1>4

-----------------------------------------------------------------------------
(* The invariant                                                           *)

(* Bounds that the guards keep.                                            *)
Bounds ==
    /\ job = "running" => failures < BackoffLimit
    /\ job # "running" => step = 0
    /\ state = "due" => attempts < InsertRetries
    /\ state = "sent" => attempts > 0

(* Every statement before the next one has done its work, in spite of      *)
(* restarts; and all of them when the job is complete.                     *)
DoneSoFar ==
    /\ tables["sensor_1d"] # "old"
    /\ \A i \in 1 .. 9 : i < step \/ job = "complete" => Effective(Script[i])
    /\ applied => \A t \in Sensor : Exists(t)

(* Each attempt reaches a table at most once, and one made after a job     *)
(* reaches all of them when it succeeds.                                   *)
Attempts ==
    /\ planned => applied
    /\ planned /\ state = "sent" => feeds = Sensor
    /\ \A t \in Sensor : /\ copies[t] <= attempts
                         /\ state = "sent" => copies[t] < attempts
                         /\ state = "stored" /\ planned => copies[t] >= 1

IInv == TypeOK /\ Bounds /\ DoneSoFar /\ Attempts

LEMMA Constants ==
  InsertRetries \in Nat \ {0} /\ BackoffLimit \in Nat \ {0} /\ MaxFaults \in Nat
  BY SchemaAssumption

LEMMA SensorTables == Sensor \subseteq Tables /\ "sensor_1d" \in Tables
  BY DEF Sensor, Tables, Views

LEMMA InitInv == Init => IInv
  <1> SUFFICES ASSUME Init PROVE IInv
    OBVIOUS
  <1> USE Constants
  <1>1. tables \in [Tables -> {"none", "old", "new"}] /\ tables["sensor_1d"] # "old"
    BY SensorTables DEF Init
  <1>2. TypeOK
    <2>1. copies \in [Sensor -> 0 .. InsertRetries] /\ step \in 0 .. Len(Script)
      BY ScriptLines DEF Init
    <2>2. failures \in 0 .. BackoffLimit /\ faults \in 0 .. MaxFaults
          /\ attempts \in 0 .. InsertRetries
      BY DEF Init
    <2> QED BY <1>1, <2>1, <2>2 DEF Init, TypeOK
  <1>3. Bounds
    BY DEF Init, Bounds
  <1>4. DoneSoFar
    BY <1>1 DEF Init, DoneSoFar
  <1>5. Attempts
    BY DEF Init, Attempts
  <1> QED BY <1>2, <1>3, <1>4, <1>5 DEF IInv

-----------------------------------------------------------------------------
(* An insert that fails, by itself or with the server                      *)

LEMMA InsertFailsKeeps ==
  ASSUME IInv, state = "sent", InsertFails,
         feeds' = feeds, attempts' = attempts, planned' = planned, applied' = applied
  PROVE  /\ state' \in {"due", "dropped"} /\ copies' \in [Sensor -> 0 .. InsertRetries]
         /\ state' = "due" => attempts' < InsertRetries
         /\ Attempts'
  <1> USE Constants
  <1>1. PICK targets \in SUBSET feeds : Reaches(targets)
    BY DEF InsertFails
  <1>2. /\ copies \in [Sensor -> 0 .. InsertRetries] /\ attempts \in 0 .. InsertRetries
        /\ \A t \in Sensor : copies[t] < attempts
    BY DEF IInv, TypeOK, Attempts
  <1>3. \A t \in Sensor : copies'[t] \in 0 .. InsertRetries /\ copies'[t] <= attempts
    BY <1>1, <1>2 DEF Reaches
  <1>4. copies' \in [Sensor -> 0 .. InsertRetries]
    BY <1>1, <1>2, <1>3 DEF Reaches
  <1>5. state' = IF attempts < InsertRetries THEN "due" ELSE "dropped"
    BY DEF InsertFails, AfterError
  <1>6. planned => applied
    BY DEF IInv, Attempts
  <1> QED BY <1>3, <1>4, <1>5, <1>6 DEF Attempts

(* The insert in progress when the server dies fails, others are as they   *)
(* were.                                                                   *)
LEMMA ServerDiesKeeps ==
  ASSUME IInv, ServerDies,
         feeds' = feeds, attempts' = attempts, planned' = planned, applied' = applied
  PROVE  /\ state' \in {"due", "sent", "stored", "dropped"}
         /\ copies' \in [Sensor -> 0 .. InsertRetries]
         /\ state' = "due" => attempts' < InsertRetries
         /\ state' = "sent" => attempts' > 0
         /\ Attempts'
  <1>1. CASE state = "sent"
    <2>1. InsertFails
      BY <1>1 DEF ServerDies
    <2> QED BY <1>1, <2>1, InsertFailsKeeps
  <1>2. CASE state # "sent"
    <2>1. state' = state /\ copies' = copies
      BY <1>2 DEF ServerDies
    <2> QED BY <2>1 DEF IInv, TypeOK, Bounds, Attempts
  <1> QED BY <1>1, <1>2

-----------------------------------------------------------------------------
(* The steps of the job                                                    *)

(* The second statement has made the table whose inner table the ninth     *)
(* looks for.                                                              *)
LEMMA InnerFound == IInv /\ step = 9 => Exists("sensor_1m")
  <1> SUFFICES ASSUME IInv, step = 9 PROVE Exists("sensor_1m")
    OBVIOUS
  <1>1. Effective(Script[2])
    BY DEF IInv, DoneSoFar
  <1> QED BY <1>1, ScriptLines DEF Effective, Statement

LEMMA ExecuteInv == IInv /\ ExecuteStatement => IInv'
  <1> SUFFICES ASSUME IInv, ExecuteStatement PROVE IInv'
    OBVIOUS
  <1> USE Constants
  <1>0. step \in 1 .. 9
    BY ScriptLines DEF ExecuteStatement, Executing, IInv, TypeOK
  <1> PICK k \in 1 .. 9 : step = k
    BY <1>0
  <1>1. job = "running" /\ Tabled /\ tables' = Executed(Script[k])
    BY DEF ExecuteStatement, Executing, IInv, TypeOK, Tabled
  <1>2. /\ step' = IF k < 9 THEN k + 1 ELSE 0
        /\ job' = IF k < 9 THEN job ELSE "complete"
        /\ applied' = (applied \/ k = 9)
        /\ UNCHANGED <<up, failures, faults, inserts>>
    BY ScriptLines DEF ExecuteStatement
  <1>3. /\ Tabled' /\ Effective(Script[k])'
        /\ \A t \in Tables : /\ tables[t] # "none" => tables'[t] # "none"
                             /\ tables[t] = "new" => tables'[t] = "new"
        /\ tables["sensor_1d"] # "old" => tables'["sensor_1d"] # "old"
    BY <1>1, InnerFound, ExecutedOnce
  <1>4. \A i \in 1 .. 9 : i < k => Effective(Script[i])'
    <2> SUFFICES ASSUME NEW i \in 1 .. 9, i < k PROVE Effective(Script[i])'
      OBVIOUS
    <2>1. Effective(Script[i]) /\ Script[i].table \in Tables
      BY Statements DEF IInv, DoneSoFar
    <2> QED BY <2>1, <1>3 DEF Effective, Exists
  <1>5. \A i \in 1 .. 9 : i < step' \/ job' = "complete" => Effective(Script[i])'
    <2> SUFFICES ASSUME NEW i \in 1 .. 9, i < step' \/ job' = "complete"
                 PROVE  Effective(Script[i])'
      OBVIOUS
    <2>1. i < k \/ i = k
      BY <1>1, <1>2
    <2> QED BY <2>1, <1>3, <1>4
  <1>6. applied' => \A t \in Sensor : Exists(t)'
    <2>1. CASE applied
      BY <2>1, <1>3, SensorTables DEF IInv, DoneSoFar, Exists
    <2>2. CASE k = 9
      <3>1. \A i \in 1 .. 3 : Effective(Script[i])'
        BY <2>2, <1>4
      <3>2. Exists("sensor_raw")' /\ Exists("sensor_1m")' /\ Exists("sensor_1d")'
        BY <3>1, ScriptLines DEF Effective, Statement
      <3> QED BY <3>2 DEF Sensor, Views
    <2> QED BY <2>1, <2>2, <1>2
  <1>7. DoneSoFar'
    BY <1>3, <1>5, <1>6 DEF DoneSoFar, IInv
  <1>8. applied' \in BOOLEAN /\ (applied => applied')
    BY <1>2 DEF IInv, TypeOK
  <1>9. TypeOK'
    BY <1>1, <1>2, <1>3, <1>8, ScriptLines DEF IInv, TypeOK, Tabled, inserts
  <1>10. Bounds'
    BY <1>1, <1>2 DEF IInv, Bounds, inserts
  <1>11. Attempts'
    BY <1>2, <1>8 DEF IInv, Attempts, inserts
  <1> QED BY <1>7, <1>9, <1>10, <1>11 DEF IInv

(* The script begins again, whatever the failed statement has done.        *)
LEMMA ContainerFailsKeeps ==
  ASSUME IInv, Executing, ContainerFails, applied' = applied,
         tables' = tables \/ tables' = Executed(Script[step])
  PROVE  /\ Tabled' /\ DoneSoFar'
         /\ job' \in {"running", "complete", "failed"} /\ step' = 0
         /\ failures' \in 0 .. BackoffLimit
         /\ job' = "running" => failures' < BackoffLimit
  <1> USE Constants
  <1>0. step \in 1 .. 9
    BY ScriptLines DEF Executing, IInv, TypeOK
  <1> PICK k \in 1 .. 9 : step = k
    BY <1>0
  <1>1. /\ job = "running" /\ Tabled
        /\ failures \in 0 .. BackoffLimit /\ failures < BackoffLimit
        /\ tables["sensor_1d"] # "old"
    BY ScriptLines DEF Executing, IInv, TypeOK, Tabled, Bounds, DoneSoFar
  <1>2. /\ step' = 0 /\ failures' = failures + 1
        /\ job' = IF failures + 1 < BackoffLimit THEN "running" ELSE "failed"
    BY <1>1 DEF ContainerFails, NextStep, Restarted
  <1>3. Tabled' /\ tables'["sensor_1d"] # "old"
        /\ \A t \in Tables : tables[t] # "none" => tables'[t] # "none"
    <2>1. CASE tables' = tables
      BY <1>1, <2>1 DEF Tabled
    <2>2. CASE tables' = Executed(Script[k])
      BY <1>1, <2>2, InnerFound, ExecutedOnce
    <2> QED BY <2>1, <2>2
  <1>4. applied' => \A t \in Sensor : Exists(t)'
    BY <1>3, SensorTables DEF IInv, DoneSoFar, Exists
  <1>5. \A i \in 1 .. 9 : ~(i < step' \/ job' = "complete")
    BY <1>2
  <1> QED BY <1>1, <1>2, <1>3, <1>4, <1>5 DEF DoneSoFar

LEMMA CutOffInv == IInv /\ StatementCutOff => IInv'
  <1> SUFFICES ASSUME IInv, StatementCutOff PROVE IInv'
    OBVIOUS
  <1> USE Constants
  <1>1. /\ Executing /\ ContainerFails /\ faults < MaxFaults /\ faults' = faults + 1
        /\ applied' = applied /\ feeds' = feeds /\ attempts' = attempts
        /\ planned' = planned
        /\ tables' = tables \/ tables' = Executed(Script[step])
    BY DEF StatementCutOff
  <1>2. /\ Tabled' /\ DoneSoFar'
        /\ job' \in {"running", "complete", "failed"} /\ step' = 0
        /\ failures' \in 0 .. BackoffLimit
        /\ job' = "running" => failures' < BackoffLimit
    BY <1>1, ContainerFailsKeeps
  <1>3. /\ state' \in {"due", "sent", "stored", "dropped"}
        /\ copies' \in [Sensor -> 0 .. InsertRetries]
        /\ state' = "due" => attempts' < InsertRetries
        /\ state' = "sent" => attempts' > 0
        /\ Attempts' /\ up' \in BOOLEAN
    <2>1. CASE ServerDies
      <3>1. up' \in BOOLEAN
        BY <2>1 DEF ServerDies
      <3> QED BY <2>1, <3>1, <1>1, ServerDiesKeeps
    <2>2. CASE UNCHANGED <<up, state, copies>>
      BY <2>2, <1>1 DEF IInv, TypeOK, Bounds, Attempts
    <2> QED BY <2>1, <2>2 DEF StatementCutOff
  <1>4. TypeOK'
    BY <1>1, <1>2, <1>3, ScriptLines DEF IInv, TypeOK, Tabled
  <1>5. Bounds'
    BY <1>2, <1>3 DEF Bounds
  <1> QED BY <1>2, <1>3, <1>4, <1>5 DEF IInv

LEMMA StatementFailsInv == IInv /\ StatementFails => IInv'
  <1> SUFFICES ASSUME IInv, StatementFails PROVE IInv'
    OBVIOUS
  <1> USE Constants
  <1>1. Executing /\ ContainerFails /\ UNCHANGED <<up, tables, applied, faults, inserts>>
    BY DEF StatementFails
  <1>2. /\ Tabled' /\ DoneSoFar'
        /\ job' \in {"running", "complete", "failed"} /\ step' = 0
        /\ failures' \in 0 .. BackoffLimit
        /\ job' = "running" => failures' < BackoffLimit
    BY <1>1, ContainerFailsKeeps
  <1>3. TypeOK' /\ Bounds' /\ Attempts'
    BY <1>1, <1>2, ScriptLines DEF IInv, TypeOK, Tabled, Bounds, Attempts, inserts
  <1> QED BY <1>2, <1>3 DEF IInv

LEMMA RedeployInv == IInv /\ Redeploy => IInv'
  <1> SUFFICES ASSUME IInv, Redeploy PROVE IInv'
    OBVIOUS
  <1> USE Constants
  <1>1. /\ job' = "running" /\ failures' = 0 /\ step' = 0
        /\ UNCHANGED <<up, applied, faults, inserts>>
    BY DEF Redeploy
  <1>2. /\ Tabled' /\ tables'["sensor_1d"] # "old"
        /\ \A t \in Tables : tables[t] # "none" => tables'[t] # "none"
    BY SensorTables DEF Redeploy, Tabled, IInv, TypeOK, DoneSoFar
  <1>3. DoneSoFar'
    <2>1. \A i \in 1 .. 9 : ~(i < step' \/ job' = "complete")
      BY <1>1
    <2>2. applied' => \A t \in Sensor : Exists(t)'
      BY <1>1, <1>2, SensorTables DEF IInv, DoneSoFar, Exists
    <2> QED BY <1>2, <2>1, <2>2 DEF DoneSoFar
  <1>4. TypeOK' /\ Bounds' /\ Attempts'
    BY <1>1, <1>2, ScriptLines DEF IInv, TypeOK, Tabled, Bounds, Attempts, inserts
  <1> QED BY <1>3, <1>4 DEF IInv

(* The server and the waiting job.                                         *)
LEMMA ServerInv == IInv /\ (ServerAnswers \/ ServerCrash \/ ServerStart) => IInv'
  <1> SUFFICES ASSUME IInv, ServerAnswers \/ ServerCrash \/ ServerStart PROVE IInv'
    OBVIOUS
  <1> USE Constants
  <1>1. CASE ServerAnswers
    <2>1. /\ job = "running" /\ step' = 1
          /\ UNCHANGED <<up, tables, job, failures, applied, faults, inserts>>
      BY <1>1 DEF ServerAnswers
    <2>2. DoneSoFar'
      BY <2>1 DEF IInv, DoneSoFar, Effective, Exists
    <2>3. TypeOK' /\ Bounds' /\ Attempts'
      BY <2>1, ScriptLines DEF IInv, TypeOK, Bounds, Attempts, inserts
    <2> QED BY <2>2, <2>3 DEF IInv
  <1>2. CASE ServerCrash
    <2>1. /\ ServerDies /\ faults < MaxFaults /\ faults' = faults + 1
          /\ UNCHANGED <<tables, job, step, failures, applied, feeds, attempts, planned>>
          /\ up' = FALSE
      BY <1>2 DEF ServerCrash, ServerDies
    <2>2. /\ state' \in {"due", "sent", "stored", "dropped"}
          /\ copies' \in [Sensor -> 0 .. InsertRetries]
          /\ state' = "due" => attempts' < InsertRetries
          /\ state' = "sent" => attempts' > 0
          /\ Attempts'
      BY <2>1, ServerDiesKeeps
    <2>3. DoneSoFar'
      BY <2>1 DEF IInv, DoneSoFar, Effective, Exists
    <2>4. faults' \in 0 .. MaxFaults /\ up' \in BOOLEAN
      <3>1. faults \in 0 .. MaxFaults
        BY DEF IInv, TypeOK
      <3>2. faults' \in 0 .. MaxFaults
        BY <2>1, <3>1
      <3>3. up' \in BOOLEAN
        BY <2>1
      <3> QED BY <3>2, <3>3
    <2>5. TypeOK'
      BY <2>1, <2>2, <2>4 DEF IInv, TypeOK
    <2>6. Bounds'
      BY <2>1, <2>2 DEF IInv, Bounds
    <2> QED BY <2>2, <2>3, <2>5, <2>6 DEF IInv
  <1>3. CASE ServerStart
    <2>1. up' = TRUE
          /\ UNCHANGED <<tables, job, step, failures, applied, faults, inserts>>
      BY <1>3 DEF ServerStart
    <2>2. DoneSoFar'
      BY <2>1 DEF IInv, DoneSoFar, Effective, Exists
    <2>3. TypeOK' /\ Bounds' /\ Attempts'
      BY <2>1 DEF IInv, TypeOK, Bounds, Attempts, inserts
    <2> QED BY <2>2, <2>3 DEF IInv
  <1> QED BY <1>1, <1>2, <1>3

-----------------------------------------------------------------------------
(* The steps of an insert                                                  *)

LEMMA InsertInv == IInv /\ (Begin \/ Finish \/ Fail \/ Refused) => IInv'
  <1> SUFFICES ASSUME IInv, Begin \/ Finish \/ Fail \/ Refused PROVE IInv'
    OBVIOUS
  <1> USE Constants
  <1>1. UNCHANGED schema
    BY DEF Begin, Finish, Fail, Refused
  <1>2. DoneSoFar'
    BY <1>1 DEF IInv, DoneSoFar, Effective, Exists, schema
  <1>3. /\ copies \in [Sensor -> 0 .. InsertRetries] /\ attempts \in 0 .. InsertRetries
        /\ applied \in BOOLEAN /\ planned \in BOOLEAN
        /\ \A t \in Sensor : copies[t] <= attempts
    BY DEF IInv, TypeOK, Attempts
  <1>4. (Begin \/ Refused) =>
          /\ attempts' = attempts + 1 /\ attempts' \in 1 .. InsertRetries
          /\ planned' \in BOOLEAN /\ (planned' => applied) /\ copies' = copies
    <2> SUFFICES ASSUME Begin \/ Refused
                 PROVE  /\ attempts' = attempts + 1 /\ attempts' \in 1 .. InsertRetries
                        /\ planned' \in BOOLEAN /\ (planned' => applied)
                        /\ copies' = copies
      OBVIOUS
    <2>1. Attempt /\ copies' = copies
      BY DEF Begin, Refused
    <2>2. state = "due" /\ attempts' = attempts + 1
          /\ planned' = (IF attempts = 0 THEN applied ELSE planned)
      BY <2>1 DEF Attempt
    <2>3. attempts < InsertRetries /\ (planned => applied)
      BY <2>2 DEF IInv, Bounds, Attempts
    <2> QED BY <2>1, <2>2, <2>3, <1>3
  <1>5. CASE Begin
    <2>1. state' = "sent" /\ feeds' = {t \in Sensor : Exists(t)}
      BY <1>5 DEF Begin
    <2>2. applied => feeds' = Sensor
      BY <2>1 DEF IInv, DoneSoFar
    <2>3. Attempts'
      BY <1>1, <1>3, <1>4, <1>5, <2>1, <2>2 DEF Attempts, schema
    <2>4. TypeOK' /\ Bounds'
      BY <1>1, <1>3, <1>4, <1>5, <2>1 DEF IInv, TypeOK, Bounds, schema
    <2> QED BY <1>2, <2>3, <2>4 DEF IInv
  <1>6. CASE Refused
    <2>1. state' = (IF attempts' < InsertRetries THEN "due" ELSE "dropped")
          /\ feeds' = feeds
      BY <1>6 DEF Refused, AfterError
    <2>2. Attempts'
      BY <1>1, <1>3, <1>4, <1>6, <2>1 DEF Attempts, schema
    <2>3. TypeOK' /\ Bounds'
      BY <1>1, <1>3, <1>4, <1>6, <2>1 DEF IInv, TypeOK, Bounds, schema
    <2> QED BY <1>2, <2>2, <2>3 DEF IInv
  <1>7. CASE Finish
    <2>1. /\ state = "sent" /\ state' = "stored" /\ Reaches(feeds)
          /\ feeds' = feeds /\ attempts' = attempts /\ planned' = planned
      BY <1>7 DEF Finish
    <2>2. /\ \A t \in Sensor : copies[t] < attempts
          /\ planned => feeds = Sensor /\ applied
      BY <2>1 DEF IInv, Attempts
    <2>3. \A t \in Sensor : /\ copies'[t] \in 0 .. InsertRetries /\ copies'[t] <= attempts
                            /\ planned => copies'[t] >= 1
      BY <2>1, <2>2, <1>3 DEF Reaches
    <2>4. copies' \in [Sensor -> 0 .. InsertRetries]
      BY <2>1, <2>3 DEF Reaches
    <2>5. Attempts'
      BY <1>1, <2>1, <2>2, <2>3 DEF Attempts, schema
    <2>6. TypeOK' /\ Bounds'
      BY <1>1, <2>1, <2>4 DEF IInv, TypeOK, Bounds, schema
    <2> QED BY <1>2, <2>5, <2>6 DEF IInv
  <1>8. CASE Fail
    <2>1. /\ state = "sent" /\ InsertFails /\ applied' = applied
          /\ feeds' = feeds /\ attempts' = attempts /\ planned' = planned
      BY <1>8, <1>1 DEF Fail, schema
    <2>2. /\ state' \in {"due", "dropped"} /\ copies' \in [Sensor -> 0 .. InsertRetries]
          /\ state' = "due" => attempts' < InsertRetries
          /\ Attempts'
      BY <2>1, InsertFailsKeeps
    <2>3. TypeOK' /\ Bounds'
      BY <1>1, <2>1, <2>2 DEF IInv, TypeOK, Bounds, schema
    <2> QED BY <1>2, <2>2, <2>3 DEF IInv
  <1> QED BY <1>5, <1>6, <1>7, <1>8

LEMMA StepInv == IInv /\ [Next]_vars => IInv'
  <1>1. IInv /\ UNCHANGED vars => IInv'
    BY DEF IInv, TypeOK, Bounds, DoneSoFar, Attempts, Effective, Exists,
           vars, schema, inserts
  <1> QED BY <1>1, ExecuteInv, CutOffInv, StatementFailsInv, RedeployInv, ServerInv,
             InsertInv DEF Next, JobStep

-----------------------------------------------------------------------------
(* Theorems                                                                *)

LEMMA InvHolds == Spec => []IInv
  BY InitInv, StepInv, PTL DEF Spec

(* Every reachable state is well typed; in particular no container is      *)
(* started beyond backoffLimit and no insert beyond INSERT_RETRIES.        *)
THEOREM SchemaTypeCorrect == Spec => []TypeOK
  <1>1. IInv => TypeOK
    BY DEF IInv
  <1> QED BY <1>1, InvHolds, PTL

(* A complete job means that the tables are those of the file, from any    *)
(* earlier state and however often the script was cut off.                 *)
THEOREM CompleteMeansAppliedHolds == Spec => []CompleteMeansApplied
  <1>1. IInv => CompleteMeansApplied
    <2> SUFFICES ASSUME IInv, job = "complete" PROVE \A t \in Tables : tables[t] = "new"
      BY DEF CompleteMeansApplied
    <2>1. \A i \in 1 .. 9 : Effective(Script[i])
      BY DEF IInv, DoneSoFar
    <2>2. /\ tables["sensor_raw"] = "new" /\ tables["as7341_raw"] = "new"
          /\ tables["device_status"] = "new" /\ tables["sensor_1m"] = "new"
      BY <2>1, ScriptLines DEF Effective, Statement
    <2>3. tables["sensor_1d"] # "none"
      BY <2>1, ScriptLines DEF Effective, Statement, Exists
    <2>4. tables["sensor_1d"] = "new"
      BY <2>3, SensorTables DEF IInv, TypeOK, DoneSoFar
    <2> QED BY <2>2, <2>4 DEF Tables, Sensor, Views
  <1> QED BY <1>1, InvHolds, PTL

(* A block acknowledged after a job was complete is in the raw table and   *)
(* in both aggregates, at most once for each attempt.                      *)
THEOREM AggregatedAfterJobHolds == Spec => []AggregatedAfterJob
  <1>1. IInv => AggregatedAfterJob
    <2> SUFFICES ASSUME IInv, state = "stored", planned, NEW t \in Sensor
                 PROVE  copies[t] \in 1 .. attempts
      BY DEF AggregatedAfterJob
    <2>1. copies[t] >= 1 /\ copies[t] <= attempts
      BY DEF IInv, Attempts
    <2>2. copies[t] \in Int /\ attempts \in Int
      BY DEF IInv, TypeOK
    <2> QED BY <2>1, <2>2
  <1> QED BY <1>1, InvHolds, PTL
=============================================================================
