------------------------------- MODULE Schema -------------------------------
(***************************************************************************)
(* The tables of apps/clickhouse/schema/01_schema.sql: how the schema job  *)
(* creates them and brings the TTLs of older ones up to date, and how a    *)
(* block inserted into sensor_raw meanwhile reaches sensor_1m and          *)
(* sensor_1d.                                                              *)
(*                                                                         *)
(* The job runs a shell script with -e, so the first statement that fails  *)
(* ends its container, and Kubernetes starts the script again from the     *)
(* beginning, until backoffLimit containers have failed.  A table stands   *)
(* for its TTL: that of the present file, or of an older one.  The server  *)
(* and the materialized views are outside src/: an insert feeds the views  *)
(* that exist when it begins, and one that fails may have reached any of   *)
(* its targets.  One block stands for all: blocks are inserted one after   *)
(* the other and share nothing but the tables.                             *)
(***************************************************************************)
EXTENDS Integers, Sequences

CONSTANTS
    InsertRetries,  \* attempts of the ingester
    BackoffLimit,   \* failed containers that make the job fail
    MaxFaults       \* bound: crashes of the server and of the job's container

ASSUME SchemaAssumption ==
    /\ InsertRetries \in Nat \ {0} /\ BackoffLimit \in Nat \ {0}
    /\ MaxFaults \in Nat

VARIABLES
    up,         \* the server answers
    tables,     \* TTL of each table: "none" without the table, "old" or "new"
    job,        \* "running", "complete" or "failed"
    step,       \* 0 while waiting for the server, then the next statement
    failures,   \* containers of the job that have failed
    applied,    \* history: the present job or an earlier one was complete
    faults,     \* crashes so far
    state,      \* of the block: "due", "sent", "stored" or "dropped"
    feeds,      \* the tables its present insert feeds
    attempts,   \* its inserts begun or refused
    copies,     \* of each sensor table: how often it holds the block
    planned     \* history: the first insert came after a complete job

schema == <<up, tables, job, step, failures, applied, faults>>
inserts == <<state, feeds, attempts, copies, planned>>
vars == <<schema, inserts>>

Views  == {"sensor_1m", "sensor_1d"}
Sensor == {"sensor_raw"} \cup Views
Tables == Sensor \cup {"as7341_raw", "device_status"}

Statement(op, t) == [op |-> op, table |-> t]

(* The statements of 01_schema.sql in their order.  sensor_1d has no TTL.  *)
File == <<
    Statement("CREATE", "sensor_raw"), Statement("CREATE", "sensor_1m"),
    Statement("CREATE", "sensor_1d"),  Statement("CREATE", "as7341_raw"),
    Statement("CREATE", "device_status"),
    Statement("ALTER", "sensor_raw"),  Statement("ALTER", "as7341_raw"),
    Statement("ALTER", "device_status") >>

(* The script runs the file, then looks for the inner table of sensor_1m   *)
(* and alters it.                                                          *)
Inner == Statement("ALTER", "sensor_1m")
Script == Append(File, Inner)

Exists(t) == tables[t] # "none"

Executed_NoAlter(s) ==   \* mutant: IF NOT EXISTS alone
    IF Exists(s.table) THEN tables ELSE [tables EXCEPT ![s.table] = "new"]

(* CREATE .. IF NOT EXISTS, ALTER .. MODIFY TTL, and the ALTER that the    *)
(* script leaves out without an inner table.                               *)
Executed(s) ==
    IF \/ s.op = "CREATE" /\ Exists(s.table)
       \/ s = Inner /\ ~Exists(s.table)
    THEN tables ELSE [tables EXCEPT ![s.table] = "new"]

(* Any tables an older file may have left, none of them to begin with.     *)
Init ==
    /\ up \in BOOLEAN
    /\ \E present \in SUBSET Tables :
        /\ present \cap Views # {} => "sensor_raw" \in present
        /\ tables = [t \in Tables |->
               IF t \notin present THEN "none"
               ELSE IF t = "sensor_1d" THEN "new" ELSE "old"]
    /\ job = "running" /\ step = 0 /\ failures = 0 /\ applied = FALSE
    /\ faults = 0
    /\ state = "due" /\ feeds = {} /\ attempts = 0
    /\ copies = [t \in Sensor |-> 0] /\ planned = FALSE

Reaches(targets) ==
    copies' = [t \in Sensor |-> IF t \in targets THEN copies[t] + 1 ELSE copies[t]]

AfterError_Forever(n) == "due"   \* mutant: retried without a limit

AfterError(n) == IF n < InsertRetries THEN "due" ELSE "dropped"

InsertFails ==
    /\ state' = AfterError(attempts)
    /\ \E targets \in SUBSET feeds : Reaches(targets)

(* The server dies, and with it an insert in progress.                     *)
ServerDies ==
    /\ up' = FALSE
    /\ IF state = "sent" THEN InsertFails ELSE UNCHANGED <<state, copies>>

-----------------------------------------------------------------------------
(* The job                                                                 *)

Executing == job = "running" /\ step > 0

(* until ch --query "SELECT 1".                                            *)
ServerAnswers ==
    /\ job = "running" /\ step = 0 /\ up
    /\ step' = 1
    /\ UNCHANGED <<up, tables, job, failures, applied, faults, inserts>>

ExecuteStatement ==
    /\ Executing /\ up
    /\ tables' = Executed(Script[step])
    /\ step' = IF step < Len(Script) THEN step + 1 ELSE 0
    /\ job' = IF step < Len(Script) THEN job ELSE "complete"
    /\ applied' = (applied \/ step = Len(Script))
    /\ UNCHANGED <<up, failures, faults, inserts>>

Restarted_Never == FALSE   \* mutant: restartPolicy: Never

(* restartPolicy: OnFailure: the job fails when its restarts reach         *)
(* backoffLimit.                                                           *)
Restarted == failures + 1 < BackoffLimit

NextStep_Ignored ==   \* mutant: bash -c instead of bash -ec
    IF step < Len(Script) THEN step + 1 ELSE step

(* The script begins again.                                                *)
NextStep == 0

ContainerFails ==
    /\ step' = NextStep
    /\ failures' = failures + 1
    /\ job' = IF Restarted THEN job ELSE "failed"

(* The server is away.                                                     *)
StatementFails ==
    /\ Executing /\ ~up
    /\ ContainerFails
    /\ UNCHANGED <<up, tables, applied, faults, inserts>>

(* The container or the server dies during a statement, which may have     *)
(* been executed.                                                          *)
StatementCutOff ==
    /\ Executing /\ up /\ faults < MaxFaults
    /\ ServerDies \/ UNCHANGED <<up, state, copies>>
    /\ tables' \in {tables, Executed(Script[step])}
    /\ faults' = faults + 1
    /\ ContainerFails
    /\ UNCHANGED <<applied, feeds, attempts, planned>>

ServerCrash ==
    /\ up /\ faults < MaxFaults
    /\ ServerDies
    /\ faults' = faults + 1
    /\ UNCHANGED <<tables, job, step, failures, applied, feeds, attempts, planned>>

ServerStart ==
    /\ ~up
    /\ up' = TRUE
    /\ UNCHANGED <<tables, job, step, failures, applied, faults, inserts>>

(* kubectl delete job, flux reconcile, with or without new TTLs in the     *)
(* files: the header of schema-job.yaml.                                   *)
Redeploy ==
    /\ job # "running"
    /\ job' = "running" /\ failures' = 0
    /\ step' = 0
    /\ tables' \in {tables, [t \in Tables |->
           IF tables[t] = "new" /\ t # "sensor_1d" THEN "old" ELSE tables[t]]}
    /\ UNCHANGED <<up, applied, faults, inserts>>

-----------------------------------------------------------------------------
(* The ingester's inserts into sensor_raw                                  *)

Attempt ==
    /\ state = "due"
    /\ attempts' = attempts + 1
    /\ planned' = IF attempts = 0 THEN applied ELSE planned

(* The INSERT finds the table and the views of that moment.                *)
Begin ==
    /\ up /\ Exists("sensor_raw")
    /\ Attempt
    /\ state' = "sent"
    /\ feeds' = {t \in Sensor : Exists(t)}
    /\ UNCHANGED <<schema, copies>>

Finish ==
    /\ state = "sent"
    /\ state' = "stored"
    /\ Reaches(feeds)
    /\ UNCHANGED <<schema, feeds, attempts, planned>>

Fail ==
    /\ state = "sent"
    /\ InsertFails
    /\ UNCHANGED <<schema, feeds, attempts, planned>>

(* Connection refused, or UNKNOWN_TABLE.                                   *)
Refused ==
    /\ ~up \/ ~Exists("sensor_raw")
    /\ Attempt
    /\ state' = AfterError(attempts')
    /\ UNCHANGED <<schema, feeds, copies>>

JobStep == ServerAnswers \/ ExecuteStatement \/ StatementFails

Next ==
    \/ JobStep \/ StatementCutOff \/ ServerCrash \/ ServerStart \/ Redeploy
    \/ Begin \/ Finish \/ Fail \/ Refused

(* The shell goes on, and Kubernetes starts the server again.              *)
Fairness == WF_vars(JobStep) /\ WF_vars(ServerStart)

Spec == Init /\ [][Next]_vars /\ Fairness

-----------------------------------------------------------------------------
(* Properties                                                              *)

TypeOK ==
    /\ up \in BOOLEAN
    /\ tables \in [Tables -> {"none", "old", "new"}]
    /\ job \in {"running", "complete", "failed"} /\ step \in 0 .. Len(Script)
    /\ failures \in 0 .. BackoffLimit
    /\ applied \in BOOLEAN /\ faults \in 0 .. MaxFaults
    /\ state \in {"due", "sent", "stored", "dropped"} /\ feeds \subseteq Sensor
    /\ attempts \in 0 .. InsertRetries
    /\ copies \in [Sensor -> 0 .. InsertRetries] /\ planned \in BOOLEAN

(* A complete job has left every table with the TTL of the file, whatever  *)
(* an older file, a failed container or a lost answer left before          *)
(* (01_schema.sql: all statements are idempotent so the job can re-run).   *)
CompleteMeansApplied == job = "complete" => \A t \in Tables : tables[t] = "new"

(* A block acknowledged to the ingester, which first tried after a job was *)
(* complete, is in the raw table and in both aggregates, so that no range  *)
(* of the chart misses it, and in each at most once for every attempt: its *)
(* weight in an average is exact without a retry.  A block begun before    *)
(* may miss a view for ever.                                               *)
AggregatedAfterJob ==
    state = "stored" /\ planned =>
        \A t \in Sensor : copies[t] \in 1 .. attempts

(* A job started is complete in the end, unless as many containers fail as *)
(* backoffLimit allows (schema-job.yaml:8).  The faults are bounded by     *)
(* MaxFaults: nothing completes while the server dies at every attempt.    *)
JobCompletes == job = "running" ~> job = "complete" \/ failures >= BackoffLimit
=============================================================================
