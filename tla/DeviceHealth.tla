---------------------------- MODULE DeviceHealth ----------------------------
(***************************************************************************)
(* Whether a device is shown online: from services/mock-publisher, over    *)
(* the status topic with its last will and its retained message, to the    *)
(* devices page of the dashboard.                                          *)
(*                                                                         *)
(*   run_device -> channel -> connection -> log, retained -> ingester      *)
(*              -> device_status -> argMax(online, ts) -> is_online        *)
(*                                                                         *)
(* One device, since devices share nothing.  Time passes in units; what a  *)
(* task can do at once it does before time passes.  Ages that no longer    *)
(* matter saturate, so faults need no bound.  Readings share the device's  *)
(* channel: when they fill it, its loop blocks, and a status tick is late. *)
(*                                                                         *)
(* rumqttc and rumqttd are outside src/.  The device's session is clean,   *)
(* so rumqttc drops what it saved of the last connection; rumqttd keeps    *)
(* retained messages in memory and may or may not replay them to a new     *)
(* subscription (docs/phase1-verification.md:58).                          *)
(***************************************************************************)
EXTENDS Integers, Sequences, FiniteSetsExt

CONSTANTS
    StatusPeriod,   \* STATUS_INTERVAL_SECS
    Threshold,      \* the fifteen minutes of is_online
    Detect,         \* the longest time until a broken connection is noticed
    Latency,        \* the longest time from receipt to device_status
    LogCap          \* messages the broker keeps for the ingester's session

ASSUME TimesAssumption ==
    /\ StatusPeriod \in Nat \ {0} /\ Detect \in Nat /\ Latency \in Nat
    /\ LogCap \in Nat \ {0}
    /\ Threshold \in Nat /\ StatusPeriod + Latency <= Threshold

VARIABLES
    proc,       \* the device's process runs
    owed,       \* status_tick has fired and its status is not yet in the channel
    left,       \* time to the next status_tick
    queued,     \* a status is in the channel
    net,        \* the device believes it is connected
    link,       \* the broker believes so, and holds the device's last will
    cut,        \* neither side has noticed yet that the connection is gone
    broken,     \* time since the two sides disagree
    wills,      \* a last will is about to be published
    retained,   \* the retained status: "none", "on" or "off"
    sub,        \* the broker knows the ingester's session
    log,        \* status messages kept for it
    ing,        \* the ingester is connected
    buffer,     \* its rows on their way to device_status
    seen,       \* of the stored rows: age of the newest, and what they say
    lost,       \* history: the last status message was lost behind the broker
    calm        \* history: time since the last fault, start or connection

device   == <<proc, owed, left, queued>>
conn     == <<net, link, cut>>
broker   == <<wills, retained, sub, log>>
ingester == <<ing, buffer, seen>>
vars     == <<device, conn, broken, broker, ingester, lost, calm>>

Forever == Threshold + 1

Older(age) == IF age < Forever THEN age + 1 ELSE age

Init ==
    /\ proc = FALSE /\ owed = FALSE /\ left = StatusPeriod /\ queued = FALSE
    /\ net = FALSE /\ link = FALSE /\ cut = FALSE /\ broken = 0
    /\ wills = FALSE /\ retained = "none" /\ sub = FALSE /\ log = <<>>
    /\ ing = FALSE /\ buffer = {} /\ seen = [age |-> Forever, says |-> {}]
    /\ lost = FALSE /\ calm = 0

Connected == net /\ link /\ ~cut

(* The broker holds a connection that the device has given up, or the      *)
(* other way round.                                                        *)
Disagree == cut \/ (net # link)

-----------------------------------------------------------------------------
(* The device                                                              *)

(* run_device: the first tick of an interval is immediate.                 *)
Start ==
    /\ ~proc
    /\ proc' = TRUE /\ owed' = TRUE /\ left' = StatusPeriod
    /\ calm' = 0
    /\ UNCHANGED <<queued, conn, broken, broker, ingester, lost>>

(* The arm of status_tick; when readings fill the channel it waits.        *)
StatusTick ==
    /\ proc /\ owed
    /\ owed' = FALSE /\ queued' = TRUE
    /\ UNCHANGED <<proc, left, conn, broken, broker, ingester, lost, calm>>

Kill ==
    /\ proc
    /\ proc' = FALSE /\ owed' = FALSE /\ queued' = FALSE
    /\ net' = FALSE /\ cut' = FALSE
    /\ calm' = 0
    /\ UNCHANGED <<left, link, broken, broker, ingester, lost>>

(* eventloop.poll connects, with the last will; the broker ends an older   *)
(* connection of the same client id and publishes its will, before or      *)
(* after what the new one sends.                                           *)
Connect ==
    /\ proc /\ ~net
    /\ net' = TRUE /\ link' = TRUE /\ cut' = FALSE /\ broken' = 0
    /\ wills' = (wills \/ link)
    /\ calm' = 0
    /\ UNCHANGED <<device, retained, sub, log, ingester, lost>>

(* The network loses the connection.                                       *)
Cut ==
    /\ Connected
    /\ cut' = TRUE
    /\ calm' = 0
    /\ UNCHANGED <<device, net, link, broken, broker, ingester, lost>>

(* poll returns an error.  rumqttc takes the requests out of the channel   *)
(* to send them again, and forgets them when the broker answers that it    *)
(* has no session.                                                         *)
DeviceNotices ==
    /\ net /\ (cut \/ ~link)
    /\ net' = FALSE /\ cut' = FALSE /\ queued' = FALSE
    /\ calm' = 0
    /\ UNCHANGED <<proc, owed, left, link, broken, broker, ingester, lost>>

(* Written to a connection that leads nowhere.                             *)
SendLost ==
    /\ net /\ ~Connected /\ queued
    /\ queued' = FALSE
    /\ UNCHANGED <<proc, owed, left, conn, broken, broker, ingester, lost, calm>>

-----------------------------------------------------------------------------
(* The broker                                                              *)

Logged_Unbounded(message) == Append(log, message)   \* mutant

(* The log of the ingester's session drops its oldest entry when full.     *)
Logged(message) ==
    Append(IF Len(log) < LogCap THEN log ELSE Tail(log), message)

Publish(message, retain) ==
    /\ retained' = IF retain THEN message ELSE retained
    /\ log' = IF sub THEN Logged(message) ELSE log
    /\ lost' = ~sub

Send ==
    /\ Connected /\ queued
    /\ queued' = FALSE
    /\ Publish("on", TRUE)
    /\ UNCHANGED <<proc, owed, left, conn, broken, wills, sub, ingester, calm>>

(* After a kill, a reset connection, or a missing keep-alive.              *)
BrokerNotices ==
    /\ link /\ (cut \/ ~net)
    /\ link' = FALSE /\ cut' = FALSE /\ wills' = TRUE
    /\ calm' = 0
    /\ UNCHANGED <<device, net, broken, retained, sub, log, ingester, lost>>

WillRetained_Not == FALSE   \* mutant: LastWill::new(.., false)

(* LastWill::new(.., true).                                                *)
WillRetained == TRUE

PublishWill ==
    /\ wills
    /\ wills' = FALSE
    /\ Publish("off", WillRetained)
    /\ UNCHANGED <<device, conn, broken, sub, ingester, calm>>

BrokerRestart ==
    /\ link' = FALSE /\ cut' = FALSE /\ wills' = FALSE
    /\ retained' = "none" /\ sub' = FALSE /\ log' = <<>>
    /\ ing' = FALSE
    /\ lost' = TRUE /\ calm' = 0
    /\ UNCHANGED <<device, net, broken, buffer, seen>>

-----------------------------------------------------------------------------
(* The ingester, as far as Ingester, FlushWindow and MqttLink bound it     *)

(* Every ConnAck subscribes again; the retained status may be replayed.    *)
IngesterConnect ==
    /\ ~ing
    /\ ing' = TRUE /\ sub' = TRUE
    /\ log' \in {log} \cup (IF retained = "none" THEN {}
                            ELSE {Logged(retained), <<retained>> \o log})
    /\ Len(log') <= LogCap
    /\ calm' = 0
    /\ UNCHANGED <<device, conn, broken, wills, retained, buffer, seen, lost>>

IngesterDisconnect ==
    /\ ing
    /\ ing' = FALSE /\ calm' = 0
    /\ UNCHANGED <<device, conn, broken, broker, buffer, seen, lost>>

(* The row gets the time of receipt.                                       *)
Receive ==
    /\ ing /\ log # <<>>
    /\ buffer' = buffer \cup {[age |-> 0, says |-> Head(log)]}
    /\ log' = Tail(log)
    /\ UNCHANGED <<device, conn, broken, wills, retained, sub, ing, seen, lost, calm>>

Newest_Oldest(ages) == Max(ages)   \* mutant: argMin

(* max(ts), and the row that argMax(online, ts) takes: among rows of the   *)
(* same second, any.                                                       *)
Newest(ages) == Min(ages)

Merged(rows) ==
    LET all  == rows \cup {[age |-> seen.age, says |-> s] : s \in seen.says}
        age  == Newest({r.age : r \in all})
    IN [age |-> age, says |-> {r.says : r \in {q \in all : q.age = age}}]

Flush ==
    /\ buffer # {}
    /\ seen' = Merged(buffer)
    /\ buffer' = {}
    /\ UNCHANGED <<device, conn, broken, broker, ing, lost, calm>>

(* The retries are used up, or the process dies.                           *)
BufferLost ==
    /\ buffer # {}
    /\ buffer' = {}
    /\ ing' \in {ing, FALSE}
    /\ lost' = TRUE /\ calm' = 0
    /\ UNCHANGED <<device, conn, broken, broker, seen>>

-----------------------------------------------------------------------------
(* The dashboard                                                           *)

IsOnline_FlagOnly(online, age) == online   \* mutant

IsOnline(online, age) == online /\ age <= Threshold

(* What a poll of the devices page may show, nothing without a row.        *)
Shown == {IsOnline(s = "on", seen.age) : s \in seen.says}

-----------------------------------------------------------------------------
(* Time                                                                    *)

Ticked_Once == owed   \* mutant: a status at the start only

(* status_tick; a tick that falls due while the loop is blocked is kept.   *)
Ticked == owed \/ left = 1

Idle ==
    /\ ~wills /\ ~(Connected /\ (queued \/ owed)) /\ ~(ing /\ log # <<>>)
    /\ \A r \in buffer : r.age < Latency
    /\ Disagree => broken < Detect

Elapse ==
    /\ Idle
    /\ IF proc THEN /\ owed' = Ticked
                    /\ left' = IF left = 1 THEN StatusPeriod ELSE left - 1
               ELSE UNCHANGED <<owed, left>>
    /\ broken' = IF Disagree THEN broken + 1 ELSE 0
    /\ buffer' = {[r EXCEPT !.age = @ + 1] : r \in buffer}
    /\ seen' = [seen EXCEPT !.age = Older(@)]
    /\ calm' = Older(calm)
    /\ UNCHANGED <<proc, queued, conn, broker, ing, lost>>

Next == \/ Start \/ StatusTick \/ Kill \/ Connect \/ Cut \/ DeviceNotices \/ SendLost
        \/ Send \/ BrokerNotices \/ PublishWill \/ BrokerRestart
        \/ IngesterConnect \/ IngesterDisconnect \/ Receive \/ Flush \/ BufferLost
        \/ Elapse

Spec == Init /\ [][Next]_vars

-----------------------------------------------------------------------------
(* Properties                                                              *)

TypeOK ==
    /\ proc \in BOOLEAN /\ owed \in BOOLEAN /\ left \in 1 .. StatusPeriod
    /\ queued \in BOOLEAN
    /\ net \in BOOLEAN /\ link \in BOOLEAN /\ cut \in BOOLEAN
    /\ broken \in 0 .. Detect
    /\ wills \in BOOLEAN /\ retained \in {"none", "on", "off"} /\ sub \in BOOLEAN
    /\ log \in Seq({"on", "off"}) /\ Len(log) <= LogCap
    /\ ing \in BOOLEAN /\ (ing => sub)
    /\ buffer \subseteq [age : 0 .. Latency, says : {"on", "off"}]
    /\ seen \in [age : 0 .. Forever, says : SUBSET {"on", "off"}]
    /\ lost \in BOOLEAN /\ calm \in 0 .. Forever

(* A device that publishes over a connection that lasts is shown online,   *)
(* whatever happened before: a will that came after the first status of a  *)
(* new connection, a status lost with the old one, a tie between the two.  *)
(* It takes one status period and the way through the ingester.            *)
AliveShownOnline ==
    proc /\ Connected /\ ing /\ calm > StatusPeriod + Latency => Shown = {TRUE}

(* A device that is gone is shown offline once the threshold has passed,   *)
(* even if its will was lost, and although the ingester stamps what it     *)
(* finds in the log or as a retained message with the time of receipt.     *)
DeadShownOffline == ~proc /\ calm > Threshold => TRUE \notin Shown

(* What the broker replays to a new subscription, with a fresh timestamp,  *)
(* never says that a device without a connection is online.                *)
GoneNotReplayed == ~link /\ ~wills => retained # "on"

(* Messages keep their order on the way to the page: when all is stored,   *)
(* the last status message is the one shown, or tied with an earlier one   *)
(* received in the same second.                                            *)
LastMessageShown ==
    ~lost /\ log = <<>> /\ buffer = {} /\ retained # "none" => retained \in seen.says
=============================================================================
