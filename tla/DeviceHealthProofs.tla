------------------------- MODULE DeviceHealthProofs -------------------------
(***************************************************************************)
(* Theorems of DeviceHealth, for any status period, threshold, latency,    *)
(* detection time and log size, whatever fails and however often.          *)
(***************************************************************************)
EXTENDS DeviceHealth, WellFoundedInduction, TLAPS

-----------------------------------------------------------------------------
(* Ages and logs                                                           *)

(* The newest age of a set of rows is one of theirs, and the smallest.     *)
LEMMA NewestMember ==
  ASSUME NEW S \in SUBSET Nat, S # {}
  PROVE  Newest(S) \in S /\ \A y \in S : Newest(S) <= y
  <1> DEFINE less == OpToRel(<, Nat)
  <1>1. PICK x \in S : \A y \in S : <<y, x>> \notin less
    <2>1. IsWellFoundedOn(less, Nat)
      BY NatLessThanWellFounded
    <2> HIDE DEF less
    <2> QED BY <2>1, WFMin
  <1>2. \A y \in S : ~ (y < x)
    BY <1>1 DEF OpToRel
  <1>3. \A y \in S : x <= y
    BY <1>2
  <1> QED BY <1>3 DEF Newest, Min

Message == {"on", "off"}

(* The log stays within its bound and ends with what was published.        *)
LEMMA LoggedLog ==
  ASSUME NEW l \in Seq(Message), Len(l) <= LogCap, log = l, NEW m \in Message
  PROVE  /\ Logged(m) \in Seq(Message) /\ Len(Logged(m)) <= LogCap
         /\ Logged(m) # <<>> /\ Logged(m)[Len(Logged(m))] = m
         /\ \A i \in 1 .. Len(Logged(m)) :
              Logged(m)[i] = m \/ \E j \in 1 .. Len(l) : Logged(m)[i] = l[j]
  <1> DEFINE base == IF Len(l) < LogCap THEN l ELSE Tail(l)
  <1>1. l # <<>> => /\ Tail(l) \in Seq(Message) /\ Len(Tail(l)) = Len(l) - 1
                    /\ \A i \in 1 .. Len(Tail(l)) : Tail(l)[i] = l[i + 1]
    OBVIOUS
  <1>2. Len(l) \in Nat /\ LogCap \in Nat \ {0} /\ (Len(l) = LogCap => l # <<>>)
    BY TimesAssumption
  <1>3. /\ base \in Seq(Message) /\ Len(base) < LogCap /\ Len(base) \in Nat
        /\ \A i \in 1 .. Len(base) : \E j \in 1 .. Len(l) : base[i] = l[j]
    <2>1. CASE Len(l) < LogCap
      BY <2>1, <1>2
    <2>2. CASE ~(Len(l) < LogCap)
      <3>1. base = Tail(l) /\ l # <<>> /\ Len(l) = LogCap
        BY <2>2, <1>2
      <3>2. \A i \in 1 .. Len(base) : i + 1 \in 1 .. Len(l) /\ base[i] = l[i + 1]
        BY <3>1, <1>1, <1>2
      <3> QED BY <3>1, <3>2, <1>1, <1>2
    <2> QED BY <2>1, <2>2
  <1> HIDE DEF base
  <1>4. Append(base, m) \in Seq(Message) /\ Len(Append(base, m)) = Len(base) + 1
    BY <1>3
  <1>5. \A i \in 1 .. Len(base) + 1 :
          Append(base, m)[i] = IF i <= Len(base) THEN base[i] ELSE m
    BY <1>3
  <1>6. Logged(m) = Append(base, m)
    BY DEF Logged, base
  <1>7. Append(base, m)[Len(base) + 1] = m
    BY <1>5, <1>3
  <1>8. \A i \in 1 .. Len(base) + 1 : i <= Len(base) => i \in 1 .. Len(base)
    BY <1>3
  <1> QED BY <1>2, <1>3, <1>4, <1>5, <1>6, <1>7, <1>8

-----------------------------------------------------------------------------
(* Type correctness                                                        *)

LEMMA Times == /\ StatusPeriod \in Nat \ {0} /\ Threshold \in Nat /\ Latency \in Nat
               /\ Detect \in Nat /\ LogCap \in Nat \ {0} /\ Latency < Threshold
               /\ Forever \in Nat /\ Forever = Threshold + 1
               /\ 0 \in 0 .. Forever /\ 0 \in 0 .. Detect
               /\ Forever \in 0 .. Forever /\ StatusPeriod \in 1 .. StatusPeriod
  BY TimesAssumption DEF Forever

LEMMA OlderAge ==
  ASSUME NEW age \in 0 .. Forever
  PROVE  Older(age) \in 0 .. Forever /\ age <= Older(age)
  BY Times DEF Older

LEMMA MergedSeen ==
  ASSUME TypeOK, buffer # {}
  PROVE  Merged(buffer) \in [age : 0 .. Forever, says : SUBSET Message]
  <1> DEFINE all == buffer \cup {[age |-> seen.age, says |-> s] : s \in seen.says}
             ages == {r.age : r \in all}
  <1>1. all \subseteq [age : 0 .. Forever, says : Message]
    BY Times DEF TypeOK, Message
  <1>2. ages \in SUBSET Nat /\ ages # {} /\ ages \subseteq 0 .. Forever
    BY <1>1, Times
  <1>3. Newest(ages) \in 0 .. Forever
    BY <1>2, NewestMember
  <1>4. {r.says : r \in {q \in all : q.age = Newest(ages)}} \in SUBSET Message
    BY <1>1
  <1> HIDE DEF all, ages
  <1>5. Merged(buffer) = [age |-> Newest(ages),
                          says |-> {r.says : r \in {q \in all : q.age = Newest(ages)}}]
    BY DEF Merged, all, ages
  <1> QED BY <1>3, <1>4, <1>5

LEMMA InitType == Init => TypeOK
  <1> SUFFICES ASSUME Init PROVE TypeOK
    OBVIOUS
  <1>1. log \in Seq(Message) /\ Len(log) <= LogCap
    BY Times DEF Init
  <1> QED BY <1>1, Times DEF Init, TypeOK, Message

LEMMA PublishType ==
  ASSUME TypeOK, NEW m \in Message, NEW retain \in BOOLEAN, Publish(m, retain)
  PROVE  /\ retained' \in {"none", "on", "off"} /\ lost' \in BOOLEAN
         /\ log' \in Seq(Message) /\ Len(log') <= LogCap
  <1>1. log \in Seq(Message) /\ Len(log) <= LogCap
    BY DEF TypeOK, Message
  <1>2. Logged(m) \in Seq(Message) /\ Len(Logged(m)) <= LogCap
    BY <1>1, LoggedLog
  <1> QED BY <1>1, <1>2 DEF Publish, TypeOK, Message

(* One step per action.                                                    *)
LEMMA StepType == TypeOK /\ [Next]_vars => TypeOK'
  <1> SUFFICES ASSUME TypeOK, [Next]_vars PROVE TypeOK'
    OBVIOUS
  <1> USE Times
  <1>1. CASE Start
    BY <1>1 DEF Start, TypeOK, conn, broker, ingester
  <1>2. CASE StatusTick
    BY <1>2 DEF StatusTick, TypeOK, conn, broker, ingester
  <1>3. CASE Kill
    BY <1>3 DEF Kill, TypeOK, broker, ingester
  <1>4. CASE Connect
    BY <1>4 DEF Connect, TypeOK, device, ingester
  <1>5. CASE Cut
    BY <1>5 DEF Cut, TypeOK, device, broker, ingester
  <1>6. CASE DeviceNotices
    BY <1>6 DEF DeviceNotices, TypeOK, broker, ingester
  <1>7. CASE SendLost
    BY <1>7 DEF SendLost, TypeOK, conn, broker, ingester
  <1>8. CASE Send
    <2>1. Publish("on", TRUE)
      BY <1>8 DEF Send
    <2>2. /\ retained' \in {"none", "on", "off"} /\ lost' \in BOOLEAN
          /\ log' \in Seq(Message) /\ Len(log') <= LogCap
      BY <2>1, PublishType DEF Message
    <2> QED BY <1>8, <2>2 DEF Send, TypeOK, conn, ingester, Message
  <1>9. CASE BrokerNotices
    BY <1>9 DEF BrokerNotices, TypeOK, device, ingester
  <1>10. CASE PublishWill
    <2>1. Publish("off", TRUE)
      BY <1>10 DEF PublishWill, WillRetained
    <2>2. /\ retained' \in {"none", "on", "off"} /\ lost' \in BOOLEAN
          /\ log' \in Seq(Message) /\ Len(log') <= LogCap
      BY <2>1, PublishType DEF Message
    <2> QED BY <1>10, <2>2 DEF PublishWill, TypeOK, device, conn, ingester, Message
  <1>11. CASE BrokerRestart
    <2>1. log' \in Seq(Message) /\ Len(log') <= LogCap
      BY <1>11 DEF BrokerRestart
    <2> QED BY <1>11, <2>1 DEF BrokerRestart, TypeOK, device, Message
  <1>12. CASE IngesterConnect
    <2>1. log \in Seq(Message) /\ Len(log) <= LogCap
      BY DEF TypeOK, Message
    <2>2. retained \in Message =>
            Logged(retained) \in Seq(Message) /\ <<retained>> \o log \in Seq(Message)
      BY <2>1, LoggedLog
    <2>3. log' \in Seq(Message)
      BY <1>12, <2>1, <2>2 DEF IngesterConnect, TypeOK, Message
    <2> QED BY <1>12, <2>3 DEF IngesterConnect, TypeOK, device, conn, Message
  <1>13. CASE IngesterDisconnect
    BY <1>13 DEF IngesterDisconnect, TypeOK, device, conn, broker
  <1>14. CASE Receive
    <2>1. /\ Head(log) \in Message /\ Tail(log) \in Seq(Message)
          /\ Len(Tail(log)) <= LogCap
      <3>1. log \in Seq(Message) /\ log # <<>> /\ Len(log) <= LogCap /\ Len(log) \in Nat
        BY <1>14 DEF Receive, TypeOK, Message
      <3>2. Len(Tail(log)) = Len(log) - 1
        BY <3>1
      <3> QED BY <3>1, <3>2
    <2> QED BY <1>14, <2>1 DEF Receive, TypeOK, device, conn, Message
  <1>15. CASE Flush
    <2>1. Merged(buffer) \in [age : 0 .. Forever, says : SUBSET Message]
      BY <1>15, MergedSeen DEF Flush
    <2> QED BY <1>15, <2>1 DEF Flush, TypeOK, device, conn, broker, Message
  <1>16. CASE BufferLost
    <2>1. ing' \in BOOLEAN /\ (ing' => sub')
      <3>1. (ing' = ing \/ ing' = FALSE) /\ sub' = sub
        BY <1>16 DEF BufferLost, broker
      <3>2. ing \in BOOLEAN /\ (ing => sub)
        BY DEF TypeOK
      <3>3. CASE ing' = ing
        BY <3>1, <3>2, <3>3
      <3>4. CASE ing' = FALSE
        BY <3>4
      <3> QED BY <3>1, <3>3, <3>4
    <2>2. buffer' = {} /\ lost' \in BOOLEAN /\ calm' \in 0 .. Forever
      BY <1>16 DEF BufferLost
    <2> QED BY <1>16, <2>1, <2>2 DEF BufferLost, TypeOK, device, conn, broker
  <1>17. CASE Elapse
    <2>1. buffer' \subseteq [age : 0 .. Latency, says : Message]
      BY <1>17 DEF Elapse, Idle, TypeOK, Message
    <2>2. seen' \in [age : 0 .. Forever, says : SUBSET Message] /\ calm' \in 0 .. Forever
      BY <1>17, OlderAge DEF Elapse, TypeOK, Message
    <2>3. left' \in 1 .. StatusPeriod /\ owed' \in BOOLEAN /\ broken' \in 0 .. Detect
      BY <1>17 DEF Elapse, Idle, Ticked, TypeOK
    <2> QED BY <1>17, <2>1, <2>2, <2>3 DEF Elapse, TypeOK, conn, broker, Message
  <1>18. CASE UNCHANGED vars
    BY <1>18 DEF vars, device, conn, broker, ingester, TypeOK
  <1> QED BY <1>1, <1>2, <1>3, <1>4, <1>5, <1>6, <1>7, <1>8, <1>9, <1>10, <1>11,
             <1>12, <1>13, <1>14, <1>15, <1>16, <1>17, <1>18 DEF Next

(* Every reachable state is well typed: in particular ages saturate, the   *)
(* log keeps its bound, and no row waits longer than Latency.              *)
THEOREM HealthTypeCorrect == Spec => []TypeOK
  BY InitType, StepType, PTL DEF Spec

-----------------------------------------------------------------------------
(* What is replayed                                                        *)

LEMMA StepReplay == GoneNotReplayed /\ [Next]_vars => GoneNotReplayed'
  <1> SUFFICES ASSUME GoneNotReplayed, [Next]_vars PROVE GoneNotReplayed'
    OBVIOUS
  <1>1. CASE Start \/ StatusTick \/ Kill \/ Cut \/ DeviceNotices \/ SendLost
    BY <1>1 DEF Start, StatusTick, Kill, Cut, DeviceNotices, SendLost,
                GoneNotReplayed, conn, broker
  <1>2. CASE Connect
    BY <1>2 DEF Connect, GoneNotReplayed
  <1>3. CASE Send
    BY <1>3 DEF Send, Connected, GoneNotReplayed, conn
  <1>4. CASE BrokerNotices
    BY <1>4 DEF BrokerNotices, GoneNotReplayed
  <1>5. CASE PublishWill
    BY <1>5 DEF PublishWill, Publish, WillRetained, GoneNotReplayed
  <1>6. CASE BrokerRestart
    BY <1>6 DEF BrokerRestart, GoneNotReplayed
  <1>7. CASE IngesterConnect \/ IngesterDisconnect \/ Receive \/ Flush \/ BufferLost
    BY <1>7 DEF IngesterConnect, IngesterDisconnect, Receive, Flush, BufferLost,
                GoneNotReplayed, conn, broker
  <1>8. CASE Elapse
    BY <1>8 DEF Elapse, GoneNotReplayed, conn, broker
  <1>9. CASE UNCHANGED vars
    BY <1>9 DEF vars, GoneNotReplayed, conn, broker
  <1> QED BY <1>1, <1>2, <1>3, <1>4, <1>5, <1>6, <1>7, <1>8, <1>9 DEF Next

(* A retained "online" never outlives the connection of its device: with   *)
(* the connection goes the last will, and the will is retained as well.    *)
THEOREM GoneNotReplayedHolds == Spec => []GoneNotReplayed
  <1>1. Init => GoneNotReplayed
    BY DEF Init, GoneNotReplayed
  <1> QED BY <1>1, StepReplay, PTL DEF Spec

-----------------------------------------------------------------------------
(* A device that is gone                                                   *)

(* Of a device without a process, whatever says that it is online is as    *)
(* old as the last fault, start or connection, on every part of its way to *)
(* the page.                                                               *)
NewsIsOld ==
    ~proc =>
      /\ ~queued
      /\ calm > 0 /\ ing => \A i \in 1 .. Len(log) : log[i] # "on"
      /\ \A r \in buffer : r.says = "on" => r.age >= calm
      /\ "on" \in seen.says => seen.age >= calm

(* A fault, start or connection makes everything old enough.               *)
LEMMA OldAtOnce ==
  ASSUME TypeOK', calm' = 0, ~proc' => ~queued'
  PROVE  NewsIsOld'
  <1>1. seen'.age \in 0 .. Forever /\ \A r \in buffer' : r.age \in 0 .. Latency
    BY DEF TypeOK
  <1> QED BY <1>1, Times DEF NewsIsOld

LEMMA StepOld == TypeOK /\ TypeOK' /\ NewsIsOld /\ [Next]_vars => NewsIsOld'
  <1> SUFFICES ASSUME TypeOK, TypeOK', NewsIsOld, [Next]_vars PROVE NewsIsOld'
    OBVIOUS
  <1> USE Times
  <1>1. CASE \/ Start \/ Kill \/ Connect \/ Cut \/ DeviceNotices \/ BrokerNotices
             \/ BrokerRestart \/ IngesterConnect \/ IngesterDisconnect \/ BufferLost
    <2>1. calm' = 0
      BY <1>1 DEF Start, Kill, Connect, Cut, DeviceNotices, BrokerNotices,
                  BrokerRestart, IngesterConnect, IngesterDisconnect, BufferLost
    <2>2. ~proc' => ~queued'
      BY <1>1 DEF Start, Kill, Connect, Cut, DeviceNotices, BrokerNotices,
                  BrokerRestart, IngesterConnect, IngesterDisconnect, BufferLost,
                  device, NewsIsOld
    <2> QED BY <2>1, <2>2, OldAtOnce
  <1>2. CASE StatusTick
    BY <1>2 DEF StatusTick, NewsIsOld
  <1>3. CASE SendLost
    BY <1>3 DEF SendLost, NewsIsOld, broker, ingester
  <1>4. CASE Send
    BY <1>4 DEF Send, NewsIsOld
  <1>5. CASE PublishWill
    <2> SUFFICES ASSUME ~proc' PROVE NewsIsOld'
      BY DEF NewsIsOld
    <2>1. ~proc /\ queued' = queued /\ calm' = calm /\ ing' = ing
          /\ buffer' = buffer /\ seen' = seen
      BY <1>5 DEF PublishWill, device, ingester
    <2>2. CASE calm > 0 /\ ing
      <3>1. log \in Seq(Message) /\ Len(log) <= LogCap /\ "off" \in Message
        BY DEF TypeOK, Message
      <3>2. \A i \in 1 .. Len(log) : log[i] # "on"
        BY <2>1, <2>2 DEF NewsIsOld
      <3>3. log' = log \/ log' = Logged("off")
        BY <1>5 DEF PublishWill, Publish
      <3>4. \A i \in 1 .. Len(log') : log'[i] # "on"
        <4>1. CASE log' = log
          BY <4>1, <3>2
        <4>2. CASE log' = Logged("off")
          <5>1. \A i \in 1 .. Len(Logged("off")) : Logged("off")[i] = "off"
                    \/ \E j \in 1 .. Len(log) : Logged("off")[i] = log[j]
            BY <3>1, LoggedLog
          <5> QED BY <5>1, <4>2, <3>2
        <4> QED BY <4>1, <4>2, <3>3
      <3> QED BY <2>1, <3>4 DEF NewsIsOld
    <2>3. CASE ~(calm > 0 /\ ing)
      BY <2>1, <2>3 DEF NewsIsOld
    <2> QED BY <2>2, <2>3
  <1>6. CASE Receive
    <2> SUFFICES ASSUME ~proc' PROVE NewsIsOld'
      BY DEF NewsIsOld
    <2>1. /\ ~proc /\ queued' = queued /\ calm' = calm /\ ing' = ing /\ ing
          /\ seen' = seen /\ log' = Tail(log) /\ log # <<>>
          /\ buffer' = buffer \cup {[age |-> 0, says |-> Head(log)]}
      BY <1>6 DEF Receive, device
    <2>2. /\ log \in Seq(Message) /\ Len(log) \in Nat /\ Len(log) > 0
          /\ Head(log) = log[1] /\ Len(Tail(log)) = Len(log) - 1
          /\ \A i \in 1 .. Len(Tail(log)) : Tail(log)[i] = log[i + 1]
      BY <2>1 DEF TypeOK, Message
    <2>3. calm \in Nat
      BY DEF TypeOK
    <2>4. calm > 0 => Head(log) # "on" /\ \A i \in 1 .. Len(log') : log'[i] # "on"
      <3> SUFFICES ASSUME calm > 0
                   PROVE  Head(log) # "on" /\ \A i \in 1 .. Len(log') : log'[i] # "on"
        OBVIOUS
      <3>1. \A i \in 1 .. Len(log) : log[i] # "on"
        BY <2>1 DEF NewsIsOld
      <3>2. \A i \in 1 .. Len(log') : i + 1 \in 1 .. Len(log) /\ log'[i] = log[i + 1]
        BY <2>1, <2>2
      <3> QED BY <3>1, <3>2, <2>2
    <2>5. \A r \in buffer' : r.says = "on" => r.age >= calm
      BY <2>1, <2>3, <2>4 DEF NewsIsOld
    <2> QED BY <2>1, <2>4, <2>5 DEF NewsIsOld
  <1>7. CASE Flush
    <2> SUFFICES ASSUME ~proc' PROVE NewsIsOld'
      BY DEF NewsIsOld
    <2>1. /\ ~proc /\ queued' = queued /\ calm' = calm /\ ing' = ing
          /\ seen' = Merged(buffer) /\ log' = log /\ buffer' = {}
      BY <1>7 DEF Flush, device, broker
    <2>2. "on" \in seen'.says => seen'.age >= calm
      <3> DEFINE all == buffer \cup {[age |-> seen.age, says |-> s] : s \in seen.says}
                 age == Newest({r.age : r \in all})
      <3>1. \A r \in all : r.says = "on" => r.age >= calm
        BY <2>1 DEF NewsIsOld
      <3> HIDE DEF all
      <3>2. seen' = [age |-> age, says |-> {r.says : r \in {q \in all : q.age = age}}]
        BY <2>1 DEF Merged, all
      <3>3. seen'.age = age /\ seen'.says = {r.says : r \in {q \in all : q.age = age}}
        BY <3>2
      <3> QED BY <3>1, <3>3
    <2> QED BY <2>1, <2>2 DEF NewsIsOld
  <1>8. CASE Elapse
    <2> SUFFICES ASSUME ~proc' PROVE NewsIsOld'
      BY DEF NewsIsOld
    <2>1. /\ ~proc /\ queued' = queued /\ calm' = Older(calm) /\ ing' = ing
          /\ buffer' = {[r EXCEPT !.age = @ + 1] : r \in buffer}
          /\ seen' = [seen EXCEPT !.age = Older(@)]
          /\ log' = log /\ (ing => log = <<>>)
      BY <1>8 DEF Elapse, Idle, broker
    <2>2. calm \in 0 .. Forever /\ seen \in [age : 0 .. Forever, says : SUBSET Message]
          /\ buffer \subseteq [age : 0 .. Latency, says : Message]
      BY DEF TypeOK, Message
    <2>3. Older(calm) <= calm + 1
      BY <2>2 DEF Older
    <2>4. \A r \in buffer' : r.says = "on" => r.age >= calm'
      <3>1. \A r \in buffer : [r EXCEPT !.age = @ + 1].says = r.says
                              /\ [r EXCEPT !.age = @ + 1].age = r.age + 1
        BY <2>2
      <3>2. \A r \in buffer : r.says = "on" => r.age >= calm
        BY <2>1 DEF NewsIsOld
      <3>3. \A r \in buffer : r.says = "on" => r.age + 1 >= calm'
        BY <3>2, <2>1, <2>2, <2>3, OlderAge
      <3> QED BY <2>1, <3>1, <3>3
    <2>5. "on" \in seen'.says => seen'.age >= calm'
      <3>1. seen'.says = seen.says /\ seen'.age = Older(seen.age)
        BY <2>1, <2>2
      <3>2. "on" \in seen.says => seen.age >= calm
        BY <2>1 DEF NewsIsOld
      <3>3. seen.age >= calm => Older(seen.age) >= Older(calm)
        BY <2>2 DEF Older
      <3> QED BY <3>1, <3>2, <3>3, <2>1
    <2>6. ing' => \A i \in 1 .. Len(log') : log'[i] # "on"
      BY <2>1
    <2> QED BY <2>1, <2>4, <2>5, <2>6 DEF NewsIsOld
  <1>9. CASE UNCHANGED vars
    BY <1>9 DEF vars, device, broker, ingester, NewsIsOld
  <1> QED BY <1>1, <1>2, <1>3, <1>4, <1>5, <1>6, <1>7, <1>8, <1>9 DEF Next

(* A device whose process is gone is shown offline once nothing has        *)
(* happened to it for the fifteen minutes of is_online, although each      *)
(* message gets the time of its receipt.                                   *)
THEOREM DeadShownOfflineHolds == Spec => []DeadShownOffline
  <1>1. Init => NewsIsOld
    BY DEF Init, NewsIsOld
  <1>2. TypeOK /\ NewsIsOld => DeadShownOffline
    <2> SUFFICES ASSUME TypeOK, NewsIsOld, ~proc, calm > Threshold, NEW s \in seen.says,
                        IsOnline(s = "on", seen.age)
                 PROVE  FALSE
      BY DEF DeadShownOffline, Shown
    <2>1. s = "on" /\ seen.age <= Threshold
      BY DEF IsOnline
    <2>2. seen.age >= calm
      BY <2>1 DEF NewsIsOld
    <2>3. seen.age \in 0 .. Forever /\ calm \in 0 .. Forever
      BY DEF TypeOK
    <2> QED BY <2>1, <2>2, <2>3, Times
  <1> QED BY <1>1, <1>2, HealthTypeCorrect, StepOld, PTL DEF Spec

-----------------------------------------------------------------------------
(* The last message                                                        *)

RowsOnTheWay == buffer \cup {[age |-> seen.age, says |-> s] : s \in seen.says}

(* The last status message is at the end of the log, or when the log is    *)
(* empty none is newer among the rows.                                     *)
LastIsNewest ==
    ~lost /\ retained # "none" =>
      IF log # <<>> THEN log[Len(log)] = retained
      ELSE \E r \in RowsOnTheWay :
             r.says = retained /\ \A q \in RowsOnTheWay : r.age <= q.age

LEMMA RowAges ==
  ASSUME TypeOK
  PROVE  RowsOnTheWay \subseteq [age : 0 .. Forever, says : Message]
  BY Times DEF TypeOK, RowsOnTheWay, Message

LEMMA PublishLast ==
  ASSUME TypeOK, NEW m \in Message, Publish(m, TRUE)
  PROVE  LastIsNewest'
  <1>1. log \in Seq(Message) /\ Len(log) <= LogCap
    BY DEF TypeOK, Message
  <1>2. Logged(m) # <<>> /\ Logged(m)[Len(Logged(m))] = m
    BY <1>1, LoggedLog
  <1>3. retained' = m /\ (~lost' => log' = Logged(m))
    BY DEF Publish
  <1> QED BY <1>2, <1>3 DEF LastIsNewest

LEMMA StepLast == TypeOK /\ TypeOK' /\ LastIsNewest /\ [Next]_vars => LastIsNewest'
  <1> SUFFICES ASSUME TypeOK, TypeOK', LastIsNewest, [Next]_vars PROVE LastIsNewest'
    OBVIOUS
  <1> USE Times
  <1>1. CASE \/ Start \/ StatusTick \/ Kill \/ Connect \/ Cut \/ DeviceNotices \/ SendLost
             \/ BrokerNotices \/ IngesterDisconnect
    BY <1>1 DEF Start, StatusTick, Kill, Connect, Cut, DeviceNotices, SendLost,
                BrokerNotices, IngesterDisconnect, LastIsNewest, RowsOnTheWay,
                broker, ingester
  <1>2. CASE Send
    BY <1>2, PublishLast DEF Send, Message
  <1>3. CASE PublishWill
    BY <1>3, PublishLast DEF PublishWill, WillRetained, Message
  <1>4. CASE BrokerRestart \/ BufferLost
    BY <1>4 DEF BrokerRestart, BufferLost, LastIsNewest
  <1>5. CASE IngesterConnect
    <2>1. retained' = retained /\ lost' = lost /\ buffer' = buffer /\ seen' = seen
      BY <1>5 DEF IngesterConnect
    <2>2. /\ log \in Seq(Message) /\ Len(log) <= LogCap /\ Len(log) \in Nat
          /\ retained \in Message \cup {"none"}
      BY DEF TypeOK, Message
    <2>3. CASE log' = log
      BY <2>1, <2>3 DEF LastIsNewest, RowsOnTheWay
    <2>4. CASE retained # "none" /\ log' = Logged(retained)
      <3>1. Logged(retained) # <<>> /\ Logged(retained)[Len(Logged(retained))] = retained
        BY <2>2, <2>4, LoggedLog
      <3> QED BY <2>1, <2>4, <3>1 DEF LastIsNewest
    <2>5. CASE retained # "none" /\ log' = <<retained>> \o log
      <3>1. /\ Len(log') = Len(log) + 1 /\ log' # <<>>
            /\ log'[Len(log) + 1] = IF Len(log) = 0 THEN retained ELSE log[Len(log)]
        BY <2>2, <2>5
      <3>2. ~lost => log = <<>> \/ log[Len(log)] = retained
        BY <2>5 DEF LastIsNewest
      <3>3. log = <<>> => Len(log) = 0
        BY <2>2
      <3>4. log # <<>> => Len(log) # 0
        BY <2>2
      <3>5. ~lost => log'[Len(log')] = retained
        BY <3>1, <3>2, <3>3, <3>4
      <3> QED BY <2>1, <3>1, <3>5 DEF LastIsNewest
    <2> QED BY <1>5, <2>3, <2>4, <2>5 DEF IngesterConnect
  <1>6. CASE Receive
    <2>1. /\ retained' = retained /\ lost' = lost /\ seen' = seen
          /\ log # <<>> /\ log' = Tail(log)
          /\ buffer' = buffer \cup {[age |-> 0, says |-> Head(log)]}
      BY <1>6 DEF Receive
    <2>2. /\ log \in Seq(Message) /\ Len(log) \in Nat /\ Len(log) > 0
          /\ Head(log) = log[1] /\ Len(Tail(log)) = Len(log) - 1
          /\ \A i \in 1 .. Len(Tail(log)) : Tail(log)[i] = log[i + 1]
          /\ Tail(log) \in Seq(Message)
      BY <2>1 DEF TypeOK, Message
    <2> SUFFICES ASSUME ~lost, retained # "none" PROVE LastIsNewest'
      BY <2>1 DEF LastIsNewest
    <2>3. log[Len(log)] = retained
      BY <2>1 DEF LastIsNewest
    <2>4. CASE log' # <<>>
      <3>1. Len(log') > 0 /\ log'[Len(log')] = log[Len(log)]
        BY <2>1, <2>2, <2>4
      <3> QED BY <3>1, <2>1, <2>3, <2>4 DEF LastIsNewest
    <2>5. CASE log' = <<>>
      <3>1. Head(log) = retained
        BY <2>1, <2>2, <2>3, <2>5
      <3>2. [age |-> 0, says |-> retained] \in RowsOnTheWay'
        BY <2>1, <3>1 DEF RowsOnTheWay
      <3>3. \A q \in RowsOnTheWay' : 0 <= q.age
        <4>1. \A q \in RowsOnTheWay : 0 <= q.age
          BY RowAges
        <4> QED BY <4>1, <2>1 DEF RowsOnTheWay
      <3>4. \E r \in RowsOnTheWay' :
              r.says = retained' /\ \A q \in RowsOnTheWay' : r.age <= q.age
        BY <3>2, <3>3, <2>1
      <3> QED BY <3>4, <2>5 DEF LastIsNewest
    <2> QED BY <2>4, <2>5
  <1>7. CASE Flush
    <2> DEFINE ages == {r.age : r \in RowsOnTheWay}
    <2>1. /\ retained' = retained /\ lost' = lost /\ log' = log
          /\ buffer # {} /\ buffer' = {} /\ seen' = Merged(buffer)
      BY <1>7 DEF Flush, broker
    <2> SUFFICES ASSUME ~lost, retained # "none", log = <<>> PROVE LastIsNewest'
      BY <2>1 DEF LastIsNewest
    <2>2. PICK r \in RowsOnTheWay :
            r.says = retained /\ \A q \in RowsOnTheWay : r.age <= q.age
      BY DEF LastIsNewest
    <2>3. ages \in SUBSET Nat /\ ages # {} /\ r.age \in ages
      BY RowAges, <2>2
    <2>4. Newest(ages) \in ages /\ \A y \in ages : Newest(ages) <= y
      BY <2>3, NewestMember
    <2>5. Newest(ages) = r.age
      <3>1. \A y \in ages : r.age <= y
        BY <2>2
      <3> HIDE DEF ages
      <3>2. Newest(ages) <= r.age /\ r.age <= Newest(ages)
        BY <3>1, <2>3, <2>4
      <3>3. Newest(ages) \in Nat /\ r.age \in Nat
        BY <2>3, <2>4
      <3> QED BY <3>2, <3>3
    <2>6. seen' = [age |-> Newest(ages),
                   says |-> {q.says : q \in {p \in RowsOnTheWay : p.age = Newest(ages)}}]
      BY <2>1 DEF Merged, RowsOnTheWay
    <2> HIDE DEF ages
    <2>7. retained \in seen'.says
      BY <2>2, <2>5, <2>6
    <2>8. RowsOnTheWay' = {[age |-> seen'.age, says |-> s] : s \in seen'.says}
      BY <2>1 DEF RowsOnTheWay
    <2>9. \A q \in RowsOnTheWay' : q.age = seen'.age
      BY <2>8
    <2>10. [age |-> seen'.age, says |-> retained] \in RowsOnTheWay'
      BY <2>7, <2>8
    <2>11. seen'.age \in Nat
      BY <2>3, <2>4, <2>6
    <2>12. \E t \in RowsOnTheWay' :
             t.says = retained' /\ \A q \in RowsOnTheWay' : t.age <= q.age
      BY <2>1, <2>9, <2>10, <2>11
    <2> QED BY <2>1, <2>12 DEF LastIsNewest
  <1>8. CASE Elapse
    <2>1. /\ retained' = retained /\ lost' = lost /\ log' = log
          /\ buffer' = {[r EXCEPT !.age = @ + 1] : r \in buffer}
          /\ seen' = [seen EXCEPT !.age = Older(@)]
          /\ \A r \in buffer : r.age < Latency
      BY <1>8 DEF Elapse, Idle, broker
    <2>2. seen \in [age : 0 .. Forever, says : SUBSET Message]
          /\ buffer \subseteq [age : 0 .. Latency, says : Message]
      BY DEF TypeOK, Message
    <2> SUFFICES ASSUME ~lost, retained # "none", log = <<>> PROVE LastIsNewest'
      BY <2>1 DEF LastIsNewest
    <2>3. PICK r \in RowsOnTheWay :
            r.says = retained /\ \A q \in RowsOnTheWay : r.age <= q.age
      BY DEF LastIsNewest
    <2>4. buffer' = {[age |-> q.age + 1, says |-> q.says] : q \in buffer}
      BY <2>1, <2>2
    <2>5. seen'.age = Older(seen.age) /\ seen'.says = seen.says
      BY <2>1, <2>2
    <2>6. RowsOnTheWay' = {[age |-> q.age + 1, says |-> q.says] : q \in buffer}
                          \cup {[age |-> Older(seen.age), says |-> s] : s \in seen.says}
      BY <2>4, <2>5 DEF RowsOnTheWay
    <2>7. Older(seen.age) <= seen.age + 1 /\ Older(seen.age) \in 0 .. Forever
      BY <2>2, OlderAge DEF Older
    <2>8. \A q \in buffer : q \in RowsOnTheWay /\ r.age <= q.age /\ q.age \in Nat
                            /\ q.age + 1 <= Latency
      BY <2>1, <2>2, <2>3 DEF RowsOnTheWay
    <2>9. \A s \in seen.says : r.age <= seen.age
      <3>1. \A s \in seen.says : [age |-> seen.age, says |-> s] \in RowsOnTheWay
        BY DEF RowsOnTheWay
      <3> QED BY <3>1, <2>3
    <2>10. CASE r \in buffer
      <3>1. [age |-> r.age + 1, says |-> retained] \in RowsOnTheWay'
        BY <2>3, <2>6, <2>10
      <3>2. \A s \in seen.says : r.age + 1 <= Older(seen.age)
        BY <2>2, <2>8, <2>9, <2>10 DEF Older
      <3>3. \A q \in RowsOnTheWay' : r.age + 1 <= q.age
        BY <2>6, <2>8, <2>10, <3>2
      <3> QED BY <3>1, <3>3, <2>1 DEF LastIsNewest
    <2>11. CASE r \notin buffer
      <3>1. r.age = seen.age /\ retained \in seen.says
        BY <2>3, <2>11 DEF RowsOnTheWay
      <3>2. [age |-> Older(seen.age), says |-> retained] \in RowsOnTheWay'
        BY <2>6, <3>1
      <3>3. \A q \in RowsOnTheWay' : Older(seen.age) <= q.age
        BY <2>2, <2>6, <2>7, <2>8, <3>1
      <3> QED BY <3>2, <3>3, <2>1 DEF LastIsNewest
    <2> QED BY <2>10, <2>11
  <1>9. CASE UNCHANGED vars
    BY <1>9 DEF vars, broker, ingester, LastIsNewest, RowsOnTheWay
  <1> QED BY <1>1, <1>2, <1>3, <1>4, <1>5, <1>6, <1>7, <1>8, <1>9 DEF Next

(* Unless it was lost behind the broker, the last status message decides   *)
(* what the page shows once it is stored, alone or in a tie.               *)
THEOREM LastMessageShownHolds == Spec => []LastMessageShown
  <1>1. Init => LastIsNewest
    BY DEF Init, LastIsNewest
  <1>2. LastIsNewest => LastMessageShown
    BY DEF LastIsNewest, LastMessageShown, RowsOnTheWay
  <1> QED BY <1>1, <1>2, HealthTypeCorrect, StepLast, PTL DEF Spec

-----------------------------------------------------------------------------
(* A device that publishes                                                 *)

(* While this lasts, only what the device and the ingester do on their own *)
(* accord happens.                                                         *)
Steady == proc /\ Connected /\ ing

(* On a connection that lasts, whatever says that the device is offline is *)
(* as old as the last fault, start or connection: the wills are out before *)
(* time passes.                                                            *)
OffIsOld ==
    Steady =>
      /\ calm > 0 => ~wills /\ \A i \in 1 .. Len(log) : log[i] # "off"
      /\ \A r \in buffer : r.says = "off" => r.age >= calm
      /\ "off" \in seen.says => seen.age >= calm

(* A status is on its way to the ingester.                                 *)
Pending == owed \/ queued \/ log # <<>>

(* What was a ago is followed by a status one period later.                *)
Due(a) == left + a <= StatusPeriod \/ (Pending /\ a <= StatusPeriod)

(* How long ago the calm began, or the newest stored row was received.     *)
StoredAge(a) == a = calm \/ (seen.says # {} /\ a = seen.age)

(* The same with rows that are not yet stored.                             *)
NewsAge(a) == StoredAge(a) \/ \E r \in buffer : a = r.age

(* News is followed by news within a period.                               *)
NewsSoon == Steady => \E a \in Nat : NewsAge(a) /\ Due(a)

(* Stored news is followed, within a period, by news that is stored or on  *)
(* its way: this bounds the age of what is stored by StatusPeriod and the  *)
(* Latency of the next row.                                                *)
StoredSoon ==
    Steady => \E a \in Nat : /\ StoredAge(a)
                             /\ Due(a) \/ \E r \in buffer : a <= r.age + StatusPeriod

NewsInv == OffIsOld /\ NewsSoon /\ StoredSoon

LEMMA NewsAtOnce ==
  ASSUME TypeOK', calm' = 0
  PROVE  NewsInv'
  <1>1. /\ seen'.age \in 0 .. Forever /\ \A r \in buffer' : r.age \in 0 .. Latency
        /\ left' \in 1 .. StatusPeriod
    BY DEF TypeOK
  <1>2. OffIsOld'
    BY <1>1, Times DEF OffIsOld
  <1>3. StoredAge(0)' /\ NewsAge(0)' /\ Due(0)'
    BY <1>1, Times DEF StoredAge, NewsAge, Due
  <1>4. NewsSoon' /\ StoredSoon'
    BY <1>3 DEF NewsSoon, StoredSoon
  <1> QED BY <1>2, <1>4 DEF NewsInv

(* A step that leaves the rows and the time alone, and the status on its   *)
(* way.                                                                    *)
LEMMA NewsKept ==
  ASSUME NewsInv, UNCHANGED <<left, calm, buffer, seen>>, Steady' => Steady,
         Pending => Pending',
         calm > 0 /\ Steady =>
            /\ ~wills => ~wills'
            /\ ~wills /\ (\A i \in 1 .. Len(log) : log[i] # "off")
                 => \A i \in 1 .. Len(log') : log'[i] # "off"
  PROVE  NewsInv'
  <1>1. OffIsOld'
    BY DEF NewsInv, OffIsOld
  <1>2. \A a \in Nat : Due(a) => Due(a)'
    BY DEF Due
  <1>3. \A a \in Nat : (StoredAge(a) <=> StoredAge(a)') /\ (NewsAge(a) <=> NewsAge(a)')
    BY DEF StoredAge, NewsAge
  <1>4. NewsSoon' /\ StoredSoon'
    BY <1>2, <1>3 DEF NewsInv, NewsSoon, StoredSoon
  <1> QED BY <1>1, <1>4 DEF NewsInv

LEMMA NewsReceive ==
  ASSUME TypeOK, TypeOK', NewsInv, Receive
  PROVE  NewsInv'
  <1> USE Times
  <1>1. /\ UNCHANGED <<left, calm, seen, wills, owed, queued, proc, net, link, cut, ing>>
        /\ log # <<>> /\ log' = Tail(log)
        /\ buffer' = buffer \cup {[age |-> 0, says |-> Head(log)]}
    BY DEF Receive, device, conn
  <1>2. Steady' <=> Steady
    BY <1>1 DEF Steady, Connected
  <1>3. /\ Len(log) \in Nat /\ Len(log) > 0 /\ Head(log) = log[1]
        /\ Len(Tail(log)) = Len(log) - 1
        /\ \A i \in 1 .. Len(Tail(log)) : Tail(log)[i] = log[i + 1]
    BY <1>1 DEF TypeOK
  <1>4. calm \in Nat /\ left \in 1 .. StatusPeriod
    BY DEF TypeOK
  <1>5. OffIsOld'
    <2> SUFFICES ASSUME Steady PROVE OffIsOld'
      BY <1>2 DEF OffIsOld
    <2>1. calm > 0 => /\ ~wills /\ Head(log) # "off"
                      /\ \A i \in 1 .. Len(log') : log'[i] # "off"
      <3> SUFFICES ASSUME calm > 0
                   PROVE  /\ ~wills /\ Head(log) # "off"
                          /\ \A i \in 1 .. Len(log') : log'[i] # "off"
        OBVIOUS
      <3>1. ~wills /\ \A i \in 1 .. Len(log) : log[i] # "off"
        BY DEF NewsInv, OffIsOld
      <3>2. \A i \in 1 .. Len(log') : i + 1 \in 1 .. Len(log) /\ log'[i] = log[i + 1]
        BY <1>1, <1>3
      <3> QED BY <1>3, <3>1, <3>2
    <2>2. \A r \in buffer' : r.says = "off" => r.age >= calm
      BY <1>1, <1>4, <2>1 DEF NewsInv, OffIsOld
    <2>3. "off" \in seen.says => seen.age >= calm
      BY DEF NewsInv, OffIsOld
    <2> QED BY <1>1, <2>1, <2>2, <2>3 DEF OffIsOld
  <1>6. NewsSoon'
    <2>1. Due(0)'
      BY <1>1, <1>4 DEF Due
    <2> PICK t : t = [age |-> 0, says |-> Head(log)]
      OBVIOUS
    <2>2. t \in buffer' /\ 0 = t.age
      BY <1>1
    <2>3. NewsAge(0)'
      BY <2>2 DEF NewsAge
    <2> QED BY <2>1, <2>3 DEF NewsSoon
  <1>7. StoredSoon'
    <2> SUFFICES ASSUME Steady PROVE StoredSoon'
      BY <1>2 DEF StoredSoon
    <2>1. PICK a \in Nat : /\ StoredAge(a)
                           /\ Due(a) \/ \E r \in buffer : a <= r.age + StatusPeriod
      BY DEF NewsInv, StoredSoon
    <2>2. StoredAge(a)'
      BY <1>1, <2>1 DEF StoredAge
    <2>3. left + a <= StatusPeriod \/ a <= StatusPeriod \/ \E r \in buffer : a <= r.age + StatusPeriod
      BY <2>1 DEF Due
    <2>4. CASE left + a <= StatusPeriod
      BY <1>1, <2>2, <2>4 DEF StoredSoon, Due
    <2>5. CASE a <= StatusPeriod
      <3>1. PICK t : t = [age |-> 0, says |-> Head(log)]
        OBVIOUS
      <3>2. t \in buffer' /\ a <= t.age + StatusPeriod
        BY <1>1, <2>5, <3>1
      <3> QED BY <2>2, <3>2 DEF StoredSoon
    <2>6. CASE \E r \in buffer : a <= r.age + StatusPeriod
      BY <1>1, <2>2, <2>6 DEF StoredSoon
    <2> QED BY <2>3, <2>4, <2>5, <2>6
  <1> QED BY <1>5, <1>6, <1>7 DEF NewsInv

LEMMA NewsFlush ==
  ASSUME TypeOK, TypeOK', NewsInv, Flush
  PROVE  NewsInv'
  <1> USE Times
  <1>1. /\ UNCHANGED <<left, calm, wills, log, owed, queued, proc, net, link, cut, ing>>
        /\ buffer # {} /\ buffer' = {} /\ seen' = Merged(buffer)
    BY DEF Flush, device, conn, broker
  <1>2. Steady' <=> Steady
    BY <1>1 DEF Steady, Connected
  <1> DEFINE ages == {r.age : r \in RowsOnTheWay}
  <1>3. RowsOnTheWay \subseteq [age : 0 .. Forever, says : Message]
    BY RowAges
  <1>4. ages \in SUBSET Nat /\ ages # {}
    BY <1>1, <1>3 DEF RowsOnTheWay
  <1>5. seen' = [age |-> Newest(ages),
                 says |-> {q.says : q \in {p \in RowsOnTheWay : p.age = Newest(ages)}}]
    BY <1>1 DEF Merged, RowsOnTheWay
  <1>6. \A r \in RowsOnTheWay : r.age \in ages
    OBVIOUS
  <1>7. \A n \in ages : \E r \in RowsOnTheWay : r.age = n
    OBVIOUS
  <1> HIDE DEF ages
  <1>8. /\ Newest(ages) \in ages /\ \A y \in ages : Newest(ages) <= y
        /\ seen'.age = Newest(ages)
        /\ seen'.says = {q.says : q \in {p \in RowsOnTheWay : p.age = Newest(ages)}}
    BY <1>4, <1>5, NewestMember
  <1>9. seen'.says # {} /\ seen'.age \in Nat
    <2>1. PICK r \in RowsOnTheWay : r.age = Newest(ages)
      BY <1>7, <1>8
    <2>2. r.says \in seen'.says
      BY <1>8, <2>1
    <2> QED BY <1>4, <1>8, <2>2
  <1>10. /\ \A r \in buffer : seen'.age <= r.age
         /\ seen.says # {} => seen'.age <= seen.age
    <2>1. \A r \in buffer : r \in RowsOnTheWay
      BY DEF RowsOnTheWay
    <2>2. \A s \in seen.says : seen.age \in ages
      <3>1. \A s \in seen.says : [age |-> seen.age, says |-> s] \in RowsOnTheWay
        BY DEF RowsOnTheWay
      <3> QED BY <1>6, <3>1
    <2> QED BY <1>6, <1>8, <2>1, <2>2
  <1>11. OffIsOld'
    <2> SUFFICES ASSUME Steady PROVE OffIsOld'
      BY <1>2 DEF OffIsOld
    <2>1. \A r \in RowsOnTheWay : r.says = "off" => r.age >= calm
      BY DEF NewsInv, OffIsOld, RowsOnTheWay
    <2>2. "off" \in seen'.says => seen'.age >= calm
      BY <1>8, <2>1
    <2> QED BY <1>1, <2>2 DEF NewsInv, OffIsOld
  <1>12. Steady => \E a \in Nat : StoredAge(a)' /\ Due(a)'
    <2> SUFFICES ASSUME Steady PROVE \E a \in Nat : StoredAge(a)' /\ Due(a)'
      OBVIOUS
    <2>1. PICK a \in Nat : NewsAge(a) /\ Due(a)
      BY DEF NewsInv, NewsSoon
    <2>2. Due(a)' /\ left' \in Nat
      BY <1>1, <2>1 DEF Due, Pending, TypeOK
    <2>3. CASE a = calm
      BY <1>1, <2>1, <2>2, <2>3 DEF StoredAge
    <2>4. CASE a # calm
      <3> PICK b \in Nat : b = seen'.age
        BY <1>9
      <3>1. b <= a
        BY <1>10, <2>1, <2>4 DEF NewsAge, StoredAge
      <3>2. Due(b)'
        <4>1. \A p \in Nat : /\ p + a <= StatusPeriod => p + b <= StatusPeriod
                             /\ a <= StatusPeriod => b <= StatusPeriod
          BY <3>1
        <4> QED BY <2>2, <4>1 DEF Due
      <3>3. StoredAge(b)'
        BY <1>9 DEF StoredAge
      <3> QED BY <3>2, <3>3
    <2> QED BY <2>3, <2>4
  <1>13. NewsSoon' /\ StoredSoon'
    BY <1>2, <1>12 DEF NewsSoon, StoredSoon, NewsAge
  <1> QED BY <1>11, <1>13 DEF NewsInv

LEMMA NewsElapse ==
  ASSUME TypeOK, TypeOK', NewsInv, Elapse
  PROVE  NewsInv'
  <1> USE Times
  <1>1. /\ UNCHANGED <<proc, queued, net, link, cut, wills, log, ing>>
        /\ buffer' = {[r EXCEPT !.age = @ + 1] : r \in buffer}
        /\ seen' = [seen EXCEPT !.age = Older(@)]
        /\ calm' = Older(calm)
    BY DEF Elapse, conn, broker
  <1>2. Steady' <=> Steady
    BY <1>1 DEF Steady, Connected
  <1> SUFFICES ASSUME Steady PROVE NewsInv'
    BY <1>2 DEF NewsInv, OffIsOld, NewsSoon, StoredSoon
  <1>3. /\ ~wills /\ ~queued /\ ~owed /\ log = <<>>
        /\ owed' = Ticked
        /\ left' = IF left = 1 THEN StatusPeriod ELSE left - 1
    BY DEF Elapse, Idle, Steady
  <1>4. ~Pending
    BY <1>3 DEF Pending
  <1>5. /\ calm \in 0 .. Forever /\ left \in 1 .. StatusPeriod
        /\ seen \in [age : 0 .. Forever, says : SUBSET Message]
        /\ buffer \subseteq [age : 0 .. Latency, says : Message]
    BY DEF TypeOK, Message
  <1>6. seen'.says = seen.says /\ seen'.age = Older(seen.age)
    BY <1>1, <1>5
  <1>7. \A a \in 0 .. Forever : Older(a) <= a + 1 /\ Older(a) \in Nat
    BY OlderAge DEF Older
  <1>8. buffer' = {[age |-> r.age + 1, says |-> r.says] : r \in buffer}
    BY <1>1, <1>5
  <1>9. OffIsOld'
    <2>1. \A r \in buffer' : r.says = "off" => r.age >= calm'
      <3>1. \A r \in buffer : r.says = "off" => r.age + 1 >= calm'
        BY <1>1, <1>5, <1>7 DEF NewsInv, OffIsOld
      <3> QED BY <1>8, <3>1
    <2>2. "off" \in seen'.says => seen'.age >= calm'
      <3>1. "off" \in seen.says => seen.age >= calm
        BY DEF NewsInv, OffIsOld
      <3>2. seen.age >= calm => Older(seen.age) >= Older(calm)
        BY <1>5 DEF Older
      <3> QED BY <1>1, <1>6, <3>1, <3>2
    <2>3. ~wills' /\ \A i \in 1 .. Len(log') : log'[i] # "off"
      BY <1>1, <1>3
    <2> QED BY <2>1, <2>2, <2>3 DEF OffIsOld
  <1>10. ASSUME NEW a \in Nat, NEW b \in Nat, b <= a + 1, Due(a) PROVE Due(b)'
    <2>1. left + a <= StatusPeriod
      BY <1>4, <1>10 DEF Due
    <2>2. CASE left = 1
      <3>1. Pending'
        BY <1>3, <2>2 DEF Ticked, Pending
      <3>2. b <= StatusPeriod
        BY <1>10, <2>1, <2>2
      <3> QED BY <3>1, <3>2 DEF Due
    <2>3. CASE left # 1
      <3>1. left' = left - 1
        BY <1>3, <2>3
      <3>2. left' + b <= StatusPeriod
        BY <1>5, <1>10, <2>1, <3>1
      <3> QED BY <3>2 DEF Due
    <2> QED BY <2>2, <2>3
  <1>11. ASSUME NEW a \in Nat, StoredAge(a)
         PROVE  \E b \in Nat : StoredAge(b)' /\ b <= a + 1
    <2>1. CASE a = calm
      <3> PICK b \in Nat : b = Older(calm)
        BY <1>5, <1>7
      <3>1. StoredAge(b)' /\ b <= a + 1
        BY <1>1, <1>5, <1>7, <2>1 DEF StoredAge
      <3> QED BY <3>1
    <2>2. CASE seen.says # {} /\ a = seen.age
      <3> PICK b \in Nat : b = Older(seen.age)
        BY <1>5, <1>7
      <3>1. StoredAge(b)' /\ b <= a + 1
        BY <1>5, <1>6, <1>7, <2>2 DEF StoredAge
      <3> QED BY <3>1
    <2> QED BY <1>11, <2>1, <2>2 DEF StoredAge
  <1>12. NewsSoon'
    <2>1. PICK a \in Nat : NewsAge(a) /\ Due(a)
      BY DEF NewsInv, NewsSoon
    <2>2. CASE StoredAge(a)
      <3>1. PICK b \in Nat : StoredAge(b)' /\ b <= a + 1
        BY <1>11, <2>2
      <3>2. NewsAge(b)' /\ Due(b)'
        BY <1>10, <2>1, <3>1 DEF NewsAge
      <3> QED BY <3>2 DEF NewsSoon
    <2>3. CASE \E r \in buffer : a = r.age
      <3>1. PICK r \in buffer : a = r.age
        BY <2>3
      <3>2. PICK t : t = [age |-> r.age + 1, says |-> r.says]
        OBVIOUS
      <3>3. t \in buffer' /\ t.age = a + 1
        BY <1>8, <3>1, <3>2
      <3>4. NewsAge(a + 1)'
        BY <3>3 DEF NewsAge
      <3>5. Due(a + 1)'
        BY <1>10, <2>1
      <3> QED BY <3>4, <3>5 DEF NewsSoon
    <2> QED BY <2>1, <2>2, <2>3 DEF NewsAge
  <1>13. StoredSoon'
    <2>1. PICK a \in Nat : /\ StoredAge(a)
                           /\ Due(a) \/ \E r \in buffer : a <= r.age + StatusPeriod
      BY DEF NewsInv, StoredSoon
    <2>2. PICK b \in Nat : StoredAge(b)' /\ b <= a + 1
      BY <1>11, <2>1
    <2>3. CASE Due(a)
      BY <1>10, <2>2, <2>3 DEF StoredSoon
    <2>4. CASE \E r \in buffer : a <= r.age + StatusPeriod
      <3>1. PICK r \in buffer : a <= r.age + StatusPeriod
        BY <2>4
      <3>2. PICK t : t = [age |-> r.age + 1, says |-> r.says]
        OBVIOUS
      <3>3. t \in buffer' /\ t.age = r.age + 1 /\ r.age \in Nat
        BY <1>5, <1>8, <3>2
      <3>4. b <= t.age + StatusPeriod
        BY <2>2, <3>1, <3>3
      <3> QED BY <2>2, <3>3, <3>4 DEF StoredSoon
    <2> QED BY <2>1, <2>3, <2>4
  <1> QED BY <1>9, <1>12, <1>13 DEF NewsInv

LEMMA StepNews == TypeOK /\ TypeOK' /\ NewsInv /\ [Next]_vars => NewsInv'
  <1> SUFFICES ASSUME TypeOK, TypeOK', NewsInv, [Next]_vars PROVE NewsInv'
    OBVIOUS
  <1>1. CASE \/ Start \/ Kill \/ Connect \/ Cut \/ DeviceNotices \/ BrokerNotices
             \/ BrokerRestart \/ IngesterConnect \/ IngesterDisconnect \/ BufferLost
    <2>1. calm' = 0
      BY <1>1 DEF Start, Kill, Connect, Cut, DeviceNotices, BrokerNotices,
                  BrokerRestart, IngesterConnect, IngesterDisconnect, BufferLost
    <2> QED BY <2>1, NewsAtOnce
  <1>2. CASE StatusTick
    BY <1>2, NewsKept DEF StatusTick, Steady, Connected, Pending, conn, broker, ingester
  <1>3. CASE SendLost
    <2>1. ~Steady'
      BY <1>3 DEF SendLost, Steady, Connected, conn
    <2> QED BY <2>1 DEF NewsInv, OffIsOld, NewsSoon, StoredSoon
  <1>4. CASE Send
    <2>1. /\ UNCHANGED <<left, calm, buffer, seen, proc, net, link, cut, ing, wills>>
          /\ Publish("on", TRUE)
      BY <1>4 DEF Send, conn, ingester
    <2>2. log \in Seq(Message) /\ Len(log) <= LogCap /\ "on" \in Message /\ "on" # "off"
      BY DEF TypeOK, Message
    <2>3. ing => log' = Logged("on")
      BY <2>1 DEF Publish, TypeOK
    <2>4. Logged("on") # <<>>
      BY <2>2, LoggedLog
    <2>5. \A i \in 1 .. Len(Logged("on")) :
            Logged("on")[i] = "on" \/ \E j \in 1 .. Len(log) : Logged("on")[i] = log[j]
      BY <2>2, LoggedLog
    <2>6. Steady' <=> Steady
      BY <2>1 DEF Steady, Connected
    <2>7. CASE Steady
      <3>1. log' = Logged("on") /\ Pending'
        BY <2>3, <2>4, <2>7 DEF Steady, Pending
      <3> QED BY <2>1, <2>2, <2>5, <2>6, <3>1, NewsKept
    <2>8. CASE ~Steady
      BY <2>6, <2>8 DEF NewsInv, OffIsOld, NewsSoon, StoredSoon
    <2> QED BY <2>7, <2>8
  <1>5. CASE PublishWill
    <2>1. /\ UNCHANGED <<left, calm, buffer, seen, proc, net, link, cut, ing, owed, queued>>
          /\ wills /\ ~wills' /\ Publish("off", TRUE)
      BY <1>5 DEF PublishWill, WillRetained, device, conn, ingester
    <2>2. log \in Seq(Message) /\ Len(log) <= LogCap /\ "off" \in Message
      BY DEF TypeOK, Message
    <2>3. log' = log \/ log' # <<>>
      <3>1. Logged("off") # <<>>
        BY <2>2, LoggedLog
      <3> QED BY <2>1, <3>1 DEF Publish
    <2>4. Steady' <=> Steady
      BY <2>1 DEF Steady, Connected
    <2>5. Pending => Pending'
      BY <2>1, <2>3 DEF Pending
    <2> QED BY <2>1, <2>4, <2>5, NewsKept
  <1>6. CASE Receive
    BY <1>6, NewsReceive
  <1>7. CASE Flush
    BY <1>7, NewsFlush
  <1>8. CASE Elapse
    BY <1>8, NewsElapse
  <1>9. CASE UNCHANGED vars
    BY <1>9 DEF vars, device, conn, broker, ingester, NewsInv, OffIsOld, NewsSoon,
                StoredSoon, Steady, Connected, StoredAge, NewsAge, Due, Pending
  <1> QED BY <1>1, <1>2, <1>3, <1>4, <1>5, <1>6, <1>7, <1>8, <1>9 DEF Next

(* A device that publishes over a connection that lasts is shown online    *)
(* after one status period and the way through the ingester, and from then *)
(* on without a gap: the next status is stored before the last one is too  *)
(* old, and no will of an earlier connection is newer than it.             *)
THEOREM AliveShownOnlineHolds == Spec => []AliveShownOnline
  <1>1. Init => NewsInv
    BY DEF Init, NewsInv, OffIsOld, NewsSoon, StoredSoon, Steady
  <1>2. TypeOK /\ NewsInv => AliveShownOnline
    <2> SUFFICES ASSUME TypeOK, NewsInv, Steady, calm > StatusPeriod + Latency
                 PROVE  Shown = {TRUE}
      BY DEF AliveShownOnline, Steady
    <2>1. /\ calm \in Nat /\ seen.age \in Nat /\ left \in Nat
          /\ seen.says \subseteq Message /\ \A r \in buffer : r.age \in 0 .. Latency
      BY Times DEF TypeOK, Message
    <2>2. PICK a \in Nat : /\ StoredAge(a)
                           /\ Due(a) \/ \E r \in buffer : a <= r.age + StatusPeriod
      BY DEF NewsInv, StoredSoon
    <2>3. a <= StatusPeriod + Latency
      <3>1. CASE left + a <= StatusPeriod \/ a <= StatusPeriod
        BY <2>1, <3>1, Times
      <3>2. CASE \E r \in buffer : a <= r.age + StatusPeriod
        BY <2>1, <3>2, Times
      <3> QED BY <2>2, <3>1, <3>2 DEF Due
    <2>4. a # calm
      BY <2>1, <2>3, Times
    <2>5. seen.says # {} /\ seen.age <= StatusPeriod + Latency
      BY <2>2, <2>3, <2>4 DEF StoredAge
    <2>6. ~(seen.age >= calm) /\ seen.age <= Threshold
      BY <2>1, <2>5, Times, TimesAssumption
    <2>7. seen.says = {"on"}
      BY <2>1, <2>5, <2>6 DEF NewsInv, OffIsOld, Message
    <2>8. IsOnline(TRUE, seen.age) = TRUE
      BY <2>6 DEF IsOnline
    <2>9. Shown = {IsOnline(TRUE, seen.age)}
      BY <2>7 DEF Shown
    <2> QED BY <2>8, <2>9
  <1> QED BY <1>1, <1>2, HealthTypeCorrect, StepNews, PTL DEF Spec
=============================================================================
