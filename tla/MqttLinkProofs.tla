--------------------------- MODULE MqttLinkProofs ---------------------------
(***************************************************************************)
(* Theorems of MqttLink, for any number of processes with the client id,   *)
(* any sizes of the log and the request channel, and any bounds on faults. *)
(***************************************************************************)
EXTENDS MqttLink, FiniteSetTheorems, WellFoundedInduction, TLAPS

USE DEF losses

-----------------------------------------------------------------------------
(* Sets of messages and sequences of them                                  *)

(* The oldest message of a set is one of its messages, and none is older.  *)
LEMMA OldestMember ==
  ASSUME NEW S \in SUBSET Nat, S # {}
  PROVE  Oldest(S) \in S /\ \A n \in S : Oldest(S) <= n
  <1> DEFINE less == OpToRel(<, Nat)
  <1>1. PICK x \in S : \A y \in S : <<y, x>> \notin less
    <2>1. IsWellFoundedOn(less, Nat)
      BY NatLessThanWellFounded
    <2> HIDE DEF less
    <2> QED BY <2>1, WFMin
  <1>2. \A y \in S : ~ (y < x)
    BY <1>1 DEF OpToRel
  <1>3. \A y \in S : x <= y
    BY <1>2
  <1> QED BY <1>3 DEF Oldest

LEMMA MsgNat == Msg \subseteq Nat /\ Subscribe \notin Msg
  BY LinkBounds DEF Msg, Subscribe

(* Taking the head of a queue leaves every other element in it.            *)
LEMMA ElemsTail ==
  ASSUME NEW T, NEW q \in Seq(T), q # <<>>
  PROVE  /\ Head(q) \in Elems(q) /\ Head(q) \in T
         /\ Tail(q) \in Seq(T)
         /\ Elems(q) = {Head(q)} \cup Elems(Tail(q))
  <1>1. Len(q) \in Nat \ {0} /\ Head(q) = q[1] /\ q[1] \in T
    OBVIOUS
  <1>2. Tail(q) \in Seq(T) /\ Len(Tail(q)) = Len(q) - 1
    OBVIOUS
  <1>3. \A i \in 1 .. Len(Tail(q)) : Tail(q)[i] = q[i + 1] /\ i + 1 \in 1 .. Len(q)
    BY <1>1, <1>2
  <1>4. \A j \in 1 .. Len(q) : j = 1 \/ (j - 1 \in 1 .. Len(Tail(q)) /\ Tail(q)[j - 1] = q[j])
    BY <1>1, <1>2, <1>3
  <1>5. Elems(q) \subseteq {Head(q)} \cup Elems(Tail(q))
    BY <1>1, <1>4 DEF Elems
  <1>6. Elems(Tail(q)) \subseteq Elems(q)
    BY <1>3 DEF Elems
  <1>7. Head(q) \in Elems(q)
    BY <1>1 DEF Elems
  <1> QED BY <1>1, <1>2, <1>5, <1>6, <1>7

LEMMA ElemsAppend ==
  ASSUME NEW T, NEW q \in Seq(T), NEW e \in T
  PROVE  /\ Append(q, e) \in Seq(T)
         /\ Elems(Append(q, e)) = Elems(q) \cup {e}
  <1> DEFINE p == Append(q, e)
  <1>1. p \in Seq(T) /\ Len(p) = Len(q) + 1 /\ Len(q) \in Nat
    OBVIOUS
  <1>2. p[Len(q) + 1] = e /\ \A i \in 1 .. Len(q) : p[i] = q[i]
    OBVIOUS
  <1>3. 1 .. Len(p) = 1 .. Len(q) \cup {Len(q) + 1}
    BY <1>1
  <1> QED BY <1>1, <1>2, <1>3 DEF Elems

LEMMA ElemsConcat ==
  ASSUME NEW T, NEW q \in Seq(T), NEW r \in Seq(T)
  PROVE  /\ q \o r \in Seq(T)
         /\ Elems(q \o r) \subseteq Elems(q) \cup Elems(r)
  <1> DEFINE p == q \o r
  <1>1. p \in Seq(T) /\ Len(p) = Len(q) + Len(r) /\ Len(q) \in Nat /\ Len(r) \in Nat
    OBVIOUS
  <1>2. \A i \in 1 .. Len(p) : p[i] = IF i <= Len(q) THEN q[i] ELSE r[i - Len(q)]
    OBVIOUS
  <1>3. \A i \in 1 .. Len(p) : i \in 1 .. Len(q) \/ i - Len(q) \in 1 .. Len(r)
    BY <1>1
  <1>4. \A i \in 1 .. Len(p) : p[i] \in Elems(q) \cup Elems(r)
    BY <1>1, <1>2, <1>3 DEF Elems
  <1> QED BY <1>1, <1>4 DEF Elems

LEMMA ElemsEmpty == Elems(<<>>) = {}
  BY DEF Elems

LEMMA Parts ==
  ASSUME NEW T, NEW q \in Seq(T), NEW k \in 1 .. Len(q)
  PROVE  SubSeq(q, 1, k) \in Seq(T) /\ SubSeq(q, k + 1, Len(q)) \in Seq(T)
  OBVIOUS

-----------------------------------------------------------------------------
(* Type correctness                                                        *)

LEMMA InitType == Init => TypeOK
  <1> SUFFICES ASSUME Init PROVE TypeOK
    OBVIOUS
  <1>1. published \in 0 .. MaxMsg /\ due \subseteq 1 .. published /\ cursor \in 0 .. MaxMsg
    BY LinkBounds DEF Init
  <1>2. toClient \in Seq(Msg) /\ toBroker \in Seq(Msg \cup {Subscribe})
    BY DEF Init
  <1>3. events \in [Client -> Seq(Msg)]
    BY DEF Init
  <1>4. /\ pc \in [Client -> {"off", "poll", "sleep", "send"}]
        /\ net \in [Client -> {"none", "up", "broken"}]
        /\ held \in [Client -> 0 .. MaxMsg]
        /\ \A c \in Client : pc[c] = "send" <=> held[c] # 0
        /\ queue \in [Client -> Nat] /\ pending \in [Client -> Nat]
    BY LinkBounds DEF Init
  <1>5. /\ copies \in [Msg -> Nat]
        /\ gone \subseteq Msg /\ forgotten \subseteq Msg /\ unheard \subseteq Msg
    BY DEF Init
  <1>6. drops \in 0 .. MaxDrops /\ crashes \in 0 .. MaxCrashes
    BY LinkBounds DEF Init
  <1> QED BY <1>1, <1>2, <1>3, <1>4, <1>5, <1>6 DEF Init, TypeOK

LEMMA DueType == TypeOK => due \subseteq Msg /\ due \subseteq Nat
  BY LinkBounds DEF TypeOK, Msg

LEMMA PublishType == TypeOK /\ Publish => TypeOK'
  <1> SUFFICES ASSUME TypeOK, Publish PROVE TypeOK'
    OBVIOUS
  <1>1. published' = published + 1 /\ published' \in 0 .. MaxMsg
    BY LinkBounds DEF TypeOK, Publish
  <1>2. due' \subseteq due \cup {published + 1}
    BY DEF Publish
  <1>3. due' \subseteq 1 .. published'
    BY <1>1, <1>2 DEF TypeOK
  <1>4. gone' \subseteq Msg
    <2>1. CASE Cardinality(due) >= LogCap /\ subscribed
      <3>1. due # {}
        BY <2>1, FS_EmptySet, LinkBounds
      <3>2. Oldest(due) \in due
        BY <3>1, DueType, OldestMember
      <3>3. Oldest(due) \in Msg
        BY <3>2, DueType
      <3>4. gone' = gone \cup {Oldest(due)} \/ gone' = gone
        BY <2>1 DEF Publish
      <3> QED BY <3>3, <3>4 DEF TypeOK
    <2>2. CASE ~(Cardinality(due) >= LogCap /\ subscribed)
      BY <2>2 DEF TypeOK, Publish
    <2> QED BY <2>1, <2>2
  <1>5. unheard' \subseteq Msg
    <2>1. published + 1 \in Msg
      BY <1>1, LinkBounds DEF TypeOK, Msg
    <2>2. unheard' \subseteq unheard \cup {published + 1}
      BY DEF Publish
    <2> QED BY <2>1, <2>2 DEF TypeOK
  <1> QED BY <1>1, <1>3, <1>4, <1>5 DEF TypeOK, Publish, link, ingest

LEMMA BrokerSendType == TypeOK /\ BrokerSend => TypeOK'
  <1> SUFFICES ASSUME TypeOK, BrokerSend PROVE TypeOK'
    OBVIOUS
  <1> DEFINE unsent == {m \in due : m > cursor}
  <1>1. /\ unsent # {}
        /\ toClient' = Append(toClient, Oldest(unsent))
        /\ cursor' = Oldest(unsent)
    BY DEF BrokerSend
  <1>2. unsent \subseteq due
    OBVIOUS
  <1> HIDE DEF unsent
  <1>3. Oldest(unsent) \in unsent
    BY <1>1, <1>2, DueType, OldestMember
  <1>4. Oldest(unsent) \in Msg
    BY <1>2, <1>3, DueType
  <1>5. toClient' \in Seq(Msg)
    BY <1>1, <1>4, ElemsAppend DEF TypeOK
  <1>6. cursor' \in 0 .. MaxMsg
    BY <1>1, <1>4, LinkBounds DEF Msg
  <1> QED BY <1>5, <1>6 DEF TypeOK, BrokerSend, ingest, history

LEMMA BrokerReceiveType == TypeOK /\ BrokerReceive => TypeOK'
  <1> SUFFICES ASSUME TypeOK, BrokerReceive PROVE TypeOK'
    OBVIOUS
  <1>1. toBroker' \in Seq(Msg \cup {Subscribe})
    BY ElemsTail DEF TypeOK, BrokerReceive
  <1>2. due' \subseteq due /\ subscribed' \in BOOLEAN
    BY DEF TypeOK, BrokerReceive
  <1> QED BY <1>1, <1>2 DEF TypeOK, BrokerReceive, ingest, history

LEMMA ClearedType ==
  /\ LinkCleared => /\ toClient' \in Seq(Msg) /\ toBroker' \in Seq(Msg \cup {Subscribe})
                    /\ cursor' \in 0 .. MaxMsg
  /\ TypeOK /\ Ended => drops' \in 0 .. MaxDrops
  <1>1. LinkCleared => cursor' \in 0 .. MaxMsg
    BY LinkBounds DEF LinkCleared
  <1>2. LinkCleared => toClient' \in Seq(Msg) /\ toBroker' \in Seq(Msg \cup {Subscribe})
    BY DEF LinkCleared
  <1>3. TypeOK /\ Ended => drops' \in 0 .. MaxDrops
    BY LinkBounds DEF Ended, TypeOK
  <1> QED BY <1>1, <1>2, <1>3

LEMMA FaultType == TypeOK /\ (Disconnect \/ BrokerCrash \/ BrokerStart) => TypeOK'
  <1>1. ASSUME TypeOK, Disconnect PROVE TypeOK'
    <2>1. net' \in [Client -> {"none", "up", "broken"}] /\ conn' = None
      BY <1>1 DEF TypeOK, Disconnect
    <2> QED BY <1>1, <2>1, ClearedType DEF TypeOK, Disconnect
  <1>2. ASSUME TypeOK, BrokerCrash PROVE TypeOK'
    <2>1. forgotten' \subseteq Msg
      BY <1>2, DueType DEF TypeOK, BrokerCrash
    <2>2. net' \in [Client -> {"none", "up", "broken"}]
      BY <1>2 DEF TypeOK, BrokerCrash
    <2>3. /\ alive' = FALSE /\ session' = FALSE /\ subscribed' = FALSE
          /\ due' = {} /\ conn' = None /\ published' = published
      BY <1>2 DEF BrokerCrash
    <2> QED BY <1>2, <2>1, <2>2, <2>3, ClearedType DEF TypeOK, BrokerCrash
  <1>3. ASSUME TypeOK, BrokerStart PROVE TypeOK'
    BY <1>3 DEF TypeOK, BrokerStart, link, ingest, history
  <1> QED BY <1>1, <1>2, <1>3

LEMMA ConnectType == ASSUME NEW c \in Client PROVE TypeOK /\ Connect(c) => TypeOK'
  <1> SUFFICES ASSUME TypeOK, Connect(c) PROVE TypeOK'
    OBVIOUS
  <1>1. drops' \in 0 .. MaxDrops
    BY ClearedType DEF TypeOK, Connect
  <1>2. pending' \in [Client -> Nat] /\ queue' \in [Client -> Nat]
    BY DEF TypeOK, Connect, Requested
  <1>3. net' \in [Client -> {"none", "up", "broken"}] /\ conn' \in Client \cup {None}
    BY DEF TypeOK, Connect
  <1> QED BY <1>1, <1>2, <1>3, ClearedType DEF TypeOK, Connect

LEMMA SavedType ==
  ASSUME TypeOK, NEW c \in Client, Saved(c)
  PROVE  pending' \in [Client -> Nat] /\ queue' \in [Client -> Nat]
  BY DEF TypeOK, Saved

LEMMA LoopType ==
  ASSUME NEW c \in Client
  PROVE  TypeOK /\ (Start(c) \/ ConnectErr(c) \/ Wake(c) \/ PollErr(c)) => TypeOK'
  <1>1. ASSUME TypeOK, Start(c) PROVE TypeOK'
    BY <1>1 DEF TypeOK, Start, broker, link, history
  <1>2. ASSUME TypeOK, ConnectErr(c) PROVE TypeOK'
    BY <1>2 DEF TypeOK, ConnectErr, broker, link, history
  <1>3. ASSUME TypeOK, Wake(c) PROVE TypeOK'
    BY <1>3 DEF TypeOK, Wake, broker, link, history
  <1>4. ASSUME TypeOK, PollErr(c) PROVE TypeOK'
    BY <1>4, SavedType DEF TypeOK, PollErr, broker, link, history
  <1> QED BY <1>1, <1>2, <1>3, <1>4

LEMMA ReadType ==
  ASSUME NEW c \in Client, NEW k \in 1 .. Len(toClient)
  PROVE  TypeOK /\ (Read(c, k) \/ ReadErr(c, k)) => TypeOK'
  <1> SUFFICES ASSUME TypeOK PROVE Read(c, k) \/ ReadErr(c, k) => TypeOK'
    OBVIOUS
  <1> DEFINE batch == SubSeq(toClient, 1, k)
  <1>1. batch \in Seq(Msg) /\ SubSeq(toClient, k + 1, Len(toClient)) \in Seq(Msg)
    BY Parts DEF TypeOK
  <1>2. toBroker \o batch \in Seq(Msg \cup {Subscribe})
    <2>1. batch \in Seq(Msg \cup {Subscribe})
      BY Parts DEF TypeOK
    <2> QED BY <2>1, ElemsConcat DEF TypeOK
  <1> HIDE DEF batch
  <1>3. ASSUME Read(c, k) PROVE TypeOK'
    BY <1>1, <1>2, <1>3 DEF batch, TypeOK, Read, broker, history
  <1>4. ASSUME ReadErr(c, k) PROVE TypeOK'
    <2>1. events' = [events EXCEPT ![c] = batch] /\ events' \in [Client -> Seq(Msg)]
      BY <1>1, <1>4 DEF batch, TypeOK, ReadErr
    <2>2. pending' \in [Client -> Nat] /\ queue' \in [Client -> Nat]
      BY <1>4, SavedType DEF ReadErr
    <2>3. /\ pc' = [pc EXCEPT ![c] = "sleep"] /\ pc[c] = "poll"
          /\ net' = [net EXCEPT ![c] = "none"] /\ conn' = None
          /\ LinkCleared /\ Ended
          /\ UNCHANGED <<alive, session, subscribed, published, due, held, copies, losses,
                         crashes>>
      BY <1>4 DEF ReadErr
    <2>4. /\ pc' \in [Client -> {"off", "poll", "sleep", "send"}]
          /\ net' \in [Client -> {"none", "up", "broken"}]
          /\ \A d \in Client : pc'[d] = "send" <=> held'[d] # 0
      BY <2>3 DEF TypeOK
    <2> QED BY <2>1, <2>2, <2>3, <2>4, ClearedType DEF TypeOK
  <1> QED BY <1>3, <1>4

LEMMA SendRequestType ==
  ASSUME NEW c \in Client PROVE TypeOK /\ SendRequest(c) => TypeOK'
  <1> SUFFICES ASSUME TypeOK, SendRequest(c) PROVE TypeOK'
    OBVIOUS
  <1>1. toBroker' \in Seq(Msg \cup {Subscribe})
    BY ElemsAppend DEF TypeOK, SendRequest
  <1>2. pending' \in [Client -> Nat] /\ queue' \in [Client -> Nat]
    <2>1. pending[c] \in Nat /\ queue[c] \in Nat
      BY DEF TypeOK
    <2>2. pending[c] > 0 => pending[c] - 1 \in Nat
      BY <2>1
    <2>3. queue[c] > 0 => queue[c] - 1 \in Nat
      BY <2>1
    <2> QED BY <2>2, <2>3 DEF TypeOK, SendRequest
  <1> QED BY <1>1, <1>2 DEF TypeOK, SendRequest, broker, history

LEMMA HandleType ==
  ASSUME NEW c \in Client PROVE TypeOK /\ (Handle(c) \/ Unblock(c)) => TypeOK'
  <1>1. ASSUME TypeOK, Handle(c) PROVE TypeOK'
    <2>1. Head(events[c]) \in Msg /\ Tail(events[c]) \in Seq(Msg)
      BY <1>1, ElemsTail DEF TypeOK, Handle
    <2>2. events' \in [Client -> Seq(Msg)]
      BY <1>1, <2>1 DEF TypeOK, Handle, Rest
    <2>3. Head(events[c]) \in 0 .. MaxMsg /\ Head(events[c]) # 0
      BY <2>1, LinkBounds DEF Msg
    <2> DEFINE m == Head(events[c])
    <2> HIDE DEF m
    <2>4. \/ copies' = [copies EXCEPT ![m] = @ + 1] /\ pc' = pc /\ held' = held
          \/ /\ pc' = [pc EXCEPT ![c] = "send"] /\ held' = [held EXCEPT ![c] = m]
             /\ copies' = copies
      BY <1>1 DEF Handle, Blocked, Returned, m
    <2>5. m \in Msg /\ m \in 0 .. MaxMsg /\ m # 0
      BY <2>1, <2>3 DEF m
    <2>6. copies' \in [Msg -> Nat]
      BY <1>1, <2>4, <2>5 DEF TypeOK
    <2>7. /\ held' \in [Client -> 0 .. MaxMsg]
          /\ pc' \in [Client -> {"off", "poll", "sleep", "send"}]
          /\ \A d \in Client : pc'[d] = "send" <=> held'[d] # 0
      BY <1>1, <2>4, <2>5 DEF TypeOK
    <2> QED BY <1>1, <2>2, <2>6, <2>7 DEF TypeOK, Handle, broker, link
  <1>2. ASSUME TypeOK, Unblock(c) PROVE TypeOK'
    <2>1. held[c] \in Msg
      BY <1>2, LinkBounds DEF TypeOK, Unblock, Msg
    <2>2. copies' \in [Msg -> Nat]
      BY <1>2, <2>1 DEF TypeOK, Unblock
    <2> QED BY <1>2, <2>2, LinkBounds DEF TypeOK, Unblock, Released, broker, link
  <1> QED BY <1>1, <1>2

LEMMA AtClientType ==
  ASSUME TypeOK, NEW c \in Client
  PROVE  AtClient(c) \subseteq Msg
  <1>1. Elems(events[c]) \subseteq Msg
    BY DEF TypeOK, Elems
  <1>2. held[c] # 0 => held[c] \in Msg
    BY LinkBounds DEF TypeOK, Msg
  <1> QED BY <1>1, <1>2 DEF AtClient

LEMMA CrashType == ASSUME NEW c \in Client PROVE TypeOK /\ Crash(c) => TypeOK'
  <1> SUFFICES ASSUME TypeOK, Crash(c) PROVE TypeOK'
    OBVIOUS
  <1>1. gone' \subseteq Msg /\ crashes' \in 0 .. MaxCrashes
    BY AtClientType, LinkBounds DEF TypeOK, Crash
  <1>2. /\ conn' \in Client \cup {None} /\ cursor' \in 0 .. MaxMsg
        /\ toClient' \in Seq(Msg) /\ toBroker' \in Seq(Msg \cup {Subscribe})
        /\ drops' \in 0 .. MaxDrops
    <2>1. CASE conn = c
      BY <2>1, ClearedType DEF TypeOK, Crash
    <2>2. CASE conn # c
      BY <2>2 DEF TypeOK, Crash, link
    <2> QED BY <2>1, <2>2
  <1>3. events' \in [Client -> Seq(Msg)]
    BY DEF TypeOK, Crash
  <1>4. /\ pc' \in [Client -> {"off", "poll", "sleep", "send"}]
        /\ net' \in [Client -> {"none", "up", "broken"}]
        /\ held' \in [Client -> 0 .. MaxMsg]
        /\ \A d \in Client : pc'[d] = "send" <=> held'[d] # 0
        /\ queue' \in [Client -> Nat] /\ pending' \in [Client -> Nat]
    BY LinkBounds DEF TypeOK, Crash
  <1> QED BY <1>1, <1>2, <1>3, <1>4 DEF TypeOK, Crash

(* Every reachable state of the link is well typed.                        *)
THEOREM LinkTypeCorrect == Spec => []TypeOK
  <1>1. TypeOK /\ [Next]_vars => TypeOK'
    <2>1. TypeOK /\ Next => TypeOK'
      BY PublishType, BrokerSendType, BrokerReceiveType, FaultType, ConnectType, LoopType,
         ReadType, SendRequestType, HandleType, CrashType DEF Next
    <2>2. TypeOK /\ UNCHANGED vars => TypeOK'
      BY DEF TypeOK, vars, broker, link, ingest, history
    <2> QED BY <2>1, <2>2
  <1> QED BY InitType, <1>1, PTL DEF Spec

-----------------------------------------------------------------------------
(* Losses                                                                  *)

(* Somebody answers for the message, or its loss has a cause.              *)
Taken(m) == Reached(m) \/ m \in Lost

(* An acknowledgement on its way belongs to a message somebody answers     *)
(* for.  This is what BrokerReceive needs: it forgets the message.         *)
AcksTaken == \A m \in Msg : m \in Elems(toBroker) => Taken(m)

LinkInv == LossHasCause /\ AcksTaken

(* A step that changes none of a client's messages keeps what is taken.    *)
LEMMA TakenUnchanged ==
  ASSUME UNCHANGED <<events, held, copies>>, Lost \subseteq Lost',
         NEW m \in Msg, Taken(m)
  PROVE  Taken(m)'
  BY DEF Taken, Reached, AtClient, Handled

LEMMA CountUp ==
  ASSUME NEW f \in [Msg -> Nat], NEW h \in Msg
  PROVE  /\ [f EXCEPT ![h] = @ + 1][h] > 0
         /\ \A n \in Msg : f[n] > 0 => [f EXCEPT ![h] = @ + 1][n] > 0
  OBVIOUS

(* Nothing a process, the batcher or a recorded loss has is forgotten.     *)
LEMMA TakenStays ==
  ASSUME TypeOK, Next, NEW m \in Msg, Taken(m)
  PROVE  Taken(m)'
  <1>1. CASE \E c \in Client : \E k \in 1 .. Len(toClient) : Read(c, k) \/ ReadErr(c, k)
    <2> PICK c \in Client, k \in 1 .. Len(toClient) : Read(c, k) \/ ReadErr(c, k)
      BY <1>1
    <2>1. /\ events[c] = <<>> /\ UNCHANGED <<held, copies>> /\ Lost' = Lost
          /\ \A d \in Client : d # c => events'[d] = events[d]
      BY DEF Read, ReadErr, history, TypeOK, Lost
    <2>2. \A d \in Client : AtClient(d) \subseteq AtClient(d)'
      BY <2>1, ElemsEmpty DEF AtClient
    <2> QED BY <2>1, <2>2 DEF Taken, Reached, Handled
  <1>2. CASE \E c \in Client : Handle(c)
    <2> PICK c \in Client : Handle(c)
      BY <1>2
    <2> PICK h : h = Head(events[c])
      OBVIOUS
    <2>1. /\ events[c] \in Seq(Msg) /\ events[c] # <<>> /\ pc[c] = "poll"
          /\ events' = [events EXCEPT ![c] = Tail(events[c])] /\ Lost' = Lost
      BY DEF TypeOK, Handle, Rest, Lost
    <2>2. h \in Msg /\ Elems(events[c]) = {h} \cup Elems(Tail(events[c]))
      BY <2>1, ElemsTail
    <2>3. \/ copies' = [copies EXCEPT ![h] = @ + 1] /\ held' = held
          \/ held' = [held EXCEPT ![c] = h] /\ copies' = copies
      BY DEF Handle, Blocked, Returned
    <2>4. held[c] = 0 /\ copies[h] \in Nat
      BY <2>1, <2>2 DEF TypeOK
    <2>5. \A n \in Msg : Handled(n) => Handled(n)'
      BY <2>2, <2>3, CountUp DEF TypeOK, Handled
    <2>6. \A d \in Client : d # c => AtClient(d)' = AtClient(d)
      BY <2>1, <2>3 DEF AtClient, TypeOK
    <2>7. \A n \in AtClient(c) : n \in AtClient(c)' \/ n = h
      BY <2>1, <2>2, <2>4 DEF AtClient, TypeOK
    <2>8. h \in AtClient(c)' \/ Handled(h)'
      <3>1. CASE copies' = [copies EXCEPT ![h] = @ + 1]
        BY <2>2, <3>1, CountUp DEF TypeOK, Handled
      <3>2. CASE held' = [held EXCEPT ![c] = h]
        <4>1. held'[c] = h /\ h # 0
          BY <2>2, <3>2, MsgNat DEF TypeOK, Subscribe
        <4> QED BY <4>1 DEF AtClient
      <3> QED BY <2>3, <3>1, <3>2
    <2>9. (\E d \in Client : m \in AtClient(d)) => (\E d \in Client : m \in AtClient(d)') \/ m = h
      BY <2>6, <2>7
    <2> QED BY <2>1, <2>5, <2>8, <2>9 DEF Taken, Reached
  <1>3. CASE \E c \in Client : Unblock(c)
    <2> PICK c \in Client : Unblock(c)
      BY <1>3
    <2> PICK h : h = held[c]
      OBVIOUS
    <2>1. /\ events' = events /\ Lost' = Lost
          /\ held' = [held EXCEPT ![c] = 0] /\ copies' = [copies EXCEPT ![h] = @ + 1]
      BY DEF Unblock, Released, Lost
    <2>2. h \in Msg /\ copies[h] \in Nat
      BY LinkBounds DEF Unblock, TypeOK, Msg
    <2>3. \A n \in Msg : Handled(n) => Handled(n)'
      BY <2>1, <2>2, CountUp DEF TypeOK, Handled
    <2>4. Handled(h)'
      BY <2>1, <2>2, CountUp DEF TypeOK, Handled
    <2>5. \A d \in Client : \A n \in AtClient(d) : n \in AtClient(d)' \/ n = h
      BY <2>1 DEF AtClient, TypeOK
    <2>6. (\E d \in Client : m \in AtClient(d)) => (\E d \in Client : m \in AtClient(d)') \/ m = h
      BY <2>5
    <2> QED BY <2>1, <2>3, <2>4, <2>6 DEF Taken, Reached
  <1>4. CASE \E c \in Client : Crash(c)
    <2> PICK c \in Client : Crash(c)
      BY <1>4
    <2>1. Lost' = Lost \cup AtClient(c) /\ copies' = copies
      BY DEF Crash, Lost
    <2>2. \A d \in Client : d # c => AtClient(d)' = AtClient(d)
      BY DEF Crash, AtClient, TypeOK
    <2> QED BY <2>1, <2>2 DEF Taken, Reached, Handled
  <1>5. CASE \/ Publish \/ BrokerSend \/ BrokerReceive \/ Disconnect \/ BrokerCrash
             \/ BrokerStart
             \/ \E c \in Client : \/ Start(c) \/ Connect(c) \/ ConnectErr(c) \/ Wake(c)
                                  \/ PollErr(c) \/ SendRequest(c)
    <2>1. UNCHANGED <<events, held, copies>> /\ Lost \subseteq Lost'
      BY <1>5 DEF Publish, BrokerSend, BrokerReceive, Disconnect, BrokerCrash, BrokerStart,
                  Start, Connect, ConnectErr, Wake, PollErr, SendRequest, ingest, history, Lost
    <2> QED BY <2>1, TakenUnchanged
  <1> QED BY <1>1, <1>2, <1>3, <1>4, <1>5 DEF Next

(* What poll() acknowledges, it has put among the events of the process.   *)
LEMMA AcksStep == TypeOK /\ AcksTaken /\ Next => AcksTaken'
  <1> SUFFICES ASSUME TypeOK, AcksTaken, Next, NEW m \in Msg, m \in Elems(toBroker)'
               PROVE  Taken(m)'
    BY DEF AcksTaken
  <1>1. CASE m \in Elems(toBroker)
    BY <1>1, TakenStays DEF AcksTaken
  <1>2. CASE m \notin Elems(toBroker)
    <2>1. \E c \in Client : \E k \in 1 .. Len(toClient) : Read(c, k)
      <3>1. CASE BrokerReceive
        <4>1. toBroker # <<>> /\ toBroker' = Tail(toBroker)
          BY <3>1 DEF BrokerReceive
        <4> QED BY <1>2, <4>1, ElemsTail DEF TypeOK
      <3>2. CASE \E c \in Client : SendRequest(c)
        <4>1. toBroker' = Append(toBroker, Subscribe)
          BY <3>2 DEF SendRequest
        <4>2. toBroker \in Seq(Msg \cup {Subscribe}) /\ Subscribe \in Msg \cup {Subscribe}
          BY DEF TypeOK
        <4>3. Elems(Append(toBroker, Subscribe)) = Elems(toBroker) \cup {Subscribe}
          BY <4>2, ElemsAppend
        <4> QED BY <1>2, <4>1, <4>3, MsgNat
      <3>3. CASE toBroker' = toBroker \/ toBroker' = <<>>
        BY <1>2, <3>3, ElemsEmpty
      <3> QED BY <3>1, <3>2, <3>3 DEF Next, Publish, BrokerSend, Disconnect, BrokerCrash,
                 BrokerStart, Start, Connect, ConnectErr, Wake, PollErr, ReadErr, Handle,
                 Unblock, Crash, LinkCleared, link
    <2> PICK c \in Client, k \in 1 .. Len(toClient) : Read(c, k)
      BY <2>1
    <2> DEFINE batch == SubSeq(toClient, 1, k)
    <2>2. toBroker' = toBroker \o batch /\ events' = [events EXCEPT ![c] = batch]
      BY DEF Read
    <2>3. batch \in Seq(Msg \cup {Subscribe})
      BY Parts DEF TypeOK
    <2> HIDE DEF batch
    <2>4. Elems(toBroker') \subseteq Elems(toBroker) \cup Elems(batch)
      BY <2>2, <2>3, ElemsConcat DEF TypeOK
    <2>5. m \in Elems(events'[c])
      BY <1>2, <2>2, <2>4 DEF TypeOK
    <2> QED BY <2>5 DEF Taken, Reached, AtClient
  <1> QED BY <1>1, <1>2

LEMMA LossStep == TypeOK /\ LinkInv /\ Next => LossHasCause'
  <1> SUFFICES ASSUME TypeOK, LinkInv, Next, NEW m \in 1 .. published', m \notin due'
               PROVE  Taken(m)'
    BY DEF LossHasCause, Taken
  <1>1. CASE Publish
    <2>1. published' = published + 1 /\ published \in 0 .. MaxMsg /\ published < MaxMsg
      BY <1>1 DEF Publish, TypeOK
    <2>2. CASE m \in Lost'
      BY <2>2 DEF Taken
    <2>3. CASE m \notin Lost'
      <3>1. m # published + 1 /\ m \notin due
        BY <1>1, <2>3 DEF Publish, Lost
      <3>2. m \in 1 .. published /\ m \in Msg
        BY <2>1, <3>1, LinkBounds DEF Msg
      <3> QED BY <3>1, <3>2, TakenStays DEF LinkInv, LossHasCause, Taken
    <2> QED BY <2>2, <2>3
  <1>2. CASE ~Publish
    <2>1. published' = published
      BY <1>2 DEF Next, BrokerSend, BrokerReceive, Disconnect, BrokerCrash, BrokerStart,
                  Start, Connect, ConnectErr, Wake, PollErr, Read, ReadErr, SendRequest,
                  Handle, Unblock, Crash, broker
    <2>2. m \in 1 .. published /\ m \in Msg
      BY <2>1, LinkBounds DEF TypeOK, Msg
    <2>3. CASE m \notin due
      BY <2>2, <2>3, TakenStays DEF LinkInv, LossHasCause, Taken
    <2>4. CASE m \in due
      <3>1. CASE BrokerReceive
        <4>1. toBroker # <<>> /\ m = Head(toBroker)
          BY <2>4, <3>1 DEF BrokerReceive
        <4>2. m \in Elems(toBroker)
          BY <4>1, ElemsTail DEF TypeOK
        <4> QED BY <2>2, <4>2, TakenStays DEF LinkInv, AcksTaken
      <3>2. CASE BrokerCrash
        BY <2>4, <3>2 DEF BrokerCrash, Taken, Lost
      <3>3. CASE ~BrokerReceive /\ ~BrokerCrash
        <4>1. due' = due
          BY <1>2, <3>3 DEF Next, BrokerSend, Disconnect, BrokerStart, Start, Connect,
                  ConnectErr, Wake, PollErr, Read, ReadErr, SendRequest, Handle, Unblock,
                  Crash, broker
        <4> QED BY <2>4, <4>1
      <3> QED BY <3>1, <3>2, <3>3
    <2> QED BY <2>3, <2>4
  <1> QED BY <1>1, <1>2

LEMMA LinkInvariant == Spec => []LinkInv
  <1>1. Init => LinkInv
    BY ElemsEmpty DEF Init, LinkInv, LossHasCause, AcksTaken
  <1>2. TypeOK /\ LinkInv /\ [Next]_vars => LinkInv'
    <2>1. TypeOK /\ LinkInv /\ Next => LinkInv'
      BY AcksStep, LossStep DEF LinkInv
    <2>2. LinkInv /\ UNCHANGED vars => LinkInv'
      BY DEF LinkInv, LossHasCause, AcksTaken, Taken, Reached, Lost, AtClient, Handled, vars,
             broker, link, ingest, history
    <2> QED BY <2>1, <2>2
  <1> QED BY <1>1, <1>2, LinkTypeCorrect, PTL DEF Spec

(* A message the broker accepted is still due, taken by a process, handled *)
(* or lost for a recorded reason, whatever fails and however often.        *)
THEOREM LossHasCauseHolds == Spec => []LossHasCause
  <1>1. LinkInv => LossHasCause
    BY DEF LinkInv
  <1> QED BY <1>1, LinkInvariant, PTL
-----------------------------------------------------------------------------
(* The request channel                                                     *)

(* Every way to lose the network leaves the channel empty: Saved drains    *)
(* it, and a new process has a new one.                                    *)
NoneQueued == \A c \in Client : net[c] = "none" => queue[c] = 0

LEMMA NoneQueuedStep ==
  ASSUME TypeOK, NoneQueued, [Next]_vars
  PROVE  NoneQueued'
  <1> USE DEF broker, link, ingest, history
  <1>1. CASE UNCHANGED <<net, queue>>
    BY <1>1 DEF NoneQueued
  <1>2. CASE Disconnect \/ BrokerCrash
    <2>1. queue' = queue /\ \A c \in Client : net'[c] = "none" => net[c] = "none"
      BY <1>2 DEF Disconnect, BrokerCrash, TypeOK
    <2> QED BY <2>1 DEF NoneQueued
  <1>3. ASSUME NEW c \in Client, Connect(c) PROVE NoneQueued'
    <2>1. /\ net'[c] = "up"
          /\ \A d \in Client : d # c => queue'[d] = queue[d] /\ net'[d] \in {net[d], "broken"}
      BY <1>3 DEF Connect, TypeOK
    <2> QED BY <2>1 DEF NoneQueued
  <1>4. ASSUME NEW c \in Client, NEW k, PollErr(c) \/ ReadErr(c, k) \/ Crash(c)
        PROVE  NoneQueued'
    <2>1. /\ queue' = [queue EXCEPT ![c] = 0]
          /\ net' = [net EXCEPT ![c] = "none"]
      BY <1>4 DEF PollErr, ReadErr, Crash, Saved
    <2> QED BY <2>1 DEF NoneQueued, TypeOK
  <1>5. ASSUME NEW c \in Client, SendRequest(c) PROVE NoneQueued'
    <2>1. /\ net' = net /\ net[c] = "up"
          /\ \A d \in Client : d # c => queue'[d] = queue[d]
      BY <1>5 DEF SendRequest, TypeOK
    <2> QED BY <2>1 DEF NoneQueued
  <1>6. CASE \/ Publish \/ BrokerSend \/ BrokerReceive \/ BrokerStart \/ UNCHANGED vars
             \/ \E c \in Client : \/ Start(c) \/ ConnectErr(c) \/ Wake(c) \/ Handle(c)
                                   \/ Unblock(c) \/ \E k \in 1 .. Len(toClient) : Read(c, k)
    BY <1>1, <1>6 DEF Publish, BrokerSend, BrokerReceive, BrokerStart, vars, Start,
                      ConnectErr, Wake, Handle, Unblock, Read
  <1> QED BY <1>2, <1>3, <1>4, <1>5, <1>6 DEF Next

(* mqtt_loop never waits for a slot that only its own next poll can free   *)
(* (main.rs:172): when a connection can be made the channel is empty,      *)
(* however many subscriptions earlier connections left unsent.             *)
THEOREM SubscribeNeverBlocksHolds == Spec => []SubscribeNeverBlocks
  <1>1. Init => NoneQueued
    BY DEF Init, NoneQueued
  <1>2. NoneQueued => SubscribeNeverBlocks
    BY LinkBounds DEF NoneQueued, SubscribeNeverBlocks
  <1> QED BY <1>1, <1>2, NoneQueuedStep, LinkTypeCorrect, PTL DEF Spec

-----------------------------------------------------------------------------
(* The line a message travels                                              *)

(* Messages are handed on in the order of their numbers.                   *)
Increasing(q) == \A i, j \in 1 .. Len(q) : i < j => q[i] < q[j]

LEMMA IncreasingEmpty == Increasing(<<>>)
  BY DEF Increasing

LEMMA IncreasingAppend ==
  ASSUME NEW q \in Seq(Msg), NEW e \in Msg, Increasing(q), \A m \in Elems(q) : m < e
  PROVE  Increasing(Append(q, e))
  <1> DEFINE p == Append(q, e)
  <1>1. Len(p) = Len(q) + 1 /\ Len(q) \in Nat
    OBVIOUS
  <1>2. p[Len(q) + 1] = e /\ \A i \in 1 .. Len(q) : p[i] = q[i] /\ q[i] < e
    BY DEF Elems
  <1>3. ASSUME NEW i \in 1 .. Len(p), NEW j \in 1 .. Len(p), i < j PROVE p[i] < p[j]
    <2>1. i \in 1 .. Len(q)
      BY <1>1, <1>3
    <2>2. CASE j \in 1 .. Len(q)
      BY <1>2, <1>3, <2>1, <2>2 DEF Increasing
    <2>3. CASE j = Len(q) + 1
      BY <1>2, <2>1, <2>3
    <2> QED BY <1>1, <2>2, <2>3
  <1> QED BY <1>3 DEF Increasing

LEMMA IncreasingTail ==
  ASSUME NEW q \in Seq(Msg), q # <<>>, Increasing(q)
  PROVE  /\ Increasing(Tail(q))
         /\ \A n \in Elems(Tail(q)) : Head(q) < n
  <1>1. Len(q) \in Nat \ {0} /\ Head(q) = q[1] /\ Len(Tail(q)) = Len(q) - 1
    OBVIOUS
  <1>2. \A i \in 1 .. Len(Tail(q)) : Tail(q)[i] = q[i + 1] /\ i + 1 \in 1 .. Len(q)
    BY <1>1
  <1>3. \A i, j \in 1 .. Len(Tail(q)) : i < j => i + 1 < j + 1
    BY <1>1
  <1>4. Increasing(Tail(q))
    BY <1>2, <1>3 DEF Increasing
  <1>5. \A i \in 1 .. Len(Tail(q)) : 1 < i + 1 /\ 1 \in 1 .. Len(q)
    BY <1>1
  <1>6. \A i \in 1 .. Len(Tail(q)) : Head(q) < Tail(q)[i]
    BY <1>1, <1>2, <1>5 DEF Increasing
  <1> QED BY <1>4, <1>6 DEF Elems

LEMMA IncreasingParts ==
  ASSUME NEW q \in Seq(Msg), Increasing(q), NEW k \in 1 .. Len(q)
  PROVE  LET batch == SubSeq(q, 1, k)
             rest  == SubSeq(q, k + 1, Len(q))
         IN /\ Increasing(batch) /\ Increasing(rest)
            /\ Elems(q) = Elems(batch) \cup Elems(rest)
            /\ \A m \in Elems(batch), n \in Elems(rest) : m < n
  <1> DEFINE batch == SubSeq(q, 1, k)
             rest  == SubSeq(q, k + 1, Len(q))
  <1>1. Len(q) \in Nat /\ k \in Nat /\ k <= Len(q)
    OBVIOUS
  <1>2. Len(batch) = k /\ \A i \in 1 .. k : batch[i] = q[i] /\ i \in 1 .. Len(q)
    BY <1>1
  <1>3. Len(rest) = Len(q) - k
    BY <1>1
  <1>4. \A i \in 1 .. Len(rest) : rest[i] = q[k + i] /\ k + i \in 1 .. Len(q)
    BY <1>1, <1>3
  <1>5. \A i \in 1 .. Len(q) : i \in 1 .. k \/ (i - k \in 1 .. Len(rest) /\ k + (i - k) = i)
    BY <1>1, <1>3
  <1> HIDE DEF batch, rest
  <1>6. Increasing(batch)
    BY <1>2 DEF Increasing
  <1>7. Increasing(rest)
    <2>1. \A i, j \in 1 .. Len(rest) : i < j => k + i < k + j
      BY <1>1, <1>3
    <2> QED BY <1>4, <2>1 DEF Increasing
  <1>8. Elems(q) \subseteq Elems(batch) \cup Elems(rest)
    <2>1. \A i \in 1 .. Len(q) : q[i] \in Elems(batch) \cup Elems(rest)
      <3> TAKE i \in 1 .. Len(q)
      <3>1. CASE i \in 1 .. k
        BY <1>2, <3>1 DEF Elems
      <3>2. CASE i - k \in 1 .. Len(rest) /\ k + (i - k) = i
        <4>1. rest[i - k] = q[i]
          BY <1>4, <3>2
        <4> QED BY <3>2, <4>1 DEF Elems
      <3> QED BY <1>5, <3>1, <3>2
    <2> QED BY <2>1 DEF Elems
  <1>9. Elems(batch) \cup Elems(rest) \subseteq Elems(q)
    BY <1>2, <1>4 DEF Elems
  <1>10. \A i \in 1 .. k, j \in 1 .. Len(rest) : i < k + j
    BY <1>1, <1>3
  <1>11. \A m \in Elems(batch), n \in Elems(rest) : m < n
    BY <1>2, <1>4, <1>10 DEF Elems, Increasing
  <1> QED BY <1>6, <1>7, <1>8, <1>9, <1>11 DEF batch, rest

(* What a step may do to the messages on the way.  LinkMoves shows that    *)
(* these are all the possibilities, so that the invariants below are       *)
(* proved once for each of them.                                           *)
Untouched == UNCHANGED <<toClient, cursor, conn, events, held, copies, drops>>

LinkLost == /\ LinkCleared
            /\ drops' = drops + 1 \/ (conn = None /\ drops' = drops)
            /\ UNCHANGED <<events, held, copies>>

SentOn(m) == /\ conn # None
             /\ m \in due /\ m > cursor
             /\ \A n \in due : n > cursor => m <= n
             /\ toClient' = Append(toClient, m) /\ cursor' = m
             /\ UNCHANGED <<due, published, conn, events, held, copies, drops>>

BatchRead(c, k) ==
    /\ events[c] = <<>> /\ held[c] = 0
    /\ events' = [events EXCEPT ![c] = SubSeq(toClient, 1, k)]
    /\ \/ /\ toClient' = SubSeq(toClient, k + 1, Len(toClient))
          /\ UNCHANGED <<cursor, conn, drops>>
       \/ LinkCleared /\ drops' = drops + 1
    /\ UNCHANGED <<due, published, held, copies>>

PassedOn(c, m) ==
    /\ events[c] # <<>> /\ held[c] = 0 /\ m = Head(events[c])
    /\ events' = [events EXCEPT ![c] = Tail(events[c])]
    /\ \/ copies' = [copies EXCEPT ![m] = @ + 1] /\ held' = held
       \/ held' = [held EXCEPT ![c] = m] /\ copies' = copies
    /\ UNCHANGED <<due, published, toClient, cursor, conn, drops>>

Freed(c, m) ==
    /\ m = held[c] /\ m \in Msg
    /\ held' = [held EXCEPT ![c] = 0]
    /\ copies' = [copies EXCEPT ![m] = @ + 1]
    /\ UNCHANGED <<due, published, toClient, cursor, conn, events, drops>>

Died(c) ==
    /\ events' = [events EXCEPT ![c] = <<>>]
    /\ held' = [held EXCEPT ![c] = 0]
    /\ \/ conn = c /\ LinkCleared /\ drops' = drops + 1
       \/ conn # c /\ UNCHANGED <<toClient, cursor, conn, drops>>
    /\ UNCHANGED <<due, published, copies>>

LEMMA LinkMoves ==
  ASSUME TypeOK, [Next]_vars
  PROVE  \/ Untouched
         \/ LinkLost
         \/ \E m \in Msg : SentOn(m)
         \/ \E c \in Client : \/ \E k \in 1 .. Len(toClient) : BatchRead(c, k)
                              \/ \E m \in Msg : PassedOn(c, m) \/ Freed(c, m)
                              \/ Died(c)
  <1> USE DEF broker, link, ingest, history
  <1>1. CASE \/ Publish \/ BrokerReceive \/ BrokerStart \/ UNCHANGED vars
             \/ \E c \in Client : \/ Start(c) \/ ConnectErr(c) \/ Wake(c) \/ PollErr(c)
                                  \/ SendRequest(c)
    BY <1>1 DEF Publish, BrokerReceive, BrokerStart, vars, Start, ConnectErr, Wake, PollErr,
                SendRequest, Untouched
  <1>2. CASE Disconnect \/ BrokerCrash \/ \E c \in Client : Connect(c)
    BY <1>2 DEF Disconnect, BrokerCrash, Connect, LinkLost, Ended
  <1>3. CASE BrokerSend
    <2> DEFINE unsent == {m \in due : m > cursor}
    <2>1. /\ unsent # {} /\ conn # None
          /\ toClient' = Append(toClient, Oldest(unsent)) /\ cursor' = Oldest(unsent)
          /\ UNCHANGED <<due, published, conn, events, held, copies, drops>>
      BY <1>3 DEF BrokerSend
    <2>2. unsent \subseteq due
      OBVIOUS
    <2>3. Oldest(unsent) \in unsent /\ \A n \in unsent : Oldest(unsent) <= n
      <3> HIDE DEF unsent
      <3> QED BY <2>1, <2>2, DueType, OldestMember
    <2>4. SentOn(Oldest(unsent)) /\ Oldest(unsent) \in Msg
      BY <2>1, <2>3, DueType DEF SentOn
    <2> QED BY <2>4
  <1>4. ASSUME NEW c \in Client, NEW k \in 1 .. Len(toClient), Read(c, k) \/ ReadErr(c, k)
        PROVE  BatchRead(c, k)
    <2>1. held[c] = 0
      BY <1>4 DEF Read, ReadErr, TypeOK
    <2> QED BY <1>4, <2>1 DEF Read, ReadErr, BatchRead, Ended
  <1>5. ASSUME NEW c \in Client, Handle(c) PROVE \E m \in Msg : PassedOn(c, m)
    <2>1. Head(events[c]) \in Msg
      BY <1>5, ElemsTail DEF TypeOK, Handle
    <2>2. held[c] = 0
      BY <1>5 DEF Handle, TypeOK
    <2>3. PassedOn(c, Head(events[c]))
      BY <1>5, <2>2 DEF Handle, PassedOn, Blocked, Returned, Rest
    <2> QED BY <2>1, <2>3
  <1>6. ASSUME NEW c \in Client, Unblock(c) PROVE \E m \in Msg : Freed(c, m)
    <2>1. held[c] \in Msg
      BY <1>6, LinkBounds DEF TypeOK, Unblock, Msg
    <2>2. Freed(c, held[c])
      BY <1>6, <2>1 DEF Unblock, Released, Freed
    <2> QED BY <2>1, <2>2
  <1>7. ASSUME NEW c \in Client, Crash(c) PROVE Died(c)
    BY <1>7 DEF Crash, Died, Ended
  <1> QED BY <1>1, <1>2, <1>3, <1>4, <1>5, <1>6, <1>7 DEF Next

(* Without a connection nothing is on its way and the cursor is at the     *)
(* start; what is on its way was sent in order and not beyond the cursor;  *)
(* a process holds each message at most once, in order.                    *)
InPipe(q, sent) == Increasing(q) /\ \A m \in Elems(q) : m <= sent

InHand(c) == Increasing(events[c]) /\ \A m \in Elems(events[c]) : held[c] < m

LinkOrder == /\ conn = None => cursor = 0 /\ toClient = <<>>
             /\ InPipe(toClient, cursor)
             /\ \A c \in Client : InHand(c)

LEMMA MsgPositive == \A m \in Msg : m \in Nat /\ 0 < m
  BY LinkBounds DEF Msg

LEMMA ElemsMsg ==
  ASSUME NEW q \in Seq(Msg)
  PROVE  \A m \in Elems(q) : m \in Msg /\ m \in Nat /\ 0 < m
  <1>1. \A i \in 1 .. Len(q) : q[i] \in Msg
    OBVIOUS
  <1> QED BY <1>1, MsgPositive DEF Elems

LEMMA ClearedPipe == LinkCleared => toClient' = <<>> /\ cursor' = 0 /\ InPipe(toClient', cursor')
  BY IncreasingEmpty, ElemsEmpty DEF LinkCleared, InPipe

LEMMA LinkOrderStep ==
  ASSUME TypeOK, LinkOrder, [Next]_vars
  PROVE  LinkOrder'
  <1>1. CASE Untouched
    BY <1>1 DEF Untouched, LinkOrder, InPipe, InHand
  <1>2. CASE LinkLost
    <2>1. \A c \in Client : InHand(c)'
      BY <1>2 DEF LinkLost, LinkOrder, InHand
    <2> QED BY <1>2, <2>1, ClearedPipe DEF LinkLost, LinkOrder, InPipe
  <1>3. ASSUME NEW m \in Msg, SentOn(m) PROVE LinkOrder'
    <2>1. toClient \in Seq(Msg) /\ InPipe(toClient, cursor) /\ cursor \in Nat
      BY DEF TypeOK, LinkOrder
    <2>2. \A n \in Elems(toClient) : n < m /\ n <= m
      <3>1. \A n \in Elems(toClient) : n \in Nat /\ n <= cursor
        BY <2>1, ElemsMsg DEF InPipe
      <3>2. m \in Nat /\ cursor < m
        BY <1>3, <2>1, MsgPositive DEF SentOn
      <3> QED BY <2>1, <3>1, <3>2
    <2>3. Increasing(Append(toClient, m)) /\ Elems(Append(toClient, m)) = Elems(toClient) \cup {m}
      BY <2>1, <2>2, IncreasingAppend, ElemsAppend DEF InPipe
    <2>4. m <= m
      BY MsgNat
    <2>5. InPipe(toClient', cursor')
      BY <1>3, <2>2, <2>3, <2>4 DEF SentOn, InPipe
    <2>6. \A c \in Client : InHand(c)'
      BY <1>3 DEF SentOn, LinkOrder, InHand
    <2> QED BY <1>3, <2>5, <2>6 DEF SentOn, LinkOrder, InPipe
  <1>4. ASSUME NEW c \in Client, NEW k \in 1 .. Len(toClient), BatchRead(c, k)
        PROVE  LinkOrder'
    <2> DEFINE batch == SubSeq(toClient, 1, k)
               rest  == SubSeq(toClient, k + 1, Len(toClient))
    <2>1. toClient \in Seq(Msg) /\ Increasing(toClient)
      BY DEF TypeOK, LinkOrder, InPipe
    <2>2. /\ Increasing(batch) /\ Increasing(rest)
          /\ Elems(toClient) = Elems(batch) \cup Elems(rest)
      BY <2>1, IncreasingParts
    <2>3. /\ events' = [events EXCEPT ![c] = batch] /\ held[c] = 0 /\ held' = held
          /\ \/ toClient' = rest /\ cursor' = cursor /\ conn' = conn
             \/ LinkCleared
      BY <1>4 DEF BatchRead
    <2> HIDE DEF batch, rest
    <2>4. \A m \in Elems(batch) : m \in Msg /\ 0 < m
      <3>1. \A m \in Elems(toClient) : m \in Msg /\ 0 < m
        BY <2>1, ElemsMsg
      <3> QED BY <2>2, <3>1
    <2>5. \A d \in Client : InHand(d)'
      <3> TAKE d \in Client
      <3>1. CASE d = c
        BY <2>2, <2>3, <2>4, <3>1 DEF InHand, TypeOK
      <3>2. CASE d # c
        BY <2>3, <3>2 DEF InHand, TypeOK, LinkOrder
      <3> QED BY <3>1, <3>2
    <2>6. CASE LinkCleared
      BY <2>5, <2>6, ClearedPipe DEF LinkOrder, InPipe
    <2>7. CASE toClient' = rest /\ cursor' = cursor /\ conn' = conn
      <3>1. InPipe(toClient', cursor')
        BY <2>2, <2>7 DEF LinkOrder, InPipe
      <3>2. conn # None
        <4>1. toClient # <<>>
          BY <1>4
        <4> QED BY <4>1 DEF LinkOrder
      <3> QED BY <2>5, <2>7, <3>1, <3>2 DEF LinkOrder, InPipe
    <2> QED BY <2>3, <2>6, <2>7
  <1>5. ASSUME NEW c \in Client, NEW m \in Msg, PassedOn(c, m) PROVE LinkOrder'
    <2>1. events[c] \in Seq(Msg) /\ events[c] # <<>> /\ Increasing(events[c])
      BY <1>5 DEF PassedOn, TypeOK, LinkOrder, InHand
    <2>2. /\ Increasing(Tail(events[c]))
          /\ Elems(events[c]) = {m} \cup Elems(Tail(events[c]))
          /\ \A n \in Elems(Tail(events[c])) : m < n
      BY <1>5, <2>1, IncreasingTail, ElemsTail DEF PassedOn
    <2>3. \A n \in Elems(Tail(events[c])) : held[c] < n
      BY <2>2 DEF LinkOrder, InHand
    <2>4. events' = [events EXCEPT ![c] = Tail(events[c])] /\ (held' = held \/ held' = [held EXCEPT ![c] = m])
      BY <1>5 DEF PassedOn
    <2>5. InHand(c)'
      BY <2>2, <2>3, <2>4 DEF InHand, TypeOK
    <2>6. \A d \in Client : d # c => InHand(d)'
      BY <2>4 DEF InHand, TypeOK, LinkOrder
    <2> QED BY <1>5, <2>5, <2>6 DEF LinkOrder, PassedOn, InPipe
  <1>6. ASSUME NEW c \in Client, NEW m \in Msg, Freed(c, m) PROVE LinkOrder'
    <2>1. events' = events /\ held' = [held EXCEPT ![c] = 0]
      BY <1>6 DEF Freed
    <2>2. \A n \in Elems(events[c]) : 0 < n
      <3>1. events[c] \in Seq(Msg)
        BY DEF TypeOK
      <3> QED BY <3>1, ElemsMsg
    <2>3. \A d \in Client : InHand(d)'
      BY <2>1, <2>2 DEF InHand, LinkOrder, TypeOK
    <2> QED BY <1>6, <2>3 DEF LinkOrder, Freed, InPipe
  <1>7. ASSUME NEW c \in Client, Died(c) PROVE LinkOrder'
    <2>1. events' = [events EXCEPT ![c] = <<>>] /\ held' = [held EXCEPT ![c] = 0]
      BY <1>7 DEF Died
    <2>2. \A d \in Client : InHand(d)'
      <3> TAKE d \in Client
      <3>1. CASE d = c
        BY <2>1, <3>1, IncreasingEmpty, ElemsEmpty DEF InHand, TypeOK
      <3>2. CASE d # c
        BY <2>1, <3>2 DEF InHand, TypeOK, LinkOrder
      <3> QED BY <3>1, <3>2
    <2>3. CASE LinkCleared
      BY <2>2, <2>3, ClearedPipe DEF LinkOrder, InPipe
    <2>4. CASE UNCHANGED <<toClient, cursor, conn>>
      BY <2>2, <2>4 DEF LinkOrder, InPipe
    <2> QED BY <1>7, <2>3, <2>4 DEF Died
  <1> QED BY <1>1, <1>2, <1>3, <1>4, <1>5, <1>6, <1>7, LinkMoves

LEMMA LinkOrdered == Spec => []LinkOrder
  <1>1. Init => LinkOrder
    BY IncreasingEmpty, ElemsEmpty DEF Init, LinkOrder, InPipe, InHand
  <1> QED BY <1>1, LinkOrderStep, LinkTypeCorrect, PTL DEF Spec

-----------------------------------------------------------------------------
(* Bounded redelivery                                                      *)

(* Where the copies of a message come from: the processes that hold it,    *)
(* and the present connection, unless it is past it.                       *)
Holders(m) == {c \in Client : m \in AtClient(c)}

CanCome(m) == m > cursor \/ m \in Elems(toClient)

Coming(m) == IF CanCome(m) THEN 1 ELSE 0

(* Each connection that ended allows one copy more, wherever it is now.    *)
CountOk(m) == /\ IsFiniteSet(Holders(m))
              /\ copies[m] + Cardinality(Holders(m)) + Coming(m) <= 1 + drops

CopiesCounted == \A m \in Msg : CountOk(m)

LEMMA ComingType == ASSUME NEW m \in Msg PROVE Coming(m) \in {0, 1} /\ Coming(m)' \in {0, 1}
  BY DEF Coming

LEMMA CountKept ==
  ASSUME TypeOK, TypeOK', NEW m \in Msg, CountOk(m),
         Holders(m)' = Holders(m), copies'[m] = copies[m],
         \/ drops' = drops /\ (CanCome(m)' => CanCome(m))
         \/ drops' = drops + 1
  PROVE  CountOk(m)'
  <1> DEFINE h == Cardinality(Holders(m))
  <1>1. h \in Nat /\ h' = h /\ IsFiniteSet(Holders(m)')
    BY FS_CardinalityType DEF CountOk
  <1>2. copies[m] \in Nat /\ drops \in Nat
    BY DEF TypeOK
  <1>3. copies[m] + h + Coming(m) <= 1 + drops
    BY DEF CountOk
  <1>4. Coming(m)' <= Coming(m) \/ drops' = drops + 1
    BY DEF Coming
  <1> HIDE DEF h
  <1>5. copies'[m] + h' + Coming(m)' <= 1 + drops'
    <2>1. drops' = drops \/ drops' = drops + 1
      OBVIOUS
    <2> QED BY <1>1, <1>2, <1>3, <1>4, <2>1, ComingType
  <1> QED BY <1>1, <1>5 DEF CountOk, h

(* A message that a process takes over, or gives up, or sends on.          *)
LEMMA CountMoved ==
  ASSUME TypeOK, TypeOK', NEW m \in Msg, CountOk(m), NEW c \in Client,
         \/ /\ c \notin Holders(m) /\ Holders(m)' = Holders(m) \cup {c}
            /\ copies'[m] = copies[m]
            /\ CanCome(m)
            /\ \/ ~CanCome(m)' /\ drops' = drops
               \/ drops' = drops + 1
         \/ /\ c \in Holders(m) /\ Holders(m)' = Holders(m) \ {c}
            /\ \/ /\ copies'[m] = copies[m] + 1 /\ drops' = drops
                  /\ (CanCome(m)' => CanCome(m))
               \/ /\ copies'[m] = copies[m]
                  /\ \/ drops' = drops + 1
                     \/ drops' = drops /\ (CanCome(m)' => CanCome(m))
  PROVE  CountOk(m)'
  <1> DEFINE h == Cardinality(Holders(m))
  <1>1. h \in Nat /\ IsFiniteSet(Holders(m)) /\ copies[m] + h + Coming(m) <= 1 + drops
    BY FS_CardinalityType DEF CountOk
  <1>2. copies[m] \in Nat /\ drops \in Nat
    BY DEF TypeOK
  <1>3. CASE c \notin Holders(m) /\ Holders(m)' = Holders(m) \cup {c}
    <2>1. IsFiniteSet(Holders(m)') /\ h' = h + 1
      BY <1>1, <1>3, FS_AddElement
    <2>2. /\ copies'[m] = copies[m] /\ Coming(m) = 1
          /\ (Coming(m)' = 0 /\ drops' = drops) \/ drops' = drops + 1
      BY <1>3 DEF Coming
    <2> HIDE DEF h
    <2>3. copies'[m] + h' + Coming(m)' <= 1 + drops'
      BY <1>1, <1>2, <2>1, <2>2, ComingType
    <2> QED BY <2>1, <2>3 DEF CountOk, h
  <1>4. CASE c \in Holders(m) /\ Holders(m)' = Holders(m) \ {c}
    <2>1. IsFiniteSet(Holders(m)') /\ h' = h - 1
      BY <1>1, <1>4, FS_RemoveElement
    <2>2. \/ copies'[m] = copies[m] + 1 /\ drops' = drops /\ Coming(m)' <= Coming(m)
          \/ copies'[m] = copies[m] /\ drops' = drops + 1
          \/ copies'[m] = copies[m] /\ drops' = drops /\ Coming(m)' <= Coming(m)
      BY <1>4 DEF Coming
    <2> HIDE DEF h
    <2>3. copies'[m] + h' + Coming(m)' <= 1 + drops'
      BY <1>1, <1>2, <2>1, <2>2, ComingType
    <2> QED BY <2>1, <2>3 DEF CountOk, h
  <1> QED BY <1>3, <1>4

LEMMA CopiesCountedStep ==
  ASSUME TypeOK, TypeOK', LinkOrder, CopiesCounted, [Next]_vars
  PROVE  CopiesCounted'
  <1> SUFFICES ASSUME NEW x \in Msg PROVE CountOk(x)'
    BY DEF CopiesCounted
  <1>0. CountOk(x) /\ x \in Nat /\ 0 < x /\ cursor \in Nat
    BY MsgPositive DEF CopiesCounted, TypeOK
  <1>1. CASE Untouched
    <2>1. Holders(x)' = Holders(x) /\ (CanCome(x)' => CanCome(x))
      BY <1>1 DEF Untouched, Holders, AtClient, CanCome
    <2> QED BY <1>0, <1>1, <2>1, CountKept DEF Untouched
  <1>2. CASE LinkLost
    <2>1. Holders(x)' = Holders(x)
      BY <1>2 DEF LinkLost, Holders, AtClient
    <2>2. conn = None => CanCome(x)
      BY <1>0 DEF LinkOrder, CanCome
    <2> QED BY <1>0, <1>2, <2>1, <2>2, CountKept DEF LinkLost
  <1>3. ASSUME NEW m \in Msg, SentOn(m) PROVE CountOk(x)'
    <2>1. Holders(x)' = Holders(x)
      BY <1>3 DEF SentOn, Holders, AtClient
    <2>2. Elems(toClient') = Elems(toClient) \cup {m} /\ cursor' = m /\ m > cursor /\ m \in Nat
      BY <1>3, ElemsAppend, MsgPositive DEF SentOn, TypeOK
    <2>3. CanCome(x)' => CanCome(x)
      BY <1>0, <2>2 DEF CanCome
    <2> QED BY <1>0, <1>3, <2>1, <2>3, CountKept DEF SentOn
  <1>4. ASSUME NEW c \in Client, NEW k \in 1 .. Len(toClient), BatchRead(c, k)
        PROVE  CountOk(x)'
    <2> DEFINE batch == SubSeq(toClient, 1, k)
               rest  == SubSeq(toClient, k + 1, Len(toClient))
    <2>1. /\ Elems(toClient) = Elems(batch) \cup Elems(rest)
          /\ \A m \in Elems(batch), n \in Elems(rest) : m < n
      BY IncreasingParts DEF TypeOK, LinkOrder, InPipe
    <2>2. /\ events[c] = <<>> /\ events' = [events EXCEPT ![c] = batch]
          /\ held[c] = 0 /\ held' = held /\ copies' = copies
          /\ \/ toClient' = rest /\ cursor' = cursor /\ drops' = drops
             \/ drops' = drops + 1
      BY <1>4 DEF BatchRead
    <2> HIDE DEF batch, rest
    <2>3. \A d \in Client : d # c => AtClient(d)' = AtClient(d)
      BY <2>2 DEF AtClient, TypeOK
    <2>4. AtClient(c) = {} /\ AtClient(c)' = Elems(batch)
      BY <2>2, ElemsEmpty DEF AtClient, TypeOK
    <2>5. CASE x \in Elems(batch)
      <3>1. c \notin Holders(x) /\ Holders(x)' = Holders(x) \cup {c}
        BY <2>3, <2>4, <2>5 DEF Holders
      <3>2. CanCome(x)
        BY <2>1, <2>5 DEF CanCome
      <3>3. ~CanCome(x)' \/ drops' = drops + 1
        <4> SUFFICES ASSUME toClient' = rest, cursor' = cursor PROVE ~CanCome(x)'
          BY <2>2
        <4>1. x <= cursor
          BY <2>1, <2>5 DEF LinkOrder, InPipe
        <4>2. ~(x < x)
          BY <1>0
        <4> QED BY <1>0, <2>1, <2>5, <4>1, <4>2 DEF CanCome
      <3> QED BY <1>0, <2>2, <3>1, <3>2, <3>3, CountMoved
    <2>6. CASE x \notin Elems(batch)
      <3>1. Holders(x)' = Holders(x)
        BY <2>3, <2>4, <2>6 DEF Holders
      <3>2. (drops' = drops /\ (CanCome(x)' => CanCome(x))) \/ drops' = drops + 1
        BY <2>1, <2>2 DEF CanCome
      <3> QED BY <1>0, <2>2, <3>1, <3>2, CountKept
    <2> QED BY <2>5, <2>6
  <1>5. ASSUME NEW c \in Client, NEW m \in Msg, PassedOn(c, m) PROVE CountOk(x)'
    <2>1. /\ events[c] \in Seq(Msg) /\ events[c] # <<>> /\ m = Head(events[c])
          /\ Increasing(events[c])
      BY <1>5 DEF PassedOn, TypeOK, LinkOrder, InHand
    <2>2. /\ Elems(events[c]) = {m} \cup Elems(Tail(events[c]))
          /\ m \notin Elems(Tail(events[c]))
      <3>1. \A n \in Elems(Tail(events[c])) : m < n
        BY <2>1, IncreasingTail
      <3>2. ~(m < m) /\ m # 0
        BY MsgPositive
      <3> QED BY <2>1, <3>1, <3>2, ElemsTail
    <2>3. /\ events' = [events EXCEPT ![c] = Tail(events[c])] /\ held[c] = 0
          /\ \/ copies' = [copies EXCEPT ![m] = @ + 1] /\ held' = held
             \/ held' = [held EXCEPT ![c] = m] /\ copies' = copies
          /\ drops' = drops /\ cursor' = cursor /\ toClient' = toClient
      BY <1>5 DEF PassedOn
    <2>4. \A d \in Client : d # c => AtClient(d)' = AtClient(d)
      BY <2>3 DEF AtClient, TypeOK
    <2>5. m # 0 /\ (CanCome(x)' => CanCome(x))
      BY <2>3, MsgPositive DEF CanCome
    <2>6. AtClient(c) = {m} \cup Elems(Tail(events[c]))
      BY <2>2, <2>3 DEF AtClient
    <2>7. CASE copies' = [copies EXCEPT ![m] = @ + 1] /\ held' = held
      <3>1. AtClient(c)' = Elems(Tail(events[c]))
        BY <2>3, <2>7 DEF AtClient, TypeOK
      <3>2. CASE x = m
        <4>1. c \in Holders(x) /\ Holders(x)' = Holders(x) \ {c}
          BY <2>2, <2>4, <2>6, <3>1, <3>2 DEF Holders
        <4>2. copies'[x] = copies[x] + 1
          BY <2>7, <3>2 DEF TypeOK
        <4> QED BY <1>0, <2>3, <2>5, <4>1, <4>2, CountMoved
      <3>3. CASE x # m
        <4>1. Holders(x)' = Holders(x)
          BY <2>4, <2>6, <3>1, <3>3 DEF Holders
        <4>2. copies'[x] = copies[x]
          BY <2>7, <3>3 DEF TypeOK
        <4> QED BY <1>0, <2>3, <2>5, <4>1, <4>2, CountKept
      <3> QED BY <3>2, <3>3
    <2>8. CASE held' = [held EXCEPT ![c] = m] /\ copies' = copies
      <3>1. AtClient(c)' = {m} \cup Elems(Tail(events[c]))
        BY <2>3, <2>5, <2>8 DEF AtClient, TypeOK
      <3>2. Holders(x)' = Holders(x)
        BY <2>4, <2>6, <3>1 DEF Holders
      <3> QED BY <1>0, <2>3, <2>5, <2>8, <3>2, CountKept
    <2> QED BY <2>3, <2>7, <2>8
  <1>6. ASSUME NEW c \in Client, NEW m \in Msg, Freed(c, m) PROVE CountOk(x)'
    <2>1. /\ m = held[c] /\ held' = [held EXCEPT ![c] = 0] /\ events' = events
          /\ copies' = [copies EXCEPT ![m] = @ + 1]
          /\ drops' = drops /\ cursor' = cursor /\ toClient' = toClient
      BY <1>6 DEF Freed
    <2>2. m # 0 /\ m \notin Elems(events[c])
      <3>1. \A n \in Elems(events[c]) : m < n
        BY <2>1 DEF LinkOrder, InHand
      <3>2. ~(m < m) /\ m # 0
        BY MsgPositive
      <3> QED BY <3>1, <3>2
    <2>3. \A d \in Client : d # c => AtClient(d)' = AtClient(d)
      BY <2>1 DEF AtClient, TypeOK
    <2>4. AtClient(c) = {m} \cup Elems(events[c]) /\ AtClient(c)' = Elems(events[c])
      BY <2>1, <2>2 DEF AtClient, TypeOK
    <2>5. CanCome(x)' => CanCome(x)
      BY <2>1 DEF CanCome
    <2>6. CASE x = m
      <3>1. c \in Holders(x) /\ Holders(x)' = Holders(x) \ {c}
        BY <2>2, <2>3, <2>4, <2>6 DEF Holders
      <3>2. copies'[x] = copies[x] + 1
        BY <2>1, <2>6 DEF TypeOK
      <3> QED BY <1>0, <2>1, <2>5, <3>1, <3>2, CountMoved
    <2>7. CASE x # m
      <3>1. Holders(x)' = Holders(x)
        BY <2>3, <2>4, <2>7 DEF Holders
      <3>2. copies'[x] = copies[x]
        BY <2>1, <2>7 DEF TypeOK
      <3> QED BY <1>0, <2>1, <2>5, <3>1, <3>2, CountKept
    <2> QED BY <2>6, <2>7
  <1>7. ASSUME NEW c \in Client, Died(c) PROVE CountOk(x)'
    <2>1. /\ events' = [events EXCEPT ![c] = <<>>] /\ held' = [held EXCEPT ![c] = 0]
          /\ drops' = drops + 1 \/ UNCHANGED <<toClient, cursor, drops>>
          /\ copies' = copies
      BY <1>7 DEF Died
    <2>2. \A d \in Client : d # c => AtClient(d)' = AtClient(d)
      BY <2>1 DEF AtClient, TypeOK
    <2>3. AtClient(c)' = {}
      BY <2>1, ElemsEmpty DEF AtClient, TypeOK
    <2>4. drops' = drops + 1 \/ (drops' = drops /\ (CanCome(x)' => CanCome(x)))
      BY <2>1 DEF CanCome
    <2>5. CASE c \in Holders(x)
      <3>1. Holders(x)' = Holders(x) \ {c}
        BY <2>2, <2>3 DEF Holders
      <3> QED BY <1>0, <2>1, <2>4, <2>5, <3>1, CountMoved
    <2>6. CASE c \notin Holders(x)
      <3>1. Holders(x)' = Holders(x)
        BY <2>2, <2>3, <2>6 DEF Holders
      <3> QED BY <1>0, <2>1, <2>4, <3>1, CountKept
    <2> QED BY <2>5, <2>6
  <1> QED BY <1>1, <1>2, <1>3, <1>4, <1>5, <1>6, <1>7, LinkMoves

(* QoS 1 may deliver a message again, and several processes may have the   *)
(* client id, but no message goes through tx.send more often than one plus *)
(* the number of connections that ended: a connection sends a message      *)
(* once, and what a process has read it sends on once.                     *)
THEOREM DeliveriesBoundedHolds == Spec => []DeliveriesBounded
  <1>1. Init => CopiesCounted
    <2> SUFFICES ASSUME Init, NEW m \in Msg PROVE CountOk(m)
      BY DEF CopiesCounted
    <2>1. Holders(m) = {}
      <3>1. \A c \in Client : AtClient(c) = {}
        BY ElemsEmpty DEF Init, AtClient
      <3> QED BY <3>1 DEF Holders
    <2>2. IsFiniteSet(Holders(m)) /\ Cardinality(Holders(m)) = 0
      BY <2>1, FS_EmptySet
    <2>3. copies[m] = 0 /\ drops = 0
      BY DEF Init
    <2> QED BY <2>2, <2>3, ComingType DEF CountOk
  <1>2. TypeOK /\ CopiesCounted => DeliveriesBounded
    <2> SUFFICES ASSUME TypeOK, CopiesCounted, NEW m \in Msg PROVE copies[m] <= 1 + drops
      BY DEF DeliveriesBounded
    <2>1. Cardinality(Holders(m)) \in Nat /\ copies[m] + Cardinality(Holders(m)) + Coming(m) <= 1 + drops
      BY FS_CardinalityType DEF CopiesCounted, CountOk
    <2>2. copies[m] \in Nat /\ drops \in Nat
      BY DEF TypeOK
    <2> QED BY <2>1, <2>2, ComingType
  <1> QED BY <1>1, <1>2, CopiesCountedStep, LinkOrdered, LinkTypeCorrect, PTL DEF Spec

-----------------------------------------------------------------------------
(* The order of first arrivals                                             *)

(* A single process at a time has the client id: no rolling update.  With  *)
(* two the property is false, since a message that one of them still holds *)
(* does not hold up the other.                                             *)
OneProcess(c) == Client = {c}

OnTheWay(c) == Elems(toClient) \cup AtClient(c)

(* What has been sent has been published.                                  *)
SentPublished(c) ==
    /\ cursor <= published
    /\ \A n \in Msg : copies[n] > 0 => n <= published
    /\ \A n \in AtClient(c) : n <= published

(* Of two messages of which the older was never handled: it has not been   *)
(* overtaken by the newer one at any stage of the way, and cannot be,      *)
(* because the broker would send it first and the process hand it on first.*)
NotOvertaken(c, m, n) ==
    /\ copies[n] > 0 => m \notin due \cup OnTheWay(c)
    /\ n = held[c] => m \notin due \cup OnTheWay(c)
    /\ n \in Elems(events[c]) /\ m \in due \cup Elems(toClient) => m \in AtClient(c)

(* A message that the connection has passed is under way or was handled.   *)
NotSkipped(c, m) == m \in due /\ m <= cursor => m \in OnTheWay(c)

InLine(c) ==
    /\ SentPublished(c)
    /\ \A m \in Msg : copies[m] = 0 =>
         /\ NotSkipped(c, m)
         /\ \A n \in Msg : m < n => NotOvertaken(c, m, n)

(* Losing the connection, or a process, only takes messages off the way.   *)
LEMMA InLineCleared ==
  ASSUME TypeOK, NEW c \in Client, InLine(c), toClient' = <<>>, cursor' = 0,
         copies' = copies,
         due' \subseteq due, published' = published,
         \/ UNCHANGED <<events, held>>
         \/ Elems(events'[c]) = {} /\ held'[c] = 0
  PROVE  InLine(c)'
  <1>1. toClient' = <<>> /\ cursor' = 0 /\ Elems(toClient') = {}
    BY ElemsEmpty
  <1>2. /\ AtClient(c)' \subseteq AtClient(c)
        /\ Elems(events'[c]) \subseteq Elems(events[c])
        /\ held'[c] = held[c] \/ held'[c] = 0
        /\ AtClient(c)' = AtClient(c) \/ Elems(events'[c]) = {}
    BY DEF AtClient
  <1>3. SentPublished(c)'
    BY <1>1, <1>2 DEF InLine, SentPublished, TypeOK
  <1>4. ASSUME NEW m \in Msg, copies'[m] = 0 PROVE NotSkipped(c, m)'
    <2>1. ~(m <= 0)
      BY MsgPositive
    <2> QED BY <1>1, <2>1 DEF NotSkipped
  <1>5. ASSUME NEW m \in Msg, copies'[m] = 0, NEW n \in Msg, m < n PROVE NotOvertaken(c, m, n)'
    <2>1. NotOvertaken(c, m, n) /\ n # 0
      BY <1>5, MsgPositive DEF InLine
    <2> QED BY <1>1, <1>2, <2>1 DEF NotOvertaken, OnTheWay
  <1> QED BY <1>3, <1>4, <1>5 DEF InLine

(* Nor does what the broker forgets put a message out of line.             *)
LEMMA InLineKept ==
  ASSUME TypeOK, NEW c \in Client, InLine(c), due' \subseteq due, published' = published,
         UNCHANGED <<toClient, cursor, events, held, copies>>
  PROVE  InLine(c)'
  BY DEF InLine, SentPublished, NotSkipped, NotOvertaken, OnTheWay, AtClient

LEMMA InLinePublish ==
  ASSUME TypeOK, LinkOrder, NEW c \in Client, InLine(c), Publish
  PROVE  InLine(c)'
  <1>1. /\ published' = published + 1 /\ published \in Nat /\ due' \subseteq due \cup {published + 1}
        /\ UNCHANGED <<toClient, cursor, events, held, copies>>
    BY DEF Publish, TypeOK, link, ingest
  <1>2. AtClient(c)' = AtClient(c) /\ OnTheWay(c)' = OnTheWay(c)
    BY <1>1 DEF AtClient, OnTheWay
  <1>3. /\ \A n \in Msg : n \in Nat /\ copies[n] \in Nat
        /\ AtClient(c) \subseteq Msg /\ cursor \in Nat
    BY MsgPositive, AtClientType DEF TypeOK
  <1>4. SentPublished(c)'
    <2>1. cursor <= published + 1
      BY <1>1, <1>3 DEF InLine, SentPublished
    <2>2. \A n \in Msg : copies[n] > 0 => n <= published + 1
      BY <1>1, <1>3 DEF InLine, SentPublished
    <2>3. \A n \in AtClient(c) : n <= published + 1
      BY <1>1, <1>3 DEF InLine, SentPublished
    <2> QED BY <1>1, <1>2, <2>1, <2>2, <2>3 DEF SentPublished
  <1>5. ASSUME NEW m \in Msg, copies'[m] = 0 PROVE NotSkipped(c, m)'
    <2>1. ~(published + 1 <= cursor)
      BY <1>1, <1>3 DEF InLine, SentPublished
    <2>2. NotSkipped(c, m)
      BY <1>1, <1>5 DEF InLine
    <2> QED BY <1>1, <1>2, <2>1, <2>2 DEF NotSkipped
  <1>6. ASSUME NEW m \in Msg, copies'[m] = 0, NEW n \in Msg, m < n PROVE NotOvertaken(c, m, n)'
    <2>1. NotOvertaken(c, m, n)
      BY <1>1, <1>6 DEF InLine
    <2>2. CASE m # published + 1
      BY <1>1, <1>2, <2>1, <2>2 DEF NotOvertaken
    <2>3. CASE m = published + 1
      <3>1. ~(n <= published)
        BY <1>1, <1>3, <1>6, <2>3
      <3>2. ~(copies[n] > 0) /\ n \notin AtClient(c)
        BY <3>1 DEF InLine, SentPublished
      <3>3. n # held[c] /\ n \notin Elems(events[c])
        BY <3>2, MsgPositive DEF AtClient
      <3> QED BY <1>1, <3>2, <3>3 DEF NotOvertaken
    <2> QED BY <2>2, <2>3
  <1> QED BY <1>4, <1>5, <1>6 DEF InLine

LEMMA InLineSent ==
  ASSUME TypeOK, NEW c \in Client, InLine(c), NEW s \in Msg, SentOn(s)
  PROVE  InLine(c)'
  <1>1. /\ s \in due /\ s > cursor /\ cursor' = s
        /\ \A n \in due : n > cursor => s <= n
        /\ UNCHANGED <<due, published, events, held, copies>>
    BY DEF SentOn
  <1>2. Elems(toClient') = Elems(toClient) \cup {s}
    BY ElemsAppend DEF SentOn, TypeOK
  <1>3. AtClient(c)' = AtClient(c) /\ OnTheWay(c)' = OnTheWay(c) \cup {s}
    BY <1>1, <1>2 DEF AtClient, OnTheWay
  <1>4. s \in Nat /\ cursor \in Nat /\ \A m \in Msg : m \in Nat
    BY MsgPositive DEF TypeOK
  <1>5. SentPublished(c)'
    <2>1. s <= published
      BY <1>1 DEF TypeOK
    <2> QED BY <1>1, <1>3, <2>1 DEF InLine, SentPublished
  <1>6. ASSUME NEW m \in Msg, copies'[m] = 0 PROVE NotSkipped(c, m)'
    <2>1. NotSkipped(c, m)
      BY <1>1, <1>6 DEF InLine
    <2>2. m \in due /\ m <= s => m <= cursor \/ m = s
      BY <1>1, <1>4
    <2> QED BY <1>1, <1>3, <2>1, <2>2 DEF NotSkipped
  <1>7. ASSUME NEW m \in Msg, copies'[m] = 0, NEW n \in Msg, m < n PROVE NotOvertaken(c, m, n)'
    <2>1. NotOvertaken(c, m, n)
      BY <1>1, <1>7 DEF InLine
    <2> QED BY <1>1, <1>2, <1>3, <2>1 DEF NotOvertaken
  <1> QED BY <1>5, <1>6, <1>7 DEF InLine

LEMMA InLineRead ==
  ASSUME TypeOK, LinkOrder, NEW c \in Client, InLine(c), NEW k \in 1 .. Len(toClient),
         BatchRead(c, k)
  PROVE  InLine(c)'
  <1> DEFINE batch == SubSeq(toClient, 1, k)
             rest  == SubSeq(toClient, k + 1, Len(toClient))
  <1>1. /\ Elems(toClient) = Elems(batch) \cup Elems(rest)
        /\ \A m \in Elems(batch), n \in Elems(rest) : m < n
    BY IncreasingParts DEF TypeOK, LinkOrder, InPipe
  <1>2. /\ events[c] = <<>> /\ events' = [events EXCEPT ![c] = batch]
        /\ held[c] = 0 /\ held' = held /\ copies' = copies
        /\ due' = due /\ published' = published
        /\ \/ toClient' = rest /\ cursor' = cursor
           \/ toClient' = <<>> /\ cursor' = 0
    BY DEF BatchRead, LinkCleared
  <1> HIDE DEF batch, rest
  <1>3. /\ AtClient(c) = {} /\ AtClient(c)' = Elems(batch) /\ Elems(events'[c]) = Elems(batch)
        /\ OnTheWay(c) = Elems(toClient)
    BY <1>2, ElemsEmpty DEF AtClient, TypeOK, OnTheWay
  <1>4. /\ Elems(toClient') \subseteq Elems(rest)
        /\ toClient' = rest \/ Elems(toClient') = {}
    BY <1>2, ElemsEmpty
  <1>5. OnTheWay(c)' \subseteq OnTheWay(c)
    BY <1>1, <1>3, <1>4 DEF OnTheWay
  <1>6. \A n \in Elems(batch) : n \in Msg /\ n <= cursor
    BY <1>1, ElemsMsg DEF LinkOrder, InPipe, TypeOK
  <1>7. cursor \in Nat /\ published \in Nat /\ \A n \in Msg : n \in Nat /\ 0 < n
    BY MsgPositive DEF TypeOK
  <1>8. SentPublished(c)'
    <2>1. cursor' <= published
      BY <1>2, <1>7 DEF InLine, SentPublished
    <2>2. \A n \in Elems(batch) : n <= published
      BY <1>6, <1>7 DEF InLine, SentPublished
    <2> QED BY <1>2, <1>3, <2>1, <2>2 DEF InLine, SentPublished
  <1>9. ASSUME NEW m \in Msg, copies'[m] = 0 PROVE NotSkipped(c, m)'
    <2>1. CASE toClient' = rest /\ cursor' = cursor
      <3>1. OnTheWay(c)' = OnTheWay(c)
        BY <1>1, <1>3, <2>1 DEF OnTheWay
      <3> QED BY <1>2, <1>9, <2>1, <3>1 DEF InLine, NotSkipped
    <2>2. CASE cursor' = 0
      <3>1. ~(m <= 0)
        BY <1>7
      <3> QED BY <2>2, <3>1 DEF NotSkipped
    <2> QED BY <1>2, <2>1, <2>2
  <1>10. ASSUME NEW m \in Msg, copies'[m] = 0, NEW n \in Msg, m < n PROVE NotOvertaken(c, m, n)'
    <2>1. NotOvertaken(c, m, n) /\ NotSkipped(c, m) /\ n # 0
      BY <1>2, <1>7, <1>10 DEF InLine
    <2>2. copies'[n] > 0 => m \notin due' \cup OnTheWay(c)'
      BY <1>2, <1>5, <2>1 DEF NotOvertaken
    <2>3. ASSUME n \in Elems(batch), m \in due \cup Elems(toClient') PROVE m \in Elems(batch)
      <3>1. m \notin Elems(rest)
        BY <1>1, <1>7, <1>10, <2>3
      <3>2. m <= cursor
        <4>1. n <= cursor
          BY <1>6, <2>3
        <4> QED BY <1>7, <1>10, <4>1
      <3>3. m \in Elems(toClient)
        BY <1>3, <1>4, <2>1, <2>3, <3>1, <3>2 DEF NotSkipped
      <3> QED BY <1>1, <3>1, <3>3
    <2> QED BY <1>2, <1>3, <2>1, <2>2, <2>3 DEF NotOvertaken
  <1> QED BY <1>8, <1>9, <1>10 DEF InLine

LEMMA InLinePassed ==
  ASSUME TypeOK, LinkOrder, NEW c \in Client, InLine(c), NEW h \in Msg, PassedOn(c, h)
  PROVE  InLine(c)'
  <1> DEFINE rest == Elems(Tail(events[c]))
  <1>1. /\ events[c] \in Seq(Msg) /\ events[c] # <<>> /\ h = Head(events[c])
        /\ Increasing(events[c])
    BY DEF PassedOn, TypeOK, LinkOrder, InHand
  <1>2. Elems(events[c]) = {h} \cup rest /\ \A n \in rest : h < n
    BY <1>1, IncreasingTail, ElemsTail
  <1>3. /\ events' = [events EXCEPT ![c] = Tail(events[c])] /\ held[c] = 0
        /\ \/ copies' = [copies EXCEPT ![h] = @ + 1] /\ held' = held
           \/ held' = [held EXCEPT ![c] = h] /\ copies' = copies
        /\ UNCHANGED <<due, published, toClient, cursor>>
    BY DEF PassedOn
  <1>4. Elems(events'[c]) = rest
    BY <1>3 DEF TypeOK
  <1> HIDE DEF rest
  <1>5. /\ \A n \in Msg : n \in Nat /\ 0 < n /\ copies[n] \in Nat
        /\ h \in Nat
    BY MsgPositive DEF TypeOK
  <1>6. AtClient(c) = {h} \cup rest
    BY <1>2, <1>3 DEF AtClient
  <1>7. \A m \in Msg : m < h => m # h /\ m \notin rest
    BY <1>2, <1>5
  <1>8. CASE copies' = [copies EXCEPT ![h] = @ + 1] /\ held' = held
    <2>1. AtClient(c)' = rest
      BY <1>3, <1>4, <1>8 DEF AtClient
    <2>2. copies'[h] = copies[h] + 1 /\ \A n \in Msg : n # h => copies'[n] = copies[n]
      BY <1>8 DEF TypeOK
    <2>3. copies'[h] # 0 /\ copies'[h] > 0
      BY <1>5, <2>2
    <2>4. SentPublished(c)'
      <3>1. h <= published
        BY <1>6 DEF InLine, SentPublished
      <3> QED BY <1>3, <1>6, <2>1, <2>2, <3>1 DEF InLine, SentPublished
    <2>5. ASSUME NEW m \in Msg, copies'[m] = 0 PROVE NotSkipped(c, m)'
      <3>1. m # h /\ NotSkipped(c, m)
        BY <2>2, <2>3, <2>5 DEF InLine
      <3> QED BY <1>3, <1>6, <2>1, <3>1 DEF NotSkipped, OnTheWay
    <2>6. ASSUME NEW m \in Msg, copies'[m] = 0, NEW n \in Msg, m < n PROVE NotOvertaken(c, m, n)'
      <3>1. m # h /\ NotOvertaken(c, m, n) /\ n # 0
        BY <1>5, <2>2, <2>3, <2>6 DEF InLine
      <3>2. CASE n = h
        <4>1. m \notin AtClient(c)
          BY <1>6, <1>7, <2>6, <3>2
        <4>2. m \notin due \cup Elems(toClient)
          BY <1>2, <3>1, <3>2, <4>1 DEF NotOvertaken
        <4>3. m \notin due' \cup OnTheWay(c)'
          BY <1>3, <1>6, <2>1, <4>1, <4>2 DEF OnTheWay
        <4>4. n \notin Elems(events'[c])
          BY <1>2, <1>4, <1>5, <3>2
        <4> QED BY <4>3, <4>4 DEF NotOvertaken
      <3>3. CASE n # h
        <4>1. copies'[n] = copies[n]
          BY <2>2, <3>3
        <4> QED BY <1>2, <1>3, <1>4, <1>6, <1>8, <2>1, <3>1, <4>1 DEF NotOvertaken, OnTheWay
      <3> QED BY <3>2, <3>3
    <2> QED BY <2>4, <2>5, <2>6 DEF InLine
  <1>9. CASE held' = [held EXCEPT ![c] = h] /\ copies' = copies
    <2>1. held'[c] = h /\ h # 0
      BY <1>5, <1>9 DEF TypeOK
    <2>2. AtClient(c)' = AtClient(c) /\ OnTheWay(c)' = OnTheWay(c)
      BY <1>3, <1>4, <1>6, <2>1 DEF AtClient, OnTheWay
    <2>3. SentPublished(c)'
      BY <1>3, <1>9, <2>2 DEF InLine, SentPublished
    <2>4. ASSUME NEW m \in Msg, copies'[m] = 0 PROVE NotSkipped(c, m)'
      BY <1>3, <1>9, <2>2, <2>4 DEF InLine, NotSkipped
    <2>5. ASSUME NEW m \in Msg, copies'[m] = 0, NEW n \in Msg, m < n PROVE NotOvertaken(c, m, n)'
      <3>1. NotOvertaken(c, m, n)
        BY <1>9, <2>5 DEF InLine
      <3>2. n = h => m \notin due \cup OnTheWay(c)
        <4>1. n = h => m \notin AtClient(c)
          BY <1>6, <1>7, <2>5
        <4> QED BY <1>2, <3>1, <4>1 DEF NotOvertaken, OnTheWay
      <3> QED BY <1>2, <1>3, <1>4, <1>9, <2>1, <2>2, <3>1, <3>2 DEF NotOvertaken
    <2> QED BY <2>3, <2>4, <2>5 DEF InLine
  <1> QED BY <1>3, <1>8, <1>9

LEMMA InLineFreed ==
  ASSUME TypeOK, LinkOrder, NEW c \in Client, InLine(c), NEW h \in Msg, Freed(c, h)
  PROVE  InLine(c)'
  <1>1. /\ h = held[c] /\ held' = [held EXCEPT ![c] = 0]
        /\ copies' = [copies EXCEPT ![h] = @ + 1]
        /\ UNCHANGED <<due, published, toClient, cursor, events>>
    BY DEF Freed
  <1>2. \A n \in Msg : n \in Nat /\ 0 < n /\ copies[n] \in Nat
    BY MsgPositive DEF TypeOK
  <1>3. held'[c] = 0 /\ h # 0
    BY <1>1, <1>2 DEF TypeOK
  <1>4. AtClient(c) = Elems(events[c]) \cup {h} /\ AtClient(c)' = Elems(events[c])
    BY <1>1, <1>3 DEF AtClient
  <1>5. copies'[h] = copies[h] + 1 /\ \A n \in Msg : n # h => copies'[n] = copies[n]
    BY <1>1 DEF TypeOK
  <1>6. copies'[h] # 0
    BY <1>2, <1>5
  <1>7. SentPublished(c)'
    <2>1. h <= published
      BY <1>4 DEF InLine, SentPublished
    <2> QED BY <1>1, <1>4, <1>5, <2>1 DEF InLine, SentPublished
  <1>8. ASSUME NEW m \in Msg, copies'[m] = 0 PROVE NotSkipped(c, m)'
    <2>1. m # h /\ NotSkipped(c, m)
      BY <1>5, <1>6, <1>8 DEF InLine
    <2> QED BY <1>1, <1>4, <2>1 DEF NotSkipped, OnTheWay
  <1>9. ASSUME NEW m \in Msg, copies'[m] = 0, NEW n \in Msg, m < n PROVE NotOvertaken(c, m, n)'
    <2>1. m # h /\ NotOvertaken(c, m, n) /\ n # 0
      BY <1>2, <1>5, <1>6, <1>9 DEF InLine
    <2>2. copies'[n] > 0 => copies[n] > 0 \/ n = held[c]
      BY <1>1, <1>5
    <2> QED BY <1>1, <1>3, <1>4, <2>1, <2>2 DEF NotOvertaken, OnTheWay
  <1> QED BY <1>7, <1>8, <1>9 DEF InLine

LEMMA InLineStep ==
  ASSUME TypeOK, LinkOrder, NEW c \in Client, OneProcess(c), InLine(c), [Next]_vars
  PROVE  InLine(c)'
  <1> USE DEF broker, link, ingest, history
  <1>1. CASE Publish
    BY <1>1, InLinePublish
  <1>2. CASE \E m \in Msg : SentOn(m)
    BY <1>2, InLineSent
  <1>3. CASE \E k \in 1 .. Len(toClient) : BatchRead(c, k)
    BY <1>3, InLineRead
  <1>4. CASE \E m \in Msg : PassedOn(c, m)
    BY <1>4, InLinePassed
  <1>5. CASE \E m \in Msg : Freed(c, m)
    BY <1>5, InLineFreed
  <1>6. CASE ~Publish /\ (Untouched \/ LinkLost \/ Died(c))
    <2>1. due' \subseteq due /\ published' = published
      <3>1. CASE Died(c)
        BY <3>1 DEF Died
      <3>2. CASE Untouched \/ LinkLost
        BY <1>6 DEF Next, BrokerSend, BrokerReceive, Disconnect, BrokerCrash, BrokerStart,
                    Start, Connect, ConnectErr, Wake, PollErr, Read, ReadErr, SendRequest,
                    Handle, Unblock, Crash, vars
      <3> QED BY <1>6, <3>1, <3>2
    <2>2. CASE Untouched
      BY <2>1, <2>2, InLineKept DEF Untouched
    <2>3. CASE LinkLost
      BY <2>1, <2>3, InLineCleared DEF LinkLost, LinkCleared
    <2>4. CASE Died(c)
      <3>1. /\ copies' = copies /\ events'[c] = <<>> /\ held'[c] = 0
            /\ Elems(events'[c]) = {}
        BY <2>4, ElemsEmpty DEF Died, TypeOK
      <3>2. CASE conn = c /\ LinkCleared
        BY <2>1, <3>1, <3>2, InLineCleared DEF LinkCleared
      <3>3. CASE conn # c /\ UNCHANGED <<toClient, cursor>>
        <4>1. conn = None
          BY <3>3 DEF OneProcess, TypeOK
        <4>2. toClient' = <<>> /\ cursor' = 0
          BY <3>3, <4>1 DEF LinkOrder
        <4> QED BY <2>1, <3>1, <4>2, InLineCleared
      <3> QED BY <2>4, <3>2, <3>3 DEF Died
    <2> QED BY <1>6, <2>2, <2>3, <2>4
  <1>7. \A d \in Client : d = c
    BY DEF OneProcess
  <1> QED BY <1>1, <1>2, <1>3, <1>4, <1>5, <1>6, <1>7, LinkMoves

LEMMA OneProcessInLine ==
  ASSUME NEW c \in Client, OneProcess(c)
  PROVE  Spec => []InLine(c)
  <1>1. Init => InLine(c)
    <2> SUFFICES ASSUME Init PROVE InLine(c)
      OBVIOUS
    <2>1. AtClient(c) = {} /\ events[c] = <<>> /\ Elems(events[c]) = {} /\ held[c] = 0
      BY ElemsEmpty DEF Init, AtClient
    <2>2. due = {} /\ cursor = 0 /\ published = 0 /\ \A n \in Msg : copies[n] = 0
      BY DEF Init
    <2>3. \A n \in Msg : n # 0
      BY MsgPositive
    <2> QED BY <2>1, <2>2, <2>3 DEF InLine, SentPublished, NotSkipped, NotOvertaken
  <1> QED BY <1>1, InLineStep, LinkOrdered, LinkTypeCorrect, PTL DEF Spec

(* The batcher gets the messages for the first time in the order of their  *)
(* publication, whatever connections, batches and restarts lie between:    *)
(* what is handled for the first time is newer than all handled before.    *)
THEOREM FirstArrivalsInOrderHolds ==
  ASSUME NEW c \in Client, OneProcess(c)
  PROVE  Spec => FirstArrivalsInOrder
  <1>1. ASSUME TypeOK, InLine(c), [Next]_vars,
               NEW m \in Msg, copies[m] = 0, copies'[m] = 1, NEW n \in Msg, n > m
        PROVE  copies[n] = 0
    <2>1. copies[n] \in Nat /\ NotOvertaken(c, m, n)
      BY <1>1 DEF InLine, TypeOK
    <2>2. m \in AtClient(c)
      <3>1. \E h \in Msg : PassedOn(c, h) \/ Freed(c, h)
        <4>1. copies' # copies /\ \A d \in Client : d = c
          BY <1>1 DEF OneProcess
        <4>2. ~Untouched /\ ~LinkLost /\ ~Died(c)
          BY <4>1 DEF Untouched, LinkLost, Died
        <4>3. (\A s \in Msg : ~SentOn(s)) /\ \A k \in 1 .. Len(toClient) : ~BatchRead(c, k)
          BY <4>1 DEF SentOn, BatchRead
        <4> QED BY <1>1, <4>1, <4>2, <4>3, LinkMoves
      <3> PICK h \in Msg : PassedOn(c, h) \/ Freed(c, h)
        BY <3>1
      <3>2. h \in AtClient(c)
        <4>1. CASE PassedOn(c, h)
          BY <1>1, <4>1, ElemsTail DEF PassedOn, TypeOK, AtClient
        <4>2. CASE Freed(c, h)
          BY <4>2, MsgPositive DEF Freed, AtClient
        <4> QED BY <4>1, <4>2
      <3>3. copies' = [copies EXCEPT ![h] = @ + 1] \/ copies' = copies
        BY DEF PassedOn, Freed
      <3>4. m = h
        BY <1>1, <3>3 DEF TypeOK
      <3> QED BY <3>2, <3>4
    <2>3. ~(copies[n] > 0)
      BY <2>1, <2>2 DEF NotOvertaken, OnTheWay
    <2> QED BY <2>1, <2>3
  <1>2. TypeOK /\ InLine(c) /\ [Next]_vars
          => [\A m \in Msg : copies[m] = 0 /\ copies'[m] = 1
                               => \A n \in Msg : n > m => copies[n] = 0]_vars
    BY <1>1
  <1> QED BY <1>2, OneProcessInLine, LinkTypeCorrect, PTL DEF Spec, FirstArrivalsInOrder
=============================================================================
