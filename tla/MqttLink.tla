------------------------------ MODULE MqttLink ------------------------------
(***************************************************************************)
(* services/ingester/src/main.rs, mqtt_loop: the path of a message from    *)
(* the broker to tx.send, over connections that break.                     *)
(*                                                                         *)
(*   rumqttd: due --toClient--> rumqttc: events --mqtt_loop--> tx.send     *)
(*            due <--toBroker-- acknowledgements, SUBSCRIBE                *)
(*                                                                         *)
(* The ingester opens a persistent session (clean_session false) under a   *)
(* fixed client id.  rumqttc acknowledges a PUBLISH when it reads it, so   *)
(* before mqtt_loop sees it.  A client is one process with that id: two of *)
(* them exist during a rolling update, and the broker lets the latest one  *)
(* have the session.                                                       *)
(*                                                                         *)
(* rumqttd and rumqttc are outside src/: they are modelled by what the     *)
(* configuration and mqtt_loop rely on.  Messages are numbered in the      *)
(* order in which the broker accepted them.  Times (keep-alive, back-off)  *)
(* are left out: a connection may drop at any moment, a sleep ends.        *)
(***************************************************************************)
EXTENDS Naturals, Sequences, FiniteSets

CONSTANTS
    Client,      \* the processes that use MQTT_CLIENT_ID
    None,        \* no connection
    LogCap,      \* messages the broker's log of sensors/# retains
    ReqCap,      \* AsyncClient::new's request channel (100 at main.rs:159)
    MaxMsg,      \* bound: messages published
    MaxDrops,    \* bound: connections that end
    MaxCrashes   \* bound: ingester processes that die

ASSUME ClientAssumption == None \notin Client

ASSUME LinkBounds ==
    /\ LogCap \in Nat \ {0} /\ ReqCap \in Nat \ {0}
    /\ MaxMsg \in Nat /\ MaxDrops \in Nat /\ MaxCrashes \in Nat

Msg == 1 .. MaxMsg

(* What a client sends: SUBSCRIBE, or the acknowledgement of a message.    *)
Subscribe == 0

VARIABLES
    alive,       \* the broker runs
    session,     \* the broker knows the client id
    subscribed,  \* the session's subscription to sensors/#
    published,   \* messages the broker has accepted and acknowledged
    due,         \* of those, the retained ones the session has not acknowledged
    cursor,      \* the last one sent on the present connection, 0 for none
    conn,        \* the client connected, as the broker sees it
    toClient,    \* the connection, broker to client
    toBroker,    \* the connection, client to broker
    pc,          \* mqtt_loop: "off", "poll", "sleep" (back-off) or "send"
    net,         \* rumqttc's network: "none", "up" or "broken" (not noticed)
    events,      \* rumqttc: messages read and acknowledged, not yet returned
    held,        \* the message blocked in tx.send, or 0
    queue,       \* subscribe requests in the request channel
    pending,     \* requests rumqttc saved when a connection ended
    copies,      \* history: how often each message went through tx.send
    gone,        \* history: pushed out of the log, or died with a process
    forgotten,   \* history: what the broker still owed when it ended
    unheard,     \* history: accepted while nothing was subscribed
    drops,       \* history: connections that ended
    crashes      \* history: processes that died

broker  == <<alive, session, subscribed, published, due, cursor, conn>>
link    == <<toClient, toBroker>>
ingest  == <<pc, net, events, held, queue, pending>>
losses  == <<gone, forgotten, unheard>>
history == <<copies, losses, drops, crashes>>
vars    == <<broker, link, ingest, history>>

Elems(q) == {q[i] : i \in 1 .. Len(q)}

(* What the process has taken responsibility for.                          *)
AtClient(c) == Elems(events[c]) \cup ({held[c]} \ {0})

Oldest(S) == CHOOSE m \in S : \A n \in S : m <= n

-----------------------------------------------------------------------------
Init == /\ alive = TRUE /\ session = FALSE /\ subscribed = FALSE
        /\ published = 0 /\ due = {} /\ cursor = 0 /\ conn = None
        /\ toClient = <<>> /\ toBroker = <<>>
        /\ pc = [c \in Client |-> "off"]
        /\ net = [c \in Client |-> "none"]
        /\ events = [c \in Client |-> <<>>]
        /\ held = [c \in Client |-> 0]
        /\ queue = [c \in Client |-> 0]
        /\ pending = [c \in Client |-> 0]
        /\ copies = [m \in Msg |-> 0]
        /\ gone = {} /\ forgotten = {} /\ unheard = {}
        /\ drops = 0 /\ crashes = 0

(* The connection goes, with what was on its way.  The other side notices  *)
(* in its own time.                                                        *)
LinkCleared == /\ toClient' = <<>> /\ toBroker' = <<>>
               /\ cursor' = 0

Ended == /\ drops < MaxDrops
         /\ drops' = drops + 1

-----------------------------------------------------------------------------
(* The broker                                                              *)

(* A publisher's message is accepted: it is logged for the subscription,   *)
(* pushing out the oldest entry of a full log, or has nobody to go to.     *)
Publish ==
    /\ alive /\ published < MaxMsg
    /\ published' = published + 1
    /\ \/ /\ subscribed /\ Cardinality(due) < LogCap
          /\ due' = due \cup {published + 1}
          /\ UNCHANGED <<gone, unheard>>
       \/ /\ subscribed /\ Cardinality(due) >= LogCap
          /\ due' = (due \ {Oldest(due)}) \cup {published + 1}
          /\ gone' = gone \cup {Oldest(due)}
          /\ UNCHANGED unheard
       \/ /\ ~subscribed
          /\ unheard' = unheard \cup {published + 1}
          /\ UNCHANGED <<due, gone>>
    /\ UNCHANGED <<alive, session, subscribed, cursor, conn, link, ingest,
                   copies, forgotten, drops, crashes>>

BrokerSend ==
    LET unsent == {m \in due : m > cursor}
    IN /\ conn # None /\ unsent # {}
       /\ toClient' = Append(toClient, Oldest(unsent))
       /\ cursor' = Oldest(unsent)
       /\ UNCHANGED <<alive, session, subscribed, published, due, conn, toBroker,
                      ingest, history>>

BrokerReceive ==
    /\ conn # None /\ toBroker # <<>>
    /\ toBroker' = Tail(toBroker)
    /\ \/ /\ Head(toBroker) = Subscribe
          /\ subscribed' = TRUE
          /\ UNCHANGED due
       \/ /\ Head(toBroker) # Subscribe
          /\ due' = due \ {Head(toBroker)}
          /\ UNCHANGED subscribed
    /\ UNCHANGED <<alive, session, published, cursor, conn, toClient, ingest, history>>

(* The network fails, or the client was silent for longer than its         *)
(* keep-alive because mqtt_loop is blocked in tx.send.                     *)
Disconnect ==
    /\ conn # None
    /\ net' = [net EXCEPT ![conn] = "broken"]
    /\ conn' = None
    /\ LinkCleared /\ Ended
    /\ UNCHANGED <<alive, session, subscribed, published, due, pc, events, held,
                   queue, pending, copies, losses, crashes>>

(* The broker keeps everything in memory.                                  *)
BrokerCrash ==
    /\ alive
    /\ alive' = FALSE /\ session' = FALSE /\ subscribed' = FALSE
    /\ due' = {} /\ forgotten' = forgotten \cup due
    /\ conn' = None
    /\ net' = [c \in Client |-> IF c = conn THEN "broken" ELSE net[c]]
    /\ LinkCleared /\ Ended
    /\ UNCHANGED <<published, pc, events, held, queue, pending, copies, gone, unheard,
                   crashes>>

BrokerStart ==
    /\ ~alive
    /\ alive' = TRUE
    /\ UNCHANGED <<session, subscribed, published, due, cursor, conn, link, ingest,
                   history>>

-----------------------------------------------------------------------------
(* mqtt_loop and the rumqttc event loop it polls                           *)

Requested_FirstOnly(c) == IF drops = 0 THEN queue[c] + 1 ELSE queue[c]   \* mutant

(* client.subscribe on every ConnAck.                                      *)
Requested(c) == queue[c] + 1

(* poll() without a network connects, ends the connection of any other     *)
(* process with this client id, and returns the ConnAck.  Saved requests   *)
(* are only kept for a session the broker still knows.  The subscribe that *)
(* follows awaits a free slot of the request channel.                      *)
Connect(c) ==
    /\ pc[c] = "poll" /\ net[c] = "none" /\ alive
    /\ queue[c] < ReqCap
    /\ \/ conn = None /\ UNCHANGED drops
       \/ conn # None /\ Ended
    /\ net' = [d \in Client |-> IF d = c THEN "up"
                                ELSE IF d = conn THEN "broken" ELSE net[d]]
    /\ conn' = c
    /\ LinkCleared
    /\ session' = TRUE
    /\ pending' = [pending EXCEPT ![c] = IF session THEN @ ELSE 0]
    /\ queue' = [queue EXCEPT ![c] = Requested(c)]
    /\ UNCHANGED <<alive, subscribed, published, due, pc, events, held, copies, losses,
                   crashes>>

(* The broker is away or refuses: the error arm, then the back-off sleep.  *)
ConnectErr(c) ==
    /\ pc[c] = "poll" /\ net[c] = "none"
    /\ pc' = [pc EXCEPT ![c] = "sleep"]
    /\ UNCHANGED <<broker, link, net, events, held, queue, pending, history>>

Wake(c) ==
    /\ pc[c] = "sleep"
    /\ pc' = [pc EXCEPT ![c] = "poll"]
    /\ UNCHANGED <<broker, link, net, events, held, queue, pending, history>>

Saved_NotDrained(c) == /\ pending' = pending   \* mutant: the channel is left alone
                       /\ queue' = queue

(* rumqttc saves the requests it had not sent.                             *)
Saved(c) == /\ pending' = [pending EXCEPT ![c] = @ + queue[c]]
            /\ queue' = [queue EXCEPT ![c] = 0]

(* poll() notices that the connection is gone: the error arm.              *)
PollErr(c) ==
    /\ pc[c] = "poll" /\ net[c] = "broken" /\ events[c] = <<>>
    /\ net' = [net EXCEPT ![c] = "none"]
    /\ pc' = [pc EXCEPT ![c] = "sleep"]
    /\ Saved(c)
    /\ UNCHANGED <<broker, link, events, held, history>>

(* poll() reads a batch of k messages and acknowledges them.               *)
Read(c, k) ==
    /\ pc[c] = "poll" /\ net[c] = "up" /\ events[c] = <<>>
    /\ events' = [events EXCEPT ![c] = SubSeq(toClient, 1, k)]
    /\ toClient' = SubSeq(toClient, k + 1, Len(toClient))
    /\ toBroker' = toBroker \o SubSeq(toClient, 1, k)
    /\ UNCHANGED <<broker, pc, net, held, queue, pending, history>>

(* The same, but the acknowledgements cannot be written: poll() returns    *)
(* the error, and the batch stays in the event loop.                       *)
ReadErr(c, k) ==
    /\ pc[c] = "poll" /\ net[c] = "up" /\ events[c] = <<>>
    /\ events' = [events EXCEPT ![c] = SubSeq(toClient, 1, k)]
    /\ net' = [net EXCEPT ![c] = "none"]
    /\ pc' = [pc EXCEPT ![c] = "sleep"]
    /\ Saved(c)
    /\ conn' = None
    /\ LinkCleared /\ Ended
    /\ UNCHANGED <<alive, session, subscribed, published, due, held, copies, losses,
                   crashes>>

(* poll() sends one request, the saved ones first.                         *)
SendRequest(c) ==
    /\ pc[c] = "poll" /\ net[c] = "up" /\ events[c] = <<>>
    /\ \/ /\ pending[c] > 0
          /\ pending' = [pending EXCEPT ![c] = @ - 1]
          /\ UNCHANGED queue
       \/ /\ pending[c] = 0 /\ queue[c] > 0
          /\ queue' = [queue EXCEPT ![c] = @ - 1]
          /\ UNCHANGED pending
    /\ toBroker' = Append(toBroker, Subscribe)
    /\ UNCHANGED <<broker, toClient, pc, net, events, held, history>>

Blocked_TrySend(c, m) ==   \* mutant: try_send, the error ignored
    UNCHANGED <<pc, held, copies>>

(* The channel to the batcher is full: the loop stays in tx.send.          *)
Blocked(c, m) ==
    /\ pc' = [pc EXCEPT ![c] = "send"]
    /\ held' = [held EXCEPT ![c] = m]
    /\ UNCHANGED copies

Returned_Last(c) == events[c][Len(events[c])]   \* mutant: newest event first

(* The event poll() returns.                                               *)
Returned(c) == Head(events[c])

Rest_Kept(c) == events[c]   \* mutant: the event is not removed

Rest(c) == Tail(events[c])

(* poll() returns an event read before, whatever the network does, and     *)
(* the Publish arm hands it to the batcher (or to the parse error counter).*)
Handle(c) ==
    /\ pc[c] = "poll" /\ net[c] # "none" /\ events[c] # <<>>
    /\ events' = [events EXCEPT ![c] = Rest(c)]
    /\ \/ /\ copies' = [copies EXCEPT ![Returned(c)] = @ + 1]
          /\ UNCHANGED <<pc, held>>
       \/ Blocked(c, Returned(c))
    /\ UNCHANGED <<broker, link, net, queue, pending, losses, drops, crashes>>

Released_Kept(c) == UNCHANGED held   \* mutant: the message is sent from a copy

Released(c) == held' = [held EXCEPT ![c] = 0]

(* The batcher has taken something out of the channel.                     *)
Unblock(c) ==
    /\ pc[c] = "send"
    /\ pc' = [pc EXCEPT ![c] = "poll"]
    /\ Released(c)
    /\ copies' = [copies EXCEPT ![held[c]] = @ + 1]
    /\ UNCHANGED <<broker, link, net, events, queue, pending, losses, drops, crashes>>

(* The process dies, killed or because the batcher is gone (main.rs:182).  *)
Crash(c) ==
    /\ pc[c] # "off" /\ crashes < MaxCrashes
    /\ crashes' = crashes + 1
    /\ gone' = gone \cup AtClient(c)
    /\ pc' = [pc EXCEPT ![c] = "off"]
    /\ net' = [net EXCEPT ![c] = "none"]
    /\ events' = [events EXCEPT ![c] = <<>>]
    /\ held' = [held EXCEPT ![c] = 0]
    /\ queue' = [queue EXCEPT ![c] = 0]
    /\ pending' = [pending EXCEPT ![c] = 0]
    /\ \/ /\ conn = c
          /\ conn' = None
          /\ LinkCleared /\ Ended
       \/ /\ conn # c
          /\ UNCHANGED <<conn, cursor, link, drops>>
    /\ UNCHANGED <<alive, session, subscribed, published, due, copies, forgotten, unheard>>

Start(c) ==
    /\ pc[c] = "off"
    /\ pc' = [pc EXCEPT ![c] = "poll"]
    /\ UNCHANGED <<broker, link, net, events, held, queue, pending, history>>

-----------------------------------------------------------------------------
Next == \/ Publish \/ BrokerSend \/ BrokerReceive
        \/ Disconnect \/ BrokerCrash \/ BrokerStart
        \/ \E c \in Client :
             \/ Start(c) \/ Connect(c) \/ ConnectErr(c) \/ Wake(c) \/ PollErr(c)
             \/ \E k \in 1 .. Len(toClient) : Read(c, k) \/ ReadErr(c, k)
             \/ SendRequest(c) \/ Handle(c) \/ Unblock(c) \/ Crash(c)

Spec == Init /\ [][Next]_vars

(* Tasks that can run do; Kubernetes restarts what died; the network       *)
(* delivers while the connection lasts, and does not refuse a client that  *)
(* keeps trying for ever.  Unblock is the batcher's progress (Ingester).   *)
Fairness ==
    /\ WF_vars(BrokerSend) /\ WF_vars(BrokerReceive) /\ WF_vars(BrokerStart)
    /\ \A c \in Client :
         /\ WF_vars(Start(c)) /\ SF_vars(Connect(c)) /\ WF_vars(Wake(c))
         /\ WF_vars(PollErr(c)) /\ WF_vars(SendRequest(c))
         /\ WF_vars(\E k \in 1 .. Len(toClient) : Read(c, k))
         /\ WF_vars(Handle(c)) /\ WF_vars(Unblock(c))

FairSpec == Spec /\ Fairness

-----------------------------------------------------------------------------
(* Properties                                                              *)

TypeOK ==
    /\ alive \in BOOLEAN /\ session \in BOOLEAN /\ subscribed \in BOOLEAN
    /\ published \in 0 .. MaxMsg /\ due \subseteq 1 .. published
    /\ cursor \in 0 .. MaxMsg /\ conn \in Client \cup {None}
    /\ toClient \in Seq(Msg) /\ toBroker \in Seq(Msg \cup {Subscribe})
    /\ pc \in [Client -> {"off", "poll", "sleep", "send"}]
    /\ net \in [Client -> {"none", "up", "broken"}]
    /\ events \in [Client -> Seq(Msg)]
    /\ held \in [Client -> 0 .. MaxMsg]
    /\ \A c \in Client : pc[c] = "send" <=> held[c] # 0
    /\ queue \in [Client -> Nat] /\ pending \in [Client -> Nat]
    /\ copies \in [Msg -> Nat]
    /\ gone \subseteq Msg /\ forgotten \subseteq Msg /\ unheard \subseteq Msg
    /\ drops \in 0 .. MaxDrops /\ crashes \in 0 .. MaxCrashes

Handled(m) == copies[m] > 0

Reached(m) == (\E c \in Client : m \in AtClient(c)) \/ Handled(m)

Lost == gone \cup forgotten \cup unheard

(* A message the broker has accepted can still be sent, is in the hands of *)
(* an ingester process, has gone through tx.send, or was lost in one of    *)
(* four ways: pushed out of the log, owed by a broker that ended, accepted *)
(* without a subscription, held by an ingester process that died.  Nothing *)
(* else loses one; in particular not an acknowledgement on a connection    *)
(* that breaks, nor a blocked tx.send.  The four are recorded here only:   *)
(* no counter of the program shows them.                                   *)
LossHasCause == \A m \in 1 .. published : m \in due \/ Reached(m) \/ m \in Lost

(* docs/iot-sensing-platform-spec-v1.md:354 (and 153): when the rumqttd    *)
(* pod is deleted and starts again, what is missing stays within what QoS  *)
(* 1 sends again; so what the broker has acknowledged is not lost by that. *)
RestartKeepsAccepted ==
    \A m \in 1 .. published : m \in due \/ Reached(m) \/ m \in gone \cup unheard

(* Each copy beyond the first costs a connection that ended.               *)
DeliveriesBounded == \A m \in Msg : copies[m] <= 1 + drops

(* mqtt_loop polls the event loop that empties the request channel, so a   *)
(* subscribe that found the channel full would wait for ever: there is     *)
(* room whenever a connection can be made.                                 *)
SubscribeNeverBlocks ==
    \A c \in Client : pc[c] = "poll" /\ net[c] = "none" => queue[c] < ReqCap

(* The receive time stands for the time of measurement, so messages must   *)
(* reach the batcher in the order of publication: a message handled for    *)
(* the first time is newer than all handled before.  One process only.     *)
FirstArrivalsInOrder ==
    [][\A m \in Msg : copies[m] = 0 /\ copies'[m] = 1
                        => \A n \in Msg : n > m => copies[n] = 0]_vars

(* docs/iot-sensing-platform-spec-v1.md:242: after a disconnection, it     *)
(* reconnects and subscribes again.  Whatever was lost with the broker or  *)
(* the connection, a connection that lasts ends up subscribed.             *)
Resubscribed ==
    \A c \in Client : net[c] = "up" ~> subscribed \/ net[c] # "up"

(* QoS 1: a message logged for the session reaches tx.send, unless the log *)
(* that had it dropped it or ended, or the process that had it died.       *)
Arrives == \A m \in Msg : m \in due ~> Handled(m) \/ m \in gone \cup forgotten
=============================================================================
