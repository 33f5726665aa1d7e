------------------------------- MODULE RowFate -------------------------------
(***************************************************************************)
(* What the ingester promises about a row, with none of its machinery.     *)
(*                                                                         *)
(* A row that is accepted is pending until it gets one final fate:         *)
(* inserted, dropped or lost.  `stored` is what the tables hold.  A row is *)
(* reported inserted only if it is stored; a row that was given up may be  *)
(* stored all the same, even later, because the client cannot tell a       *)
(* refused insert from a lost answer.                                      *)
(***************************************************************************)
CONSTANT Row

VARIABLES pending, inserted, dropped, lost, stored

vars == <<pending, inserted, dropped, lost, stored>>

Unseen == Row \ (pending \cup inserted \cup dropped \cup lost)

Init == /\ pending = {} /\ inserted = {} /\ dropped = {} /\ lost = {}
        /\ stored = {}

Accept(S) == /\ S \subseteq Unseen
             /\ pending' = pending \cup S
             /\ UNCHANGED <<inserted, dropped, lost, stored>>

Store(S) == /\ S \cap Unseen = {}
            /\ stored' = stored \cup S
            /\ UNCHANGED <<pending, inserted, dropped, lost>>

Confirm(S) == /\ S \subseteq pending \cap stored
              /\ pending' = pending \ S
              /\ inserted' = inserted \cup S
              /\ UNCHANGED <<dropped, lost, stored>>

Drop(S) == /\ S \subseteq pending
           /\ pending' = pending \ S
           /\ dropped' = dropped \cup S
           /\ UNCHANGED <<inserted, lost, stored>>

(* A process or task dies; it may take a row it has just read with it.     *)
Lose(S) == /\ S \subseteq pending \cup Unseen
           /\ pending' = pending \ S
           /\ lost' = lost \cup S
           /\ UNCHANGED <<inserted, dropped, stored>>

Next == \E S \in SUBSET Row :
            Accept(S) \/ Store(S) \/ Confirm(S) \/ Drop(S) \/ Lose(S)

Spec == Init /\ [][Next]_vars
=============================================================================
