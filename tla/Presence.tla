------------------------------ MODULE Presence ------------------------------
(***************************************************************************)
(* What membership promises to the people connected, without the mutexes:  *)
(* a session that is online is present in some rooms, enters one at a time *)
(* and only while it has room for one more, leaves alone or is expelled    *)
(* together with the other sessions of its identity, and takes no presence *)
(* with it into its next life.  Nobody is ever moved by somebody else's    *)
(* JOIN, PART, disconnection or re-HELLO.                                  *)
(***************************************************************************)
EXTENDS Naturals, FiniteSets

CONSTANTS Sessions, Identities, Names, IdOf, MaxRoomsPerSession

VARIABLES
  online,    \* sessions accepted and not closed
  present    \* the rooms each of them is in

pvars == <<online, present>>

Init == online = {} /\ present = [s \in Sessions |-> {}]

Connect(s) ==
  /\ s \notin online /\ online' = online \cup {s}
  /\ UNCHANGED present

Enter(s, n) ==
  /\ s \in online /\ n \notin present[s]
  /\ MaxRoomsPerSession = 0 \/ Cardinality(present[s]) < MaxRoomsPerSession
  /\ present' = [present EXCEPT ![s] = @ \cup {n}]
  /\ UNCHANGED online

Leave(s, n) ==
  /\ n \in present[s]
  /\ present' = [present EXCEPT ![s] = @ \ {n}]
  /\ UNCHANGED online

LeaveAll(s) ==
  /\ present' = [present EXCEPT ![s] = {}]
  /\ UNCHANGED online

Expel(n, i) ==
  /\ \E out \in SUBSET {s \in online : IdOf[s] = i} :
       present' = [s \in Sessions |-> IF s \in out THEN present[s] \ {n}
                                                   ELSE present[s]]
  /\ UNCHANGED online

Disconnect(s) ==
  /\ s \in online /\ online' = online \ {s}
  /\ present' = [present EXCEPT ![s] = {}]

Next ==
  \/ \E s \in Sessions : Connect(s) \/ LeaveAll(s) \/ Disconnect(s)
  \/ \E s \in Sessions, n \in Names : Enter(s, n) \/ Leave(s, n)
  \/ \E n \in Names, i \in Identities : Expel(n, i)

Spec == Init /\ [][Next]_pvars
=============================================================================
