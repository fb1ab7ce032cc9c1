------------------------------- MODULE Ledger -------------------------------
(***************************************************************************)
(* What the hub owes the people it knows: mentions held for them, in the   *)
(* order they came.  A held mention stays until it has been told to its    *)
(* recipient, until newer ones have displaced it, until the recipient, who *)
(* is online, declines what is waiting, or until the hub, all of whose     *)
(* places are taken, forgets the recipient for somebody new.               *)
(***************************************************************************)
EXTENDS Naturals, FiniteSets

CONSTANTS People, Messages,
          Limit,     \* how many mentions may be held for one person
          Places     \* how many people may be known before one is forgotten

VARIABLES
  known,      \* the people the hub has met and not forgotten
  owed,       \* what is held for each, numbered in the order it came
  number,     \* how many mentions each has been owed since they were met
  told,       \* what each has been told
  declined,   \* what each has said they do not want to be told
  online,     \* who can say so
  renumbered  \* forgotten while they were being told something

lvars == <<known, owed, number, told, declined, online, renumbered>>

Entry == [m: Messages, seq: Nat]

\* Of the first n mentions, those that Limit newer ones have not displaced.
Recent(E, n) == {e \in E : e.seq + Limit > n}

Init ==
  /\ known \subseteq People
  /\ owed \in [People -> SUBSET Entry] /\ number \in [People -> Nat]
  /\ told = [p \in People |-> {}] /\ declined = told
  /\ online = {} /\ renumbered = {}

\* Somebody owed nothing is forgotten first.
Forgettable == LET free == {p \in known : owed[p] = {}}
               IN  IF free # {} THEN free ELSE known

\* Who goes to make a place: nobody, or one of those.
Leaving == IF Cardinality(known) < Places THEN {{}} ELSE {{v} : v \in Forgettable}

Meet(p) ==
  /\ p \notin known
  /\ \E gone \in Leaving :
       /\ known' = (known \ gone) \cup {p}
       /\ owed' = [q \in People |-> IF q \in gone \cup {p} THEN {} ELSE owed[q]]
       /\ renumbered' \in {renumbered, renumbered \cup gone}
  /\ number' = [number EXCEPT ![p] = 0]
  /\ UNCHANGED <<told, declined, online>>

Owe(p, m) ==
  /\ p \in known
  /\ number' = [number EXCEPT ![p] = @ + 1]
  /\ owed' = [owed EXCEPT ![p] = Recent(@ \cup {[m |-> m, seq |-> number[p] + 1]},
                                        number[p] + 1)]
  /\ UNCHANGED <<known, told, declined, online, renumbered>>

\* Some of what is held reaches its recipient and is still held.
Tell(p, ms) ==
  /\ told' = [told EXCEPT ![p] = @ \cup ms]
  /\ UNCHANGED <<known, owed, number, declined, online, renumbered>>

\* Entries whose mentions have been told are let go.  They are told apart by
\* their numbers, which start again for somebody who was forgotten.
Settle(p, E) ==
  /\ p \notin renumbered => \A e \in E : e.m \in told[p]
  /\ owed' = [owed EXCEPT ![p] = @ \ E]
  /\ UNCHANGED <<known, number, told, declined, online, renumbered>>

\* Nobody is being told anything any more.
AllTold == renumbered' = {} /\ UNCHANGED <<known, owed, number, told, declined, online>>

\* Everything held is told and let go at once.
HandOver(p) ==
  /\ told' = [told EXCEPT ![p] = @ \cup {e.m : e \in owed[p]}]
  /\ owed' = [owed EXCEPT ![p] = {}]
  /\ UNCHANGED <<known, number, declined, online, renumbered>>

Decline(p) ==
  /\ p \in online
  /\ declined' = [declined EXCEPT ![p] = @ \cup {e.m : e \in owed[p]}]
  /\ owed' = [owed EXCEPT ![p] = {}]
  /\ UNCHANGED <<known, number, told, online, renumbered>>

ComeAndGo ==
  online' \in SUBSET People /\ UNCHANGED <<known, owed, number, told, declined, renumbered>>

Next ==
  \/ \E p \in People : Meet(p) \/ HandOver(p) \/ Decline(p)
  \/ \E p \in People, m \in Messages : Owe(p, m)
  \/ \E p \in People, ms \in SUBSET Messages : Tell(p, ms)
  \/ \E p \in People : \E E \in SUBSET owed[p] : Settle(p, E)
  \/ AllTold \/ ComeAndGo

Spec == Init /\ [][Next]_lvars
=============================================================================
