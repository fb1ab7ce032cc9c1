-------------------------- MODULE Mentions_proofs --------------------------
(***************************************************************************)
(* Proofs about Mentions for any people, sessions, messages and limits.    *)
(*                                                                         *)
(* Numbers are given out in order and entries leave a queue only from its  *)
(* old end or all at once, so a queue stays a tail (TailHolds).  Then the  *)
(* newest number of a notification is also the newest given out, whatever  *)
(* is queued later has a higher one, and DropSent's comparison picks out   *)
(* what the notification said (DropsExact).  Of somebody evicted meanwhile *)
(* and filed again it does not, so they are named as the exception.        *)
(***************************************************************************)
EXTENDS Mentions, TLAPS, FiniteSetTheorems

\* E holds the newest of the mentions numbered up to n, and all of those.
IsTail(E, n) ==
  /\ IsFiniteSet(E)
  /\ \A e \in E : /\ e.seq <= n
                  /\ \A k \in e.seq .. n : \E f \in E : f.seq = k
                  /\ \A f \in E : f.seq = e.seq => f = e

Tails == \A p \in People : IsTail(queue[p], nextSeq[p])

\* One more mention makes a tail of a tail.
LEMMA OneMoreIsATail ==
  ASSUME NEW E \in SUBSET Entry, NEW n \in Nat, NEW m \in Messages, IsTail(E, n),
         NEW new, new = [m |-> m, seq |-> n + 1], NEW G, G = E \cup {new}
  PROVE  G \in SUBSET Entry /\ IsTail(G, n + 1)
<1>0. /\ IsFiniteSet(E)
      /\ \A e \in E : /\ e.seq <= n
                      /\ \A k \in e.seq .. n : \E f \in E : f.seq = k
                      /\ \A f \in E : f.seq = e.seq => f = e
  BY DEF IsTail
<1>1. new \in Entry /\ new.seq = n + 1
  BY DEF Entry
<1>2. G \in SUBSET Entry /\ IsFiniteSet(G)
  BY <1>0, <1>1, FS_AddElement
<1>3. \A e \in G : e.seq \in Nat \ {0}
  BY <1>2 DEF Entry
<1>4. \A e \in E : e.seq <= n /\ e.seq \in Nat
  BY <1>0, <1>3
<1>5. ASSUME NEW e \in G PROVE e.seq <= n + 1
  <2>1. CASE e = new
    BY <2>1, <1>1
  <2>2. CASE e \in E
    BY <2>2, <1>4
  <2> QED BY <2>1, <2>2
<1>6. ASSUME NEW e \in G, NEW k \in e.seq .. n + 1 PROVE \E f \in G : f.seq = k
  <2>0. e.seq \in Nat /\ k \in Nat /\ e.seq <= k /\ k <= n + 1
    BY <1>3
  <2>1. CASE k = n + 1
    BY <2>1, <1>1
  <2>2. CASE k # n + 1
    <3>1. k \in e.seq .. n
      BY <2>2, <2>0
    <3>2. e # new
      BY <3>1, <2>0, <1>1
    <3>3. e \in E
      BY <3>2
    <3>4. \E f \in E : f.seq = k
      BY <3>1, <3>3, <1>0
    <3> QED BY <3>4
  <2> QED BY <2>1, <2>2
<1>7. ASSUME NEW e \in G, NEW f \in G, f.seq = e.seq PROVE f = e
  <2>1. CASE e \in E /\ f \in E
    BY <2>1, <1>0, <1>7
  <2>2. CASE e = new /\ f = new
    BY <2>2
  <2>3. \A g \in E : g.seq # new.seq
    BY <1>1, <1>4
  <2> QED BY <2>1, <2>2, <2>3, <1>7
<1> QED BY <1>2, <1>5, <1>6, <1>7 DEF IsTail

\* The last max entries of a tail are those whose number is among the last max.
LEMMA LastIsRecent ==
  ASSUME NEW E \in SUBSET Entry, NEW n \in Nat, IsTail(E, n), NEW max \in Nat
  PROVE  Last(E, max) = {e \in E : e.seq + max > n}
<1>1. \A e \in E : e.seq \in Nat /\ e.seq <= n
  BY DEF IsTail, Entry
<1>2. ASSUME NEW e \in E
      PROVE  Cardinality({f \in E : f.seq > e.seq}) = n - e.seq
  <2> DEFINE After == {f \in E : f.seq > e.seq}
             Numbers == e.seq + 1 .. n
             num == [f \in After |-> f.seq]
  <2>1. e.seq \in Nat /\ e.seq <= n /\ e.seq + 1 \in Int /\ n \in Int
    BY <1>1
  <2>2. \A f \in After : f.seq \in Numbers
    BY <1>1, <2>1
  <2>3. \A k \in Numbers : \E f \in After : f.seq = k
    <3> SUFFICES ASSUME NEW k \in Numbers PROVE \E f \in After : f.seq = k
      OBVIOUS
    <3>1. k \in e.seq .. n /\ k > e.seq
      BY <2>1
    <3>2. PICK f \in E : f.seq = k
      BY <3>1 DEF IsTail
    <3> QED BY <3>1, <3>2
  <2>4. \A f, g \in After : f.seq = g.seq => f = g
    BY DEF IsTail
  <2> HIDE DEF After, Numbers
  <2>5. num \in Bijection(After, Numbers)
    <3>1. num \in [After -> Numbers] /\ \A f \in After : num[f] = f.seq
      BY <2>2
    <3>2. \A f, g \in After : num[f] = num[g] => f = g
      BY <2>4, <3>1
    <3>3. \A k \in Numbers : \E f \in After : num[f] = k
      BY <2>3, <3>1
    <3> HIDE DEF num
    <3>4. num \in Injection(After, Numbers)
      BY <3>1, <3>2 DEF Injection, IsInjective
    <3>5. num \in Surjection(After, Numbers)
      BY <3>1, <3>3 DEF Surjection
    <3> QED BY <3>4, <3>5 DEF Bijection
  <2>6. IsFiniteSet(Numbers) /\ Cardinality(Numbers) = n - e.seq
    <3>1. IsFiniteSet(Numbers)
      BY <2>1, FS_Interval DEF Numbers
    <3>2. Cardinality(Numbers) = IF e.seq + 1 > n THEN 0 ELSE n - (e.seq + 1) + 1
      BY <2>1, FS_Interval DEF Numbers
    <3> QED BY <2>1, <3>1, <3>2
  <2>7. IsFiniteSet(After)
    BY FS_Subset DEF IsTail, After
  <2>8. Cardinality(After) = Cardinality(Numbers)
    BY <2>5, <2>6, <2>7, FS_Bijection DEF ExistsBijection
  <2> QED BY <2>6, <2>8 DEF After
<1>3. \A e \in E : Cardinality({f \in E : f.seq > e.seq}) < max <=> e.seq + max > n
  BY <1>1, <1>2
<1> QED BY <1>3 DEF Last

LEMMA NoneIsATail == ASSUME NEW n PROVE IsTail({}, n)
BY FS_EmptySet DEF IsTail

\* What is left of a tail when only older entries leave is a tail.
LEMMA CutKeepsTail ==
  ASSUME NEW E \in SUBSET Entry, NEW n \in Nat, IsTail(E, n), NEW C \in SUBSET E,
         \A e \in C, f \in E : f.seq >= e.seq => f \in C
  PROVE  IsTail(C, n)
<1>1. IsFiniteSet(C)
  BY FS_Subset DEF IsTail
<1>2. \A e \in E : e.seq \in Nat
  BY DEF Entry
<1>3. ASSUME NEW e \in C, NEW i \in e.seq .. n PROVE \E f \in C : f.seq = i
  <2>1. e \in E /\ e.seq \in Nat /\ i >= e.seq
    BY <1>2
  <2>2. PICK f \in E : f.seq = i
    BY <2>1 DEF IsTail
  <2> QED BY <2>1, <2>2
<1>4. \A e \in C : e.seq <= n /\ \A f \in C : f.seq = e.seq => f = e
  BY DEF IsTail
<1> QED BY <1>1, <1>3, <1>4 DEF IsTail

\* The last entry of a queue that is a tail has the newest number given out.
LEMMA LastSeqIs ==
  ASSUME NEW E \in SUBSET Entry, NEW n \in Nat, IsTail(E, n), E # {}
  PROVE  LastSeq(E) = n
<1> DEFINE N == {e.seq : e \in E}
<1>1. \A e \in E : e.seq \in Nat /\ e.seq <= n
  BY DEF IsTail, Entry
<1>2. \E f \in E : f.seq = n
  <2>1. PICK e \in E : TRUE
    OBVIOUS
  <2>2. n \in e.seq .. n
    BY <1>1
  <2> QED BY <2>2 DEF IsTail
<1>3. n \in N /\ \A e \in E : e.seq <= n
  BY <1>1, <1>2
<1>4. \A i \in N : (\A e \in E : e.seq <= i) => i = n
  BY <1>1, <1>2
<1> HIDE DEF N
<1>5. LastSeq(E) = CHOOSE i \in N : \A e \in E : e.seq <= i
  BY DEF LastSeq, N
<1> QED BY <1>3, <1>4, <1>5
-----------------------------------------------------------------------------
\* Types

\* Where something is counted or held, it is of the right type afterwards.
LEMMA SeesType ==
  ASSUME TypeOK, NEW p \in People, NEW ms, NEW here, Sees(p, ms, here)
  PROVE  copies' \in [People -> [Messages -> Nat]]
<1> DEFINE row == [m \in Messages |-> IF here /\ m \in ms /\ copies[p][m] < MaxCopies
                                         THEN copies[p][m] + 1 ELSE copies[p][m]]
<1>1. copies \in [People -> [Messages -> Nat]]
  BY DEF TypeOK
<1>2. row \in [Messages -> Nat]
  <2>1. \A m \in Messages : copies[p][m] \in Nat
    BY <1>1
  <2> QED BY <2>1
<1>3. copies' = [copies EXCEPT ![p] = row]
  BY DEF Sees
<1> HIDE DEF row
<1> QED BY <1>1, <1>2, <1>3

LEMMA BodiesType ==
  ASSUME NEW E \in SUBSET Entry PROVE Bodies(E) \in SUBSET Messages
BY DEF Bodies, Entry

\* What every step of a session leaves alone or keeps well-typed.
LEMMA SessionTypes ==
  ASSUME TypeOK, NEW s \in Sessions, SessionStep(s) PROVE TypeOK'
<1> USE DEF TypeOK, peers, links, pushing, history, Frame, Request, Doing, Idle, Ops
<1>0. Owner[s] \in People
  BY MentionsAssumption
<1>1. CASE Connect(s)  BY <1>1 DEF Connect
<1>2. CASE Vanish(s)  BY <1>2 DEF Vanish
<1>3. CASE Close(s)  BY <1>3 DEF Close
<1>4. CASE FallSilent(s)  BY <1>4 DEF FallSilent
<1>5. CASE Pong(s)  BY <1>5 DEF Pong
<1>6. CASE Enter(s)  BY <1>6 DEF Enter
<1>7. CASE Leave(s)  BY <1>7 DEF Leave
<1>8. CASE Hello(s)  BY <1>8 DEF Hello
<1>9. CASE Away(s)  BY <1>9 DEF Away
<1>10. CASE Back(s)  BY <1>10 DEF Back
<1>20. ASSUME Unwanted(Owner[s])
       PROVE  queue' \in [People -> SUBSET Entry] /\ declined' \in [People -> SUBSET Messages]
  <2>1. Bodies(queue[Owner[s]]) \in SUBSET Messages
    BY <1>0, BodiesType
  <2> QED BY <1>0, <1>20, <2>1 DEF Unwanted
<1>11. CASE Clear(s)  BY <1>11, <1>20 DEF Clear, Unwanted
<1>12. CASE NotifyOff(s)  BY <1>12, <1>0, <1>20 DEF NotifyOff, Unwanted
<1>13. CASE NotifyOn(s)  BY <1>13, <1>0 DEF NotifyOn
<1> QED
  BY <1>1, <1>2, <1>3, <1>4, <1>5, <1>6, <1>7, <1>8, <1>9, <1>10, <1>11, <1>12, <1>13
     DEF SessionStep

\* One more mention in one queue, and no other queue touched.
LEMMA EnqueueStep ==
  ASSUME TypeOK, Tails, NEW p \in People, NEW m \in Messages, Enqueue(p, m)
  PROVE  /\ queue' \in [People -> SUBSET Entry] /\ nextSeq' \in [People -> Nat]
         /\ \A q \in People : q # p => queue'[q] = queue[q] /\ nextSeq'[q] = nextSeq[q]
         /\ nextSeq'[p] = nextSeq[p] + 1 /\ IsTail(queue'[p], nextSeq'[p])
         /\ \A e \in queue'[p] : e \in queue[p] \/ e.seq = nextSeq[p] + 1
         /\ queue'[p] = {e \in queue[p] \cup {[m |-> m, seq |-> nextSeq[p] + 1]} :
                           e.seq + QueueLimit > nextSeq[p] + 1}
<1>1. queue[p] \in SUBSET Entry /\ nextSeq[p] \in Nat /\ IsTail(queue[p], nextSeq[p])
  BY DEF TypeOK, Tails
<1>2. PICK new : new = [m |-> m, seq |-> nextSeq[p] + 1]
  OBVIOUS
<1>3. PICK G : G = queue[p] \cup {new}
  OBVIOUS
<1>4. PICK L : L = Last(G, QueueLimit)
  OBVIOUS
<1>9. G \in SUBSET Entry /\ IsTail(G, nextSeq[p] + 1) /\ nextSeq[p] + 1 \in Nat
  BY <1>1, <1>2, <1>3, OneMoreIsATail
<1>10. L = {e \in G : e.seq + QueueLimit > nextSeq[p] + 1} /\ QueueLimit \in Nat
  <2>1. QueueLimit \in Nat
    BY MentionsAssumption
  <2>2. Last(G, QueueLimit) = {e \in G : e.seq + QueueLimit > nextSeq[p] + 1}
    BY <1>9, <2>1, LastIsRecent
  <2> QED BY <1>4, <2>1, <2>2
<1>11. L \in SUBSET G /\ \A e \in L, f \in G : f.seq >= e.seq => f \in L
  <2>1. \A e \in G : e.seq \in Nat
    BY <1>9 DEF Entry
  <2> QED BY <1>1, <1>10, <2>1
<1>12. IsTail(L, nextSeq[p] + 1)
  BY <1>9, <1>11, CutKeepsTail
<1>5. /\ queue' = [queue EXCEPT ![p] = L]
      /\ nextSeq' = [nextSeq EXCEPT ![p] = nextSeq[p] + 1]
  BY <1>2, <1>3, <1>4 DEF Enqueue
<1>6. queue \in [People -> SUBSET Entry] /\ nextSeq \in [People -> Nat]
  BY DEF TypeOK
<1>7. queue'[p] = L /\ nextSeq'[p] = nextSeq[p] + 1
  BY <1>5, <1>6
<1>8. \A e \in L : e \in queue[p] \/ e.seq = nextSeq[p] + 1
  BY <1>2, <1>3, <1>11
<1>13. queue' \in [People -> SUBSET Entry] /\ nextSeq' \in [People -> Nat]
  BY <1>1, <1>5, <1>6, <1>9, <1>11
<1>14. \A q \in People : q # p => queue'[q] = queue[q] /\ nextSeq'[q] = nextSeq[q]
  BY <1>5, <1>6
<1> QED BY <1>2, <1>3, <1>7, <1>8, <1>10, <1>12, <1>13, <1>14

\* The dispatcher's later sections.
LEMMA DispatchTypes ==
  ASSUME TypeOK, Tails,
         Remember \/ Flush \/ Note \/ \E p \in People, m \in Messages : Relay(p, m)
  PROVE  TypeOK'
<1> USE DEF TypeOK, peers, links, pushing, history, Doing, Idle, Ops
<1>1. CASE Remember
  <2>0. disp.s \in Sessions /\ Owner[disp.s] \in People
    BY <1>1, MentionsAssumption DEF Remember
  <2>1. disp'.op \in Ops /\ disp'.op # "note" /\ (disp'.op = "flush" => disp'.s = disp.s)
        /\ disp'.op # "file"
    BY <1>1 DEF Remember
  <2>2. CASE UNCHANGED <<peers, restarted>>
    BY <1>1, <2>0, <2>1, <2>2 DEF Remember
  <2>3. CASE File(Owner[disp.s])
    <3>1. dir' \subseteq People
      BY <2>0, <2>3 DEF File, Evictable
    <3>2. queue' \in [People -> SUBSET Entry]
      BY <2>3 DEF File
    <3>3. nextSeq' \in [People -> Nat] /\ optOut' \in [People -> BOOLEAN]
      BY <2>3 DEF File
    <3>4. restarted' \subseteq People
      BY <2>3 DEF File
    <3> QED BY <1>1, <2>0, <2>1, <3>1, <3>2, <3>3, <3>4 DEF Remember
  <2> QED BY <1>1, <2>2, <2>3 DEF Remember
<1>2. CASE Flush
  <2>0. disp.s \in Sessions /\ Owner[disp.s] \in People
    BY <1>2, MentionsAssumption DEF Flush
  <2>1. CASE UNCHANGED <<queue, told, copies>>
    BY <1>2, <2>1 DEF Flush
  <2>2. CASE FlushTo(disp.s)
    <3> DEFINE p == Owner[disp.s]
               held == IF p \in dir THEN queue[p] ELSE {}
    <3>1. held \in SUBSET Entry /\ Bodies(held) \in SUBSET Messages
      BY <2>0 DEF Bodies, Entry
    <3>2. copies' \in [People -> [Messages -> Nat]]
      BY <2>0, <2>2, SeesType DEF FlushTo
    <3>3. told' = [told EXCEPT ![p] = @ \cup Bodies(held)]
      BY <2>2 DEF FlushTo
    <3>4. told' \in [People -> SUBSET Messages]
      <4> HIDE DEF held
      <4> QED BY <2>0, <3>1, <3>3
    <3>5. queue' \in [People -> SUBSET Entry]
      BY <2>0, <2>2 DEF FlushTo
    <3> QED BY <1>2, <3>2, <3>4, <3>5 DEF Flush
  <2> QED BY <1>2, <2>1, <2>2 DEF Flush
<1>3. CASE Note
  <2>0. disp.p \in People /\ disp.m \in Messages
    BY <1>3 DEF Note
  <2>1. copies' \in [People -> [Messages -> Nat]]
    BY <1>3, <2>0, SeesType DEF Note
  <2>2. told' \in [People -> SUBSET Messages]
    BY <1>3, <2>0 DEF Note
  <2>3. queue' \in [People -> SUBSET Entry] /\ nextSeq' \in [People -> Nat]
    <3>1. CASE UNCHANGED <<queue, nextSeq>>
      BY <3>1
    <3>2. CASE Enqueue(disp.p, disp.m)
      BY <2>0, <3>2, EnqueueStep
    <3> QED BY <1>3, <3>1, <3>2 DEF Note
  <2> QED BY <1>3, <2>1, <2>2, <2>3 DEF Note
<1>4. ASSUME NEW p \in People, NEW m \in Messages, Relay(p, m) PROVE TypeOK'
  <2>1. copies' \in [People -> [Messages -> Nat]]
    BY <1>4, SeesType DEF Relay
  <2>2. posted' \in [People -> SUBSET Messages]
    BY <1>4 DEF Relay
  <2>3. disp'.op = "note" /\ disp'.p = p /\ disp'.m = m
    BY <1>4 DEF Relay
  <2>4. UNCHANGED <<dir, queue, nextSeq, optOut, link, away, fresh, inRoom, reach, batch,
                    proven, sent, highSeq, throttled, told, declined, restarted>>
    BY <1>4 DEF Relay
  <2> QED BY <1>4, <2>1, <2>2, <2>3, <2>4
<1> QED BY <1>1, <1>2, <1>3, <1>4

\* mentionPushLoop.
LEMMA PushTypes ==
  ASSUME TypeOK, Tails,
         Collect \/ DropSent \/ \E p \in People : Outcome(p) \/ Unthrottle(p)
  PROVE  TypeOK'
<1> USE DEF TypeOK, peers, links, pushing, history
<1>1. CASE Collect
  <2>1. PICK B \in SUBSET People :
          /\ \A p \in B : queue[p] # {} /\ batch' = B /\ throttled' = throttled \cup B
          /\ sent' = [p \in People |-> IF p \in B THEN queue[p] ELSE sent[p]]
          /\ highSeq' = [p \in People |-> IF p \in B THEN LastSeq(queue[p]) ELSE highSeq[p]]
          /\ batch' = B /\ throttled' = throttled \cup B
    BY <1>1 DEF Collect, Waiting
  <2>2. sent' \in [People -> SUBSET Entry]
    BY <2>1
  <2>3. \A p \in B : LastSeq(queue[p]) \in Nat
    <3> SUFFICES ASSUME NEW p \in B PROVE LastSeq(queue[p]) \in Nat
      OBVIOUS
    <3>1. queue[p] \in SUBSET Entry /\ nextSeq[p] \in Nat /\ IsTail(queue[p], nextSeq[p])
      BY DEF Tails
    <3> QED BY <2>1, <3>1, LastSeqIs
  <2>4. highSeq' \in [People -> Nat]
    BY <2>1, <2>3
  <2> QED BY <1>1, <2>1, <2>2, <2>4 DEF Collect
<1>2. CASE DropSent
  <2>1. \A p \in People : Kept(p) \in SUBSET Entry
    BY DEF Kept
  <2>2. queue' \in [People -> SUBSET Entry]
    BY <1>2, <2>1 DEF DropSent
  <2> QED BY <1>2, <2>2 DEF DropSent
<1>3. ASSUME NEW p \in People, Delivered(p) PROVE TypeOK'
  <2>1. copies' \in [People -> [Messages -> Nat]]
    BY <1>3, SeesType DEF Delivered
  <2>2. told' \in [People -> SUBSET Messages]
    BY <1>3, BodiesType DEF Delivered
  <2> QED BY <1>3, <2>1, <2>2 DEF Delivered
<1>4. ASSUME NEW p \in People, Unconfirmed(p) PROVE TypeOK'
  <2>1. copies' \in [People -> [Messages -> Nat]]
    BY <1>4, SeesType DEF Unconfirmed
  <2> QED BY <1>4, <2>1 DEF Unconfirmed
<1>5. ASSUME NEW p \in People, Unavailable(p) \/ Unthrottle(p) PROVE TypeOK'
  BY <1>5 DEF Unavailable, Unthrottle
<1> QED BY <1>1, <1>2, <1>3, <1>4, <1>5 DEF Outcome

-----------------------------------------------------------------------------
\* Tails

\* Queues and numbers as they were, or one of the queues emptied.
LEMMA SameOrEmptied ==
  ASSUME TypeOK, Tails, nextSeq' = nextSeq,
         queue' = queue \/ \E p \in People : queue' = [queue EXCEPT ![p] = {}]
  PROVE  Tails'
<1>1. CASE queue' = queue
  BY <1>1 DEF Tails
<1>2. ASSUME NEW p \in People, queue' = [queue EXCEPT ![p] = {}] PROVE Tails'
  <2>1. \A q \in People : queue'[q] = IF q = p THEN {} ELSE queue[q]
    BY <1>2 DEF TypeOK
  <2> QED BY <2>1, NoneIsATail DEF Tails
<1> QED BY <1>1, <1>2

LEMMA TailsStep == ASSUME TypeOK, Tails, [Next]_vars PROVE Tails'
<1> USE DEF peers, links, pushing, history
<1>1. ASSUME NEW s \in Sessions, SessionStep(s) PROVE Tails'
  <2>1. Owner[s] \in People
    BY MentionsAssumption
  <2>2. nextSeq' = nextSeq /\ (queue' = queue \/ queue' = [queue EXCEPT ![Owner[s]] = {}])
    BY <1>1 DEF SessionStep, Connect, Vanish, Close, FallSilent, Pong, Enter, Leave, Hello,
                Away, Back, Clear, NotifyOff, NotifyOn, Unwanted
  <2> QED BY <2>1, <2>2, SameOrEmptied
<1>2. CASE Remember
  <2>1. CASE UNCHANGED <<peers, restarted>>
    BY <2>1, SameOrEmptied
  <2>2. CASE File(Owner[disp.s])
    <3>1. disp.s \in Sessions /\ Owner[disp.s] \in People
      BY <1>2, MentionsAssumption DEF Remember, TypeOK
    <3>2. ASSUME NEW q \in People PROVE IsTail(queue'[q], nextSeq'[q])
      <4>1. queue'[q] = {} \/ (queue'[q] = queue[q] /\ q # Owner[disp.s])
        BY <2>2 DEF File
      <4>2. q # Owner[disp.s] => nextSeq'[q] = nextSeq[q]
        BY <2>2, <3>1 DEF File, TypeOK
      <4> QED BY <4>1, <4>2, NoneIsATail DEF Tails
    <3> QED BY <3>2 DEF Tails
  <2> QED BY <1>2, <2>1, <2>2 DEF Remember
<1>3. CASE Flush
  <2>1. Owner[disp.s] \in People
    BY <1>3, MentionsAssumption DEF Flush, TypeOK
  <2> QED BY <1>3, <2>1, SameOrEmptied DEF Flush, FlushTo
<1>4. CASE Note
  <2>1. CASE UNCHANGED <<queue, nextSeq>>
    BY <2>1, SameOrEmptied
  <2>2. CASE Enqueue(disp.p, disp.m)
    <3>1. disp.p \in People /\ disp.m \in Messages
      BY <1>4 DEF Note, TypeOK
    <3> QED BY <2>2, <3>1, EnqueueStep DEF Tails
  <2> QED BY <1>4, <2>1, <2>2 DEF Note
<1>5. ASSUME NEW p \in People, NEW m \in Messages, Relay(p, m) PROVE Tails'
  BY <1>5, SameOrEmptied DEF Relay
<1>6. CASE Collect
  BY <1>6, SameOrEmptied DEF Collect
<1>7. CASE DropSent
  <2>1. ASSUME NEW q \in People PROVE IsTail(queue'[q], nextSeq'[q])
    <3>1. /\ queue[q] \in SUBSET Entry /\ nextSeq[q] \in Nat /\ highSeq[q] \in Nat
          /\ IsTail(queue[q], nextSeq[q])
      BY DEF TypeOK, Tails
    <3>2. IsTail(Kept(q), nextSeq[q])
      <4>1. Kept(q) \in SUBSET queue[q]
        BY DEF Kept
      <4>2. \A e \in queue[q] : e.seq \in Nat
        BY <3>1 DEF Entry
      <4>3. \A e \in Kept(q), f \in queue[q] : f.seq >= e.seq => f \in Kept(q)
        BY <3>1, <4>2 DEF Kept
      <4> QED BY <3>1, <4>1, <4>3, CutKeepsTail
    <3>3. queue'[q] = IF q \in proven \cap dir THEN Kept(q) ELSE queue[q]
      BY <1>7 DEF DropSent
    <3>4. nextSeq'[q] = nextSeq[q]
      BY <1>7 DEF DropSent
    <3> QED BY <3>1, <3>2, <3>3, <3>4
  <2> QED BY <2>1 DEF Tails
<1>8. ASSUME NEW p \in People, Outcome(p) \/ Unthrottle(p) PROVE Tails'
  <2>1. queue' = queue /\ nextSeq' = nextSeq
    BY <1>8 DEF Outcome, Delivered, Unconfirmed, Unavailable, Unthrottle
  <2> QED BY <2>1, SameOrEmptied
<1>9. CASE UNCHANGED vars
  BY <1>9, SameOrEmptied DEF vars
<1> QED BY <1>1, <1>2, <1>3, <1>4, <1>5, <1>6, <1>7, <1>8, <1>9 DEF Next

-----------------------------------------------------------------------------
\* The invariants

LEMMA InitHolds == Init => TypeOK /\ Tails
<1> SUFFICES ASSUME Init PROVE TypeOK /\ Tails
  OBVIOUS
<1>1. nextSeq \in [People -> 0 .. LoadLimit] /\ LoadLimit \in Nat
  BY MentionsAssumption DEF Init
<1>2. PICK row \in [People -> [1 .. LoadLimit -> Messages]] :
        queue = [p \in People |-> {[m |-> row[p][i], seq |-> i] : i \in 1 .. nextSeq[p]}]
  BY DEF Init
<1>3. ASSUME NEW p \in People
      PROVE  queue[p] \in SUBSET Entry /\ IsTail(queue[p], nextSeq[p])
  <2> DEFINE n == nextSeq[p]
             entry(i) == [m |-> row[p][i], seq |-> i]
  <2>1. n \in Nat /\ n <= LoadLimit
    BY <1>1
  <2>2. queue[p] = {entry(i) : i \in 1 .. n}
    BY <1>2
  <2>3. \A i \in 1 .. n : i \in 1 .. LoadLimit /\ row[p][i] \in Messages
    BY <1>1, <1>2, <2>1
  <2>4. \A i \in 1 .. n : entry(i) \in Entry /\ entry(i).seq = i
    BY <2>3 DEF Entry
  <2>5. IsFiniteSet({entry(i) : i \in 1 .. n})
    <3> DEFINE T == {entry(i) : i \in 1 .. n}
    <3>1. IsFiniteSet(1 .. n)
      BY <2>1, FS_Interval
    <3>2. [i \in 1 .. n |-> entry(i)] \in Surjection(1 .. n, T)
      BY DEF Surjection
    <3> HIDE DEF T
    <3>3. IsFiniteSet(T)
      BY <3>1, <3>2, FS_Surjection
    <3> QED BY <3>3 DEF T
  <2> HIDE DEF entry
  <2>6. queue[p] \in SUBSET Entry
    BY <2>2, <2>4
  <2>7. \A e \in queue[p] : \E i \in 1 .. n : e = entry(i) /\ e.seq = i
    BY <2>2, <2>4
  <2>8. \A k \in 1 .. n : \E f \in queue[p] : f.seq = k
    BY <2>2, <2>4
  <2>9. ASSUME NEW e \in queue[p]
        PROVE  /\ e.seq <= n /\ \A k \in e.seq .. n : \E f \in queue[p] : f.seq = k
               /\ \A f \in queue[p] : f.seq = e.seq => f = e
    <3>1. e.seq \in 1 .. n /\ n \in Nat
      BY <2>1, <2>7
    <3>2. \A k \in e.seq .. n : k \in 1 .. n
      <4> DEFINE a == e.seq
      <4>1. a \in 1 .. n /\ n \in Nat
        BY <3>1
      <4> HIDE DEF a, n
      <4>2. \A k \in a .. n : k \in 1 .. n
        BY <4>1
      <4> QED BY <4>2 DEF a
    <3> QED BY <3>1, <3>2, <2>7, <2>8
  <2> QED BY <2>2, <2>5, <2>6, <2>9 DEF IsTail
<1>4. queue \in [People -> SUBSET Entry] /\ nextSeq \in [People -> Nat]
  BY <1>1, <1>2, <1>3
<1>5. posted \in [People -> SUBSET Messages]
  BY <1>4, BodiesType DEF Init
<1>6. TypeOK
  BY <1>4, <1>5 DEF Init, TypeOK, Ops, Doing, Idle
<1>7. Tails
  BY <1>3 DEF Tails
<1> QED BY <1>6, <1>7

LEMMA Types == Spec => [](TypeOK /\ Tails)
<1>1. ASSUME TypeOK, Tails, [Next]_vars PROVE TypeOK' /\ Tails'
  <2>1. CASE UNCHANGED vars
    <3>1. TypeOK'
      BY <1>1, <2>1 DEF vars, peers, links, pushing, history, TypeOK
    <3> QED BY <1>1, <3>1, TailsStep
  <2>2. CASE Next
    <3>1. TypeOK'
      BY <1>1, <2>2, SessionTypes, DispatchTypes, PushTypes DEF Next
    <3> QED BY <1>1, <3>1, TailsStep
  <2> QED BY <1>1, <2>1, <2>2
<1> QED BY InitHolds, <1>1, PTL DEF Spec

\* Every variable keeps its type; for DropSent and Collect this needs the
\* queues to be tails, so that the newest of what is sent has a number.
THEOREM TypeCorrect == Spec => []TypeOK
BY Types, PTL

\* A queue is the tail of what its owner was ever owed, for any queue limit
\* and through eviction of people and of mentions (queueMentionLocked).
THEOREM TailHolds == Spec => []QueueIsATail
<1>1. Tails => QueueIsATail
  BY DEF Tails, IsTail, QueueIsATail
<1> QED BY <1>1, Types, PTL

\* Somebody who opted out is owed nothing: noteMentions reads the preference
\* and queues in one critical section, /notify off sets it and discards in one.
THEOREM OptedOut == Spec => []OptedOutHoldNothing
<1>1. Init => OptedOutHoldNothing
  BY DEF Init, OptedOutHoldNothing
<1>2. ASSUME TypeOK, Tails, OptedOutHoldNothing, [Next]_vars PROVE OptedOutHoldNothing'
  <2> USE DEF OptedOutHoldNothing, peers, links, pushing, history
  <2>1. ASSUME NEW s \in Sessions, SessionStep(s) PROVE OptedOutHoldNothing'
    <3>0. Owner[s] \in People
      BY MentionsAssumption
    <3>1. CASE NotifyOff(s)
      BY <1>2, <3>0, <3>1 DEF NotifyOff, Unwanted, TypeOK
    <3>2. CASE NotifyOn(s)
      BY <1>2, <3>0, <3>2 DEF NotifyOn, TypeOK
    <3>3. CASE Clear(s)
      BY <1>2, <3>0, <3>3 DEF Clear, Unwanted, TypeOK
    <3>4. CASE UNCHANGED peers
      BY <1>2, <3>4
    <3> QED
      BY <2>1, <3>1, <3>2, <3>3, <3>4
         DEF SessionStep, Connect, Vanish, Close, FallSilent, Pong, Enter, Leave, Hello, Away,
             Back
  <2>2. CASE Remember
    <3>1. CASE File(Owner[disp.s])
      <4>1. Owner[disp.s] \in People
        BY <1>2, <2>2, MentionsAssumption DEF Remember, TypeOK
      <4>2. \A q \in People : queue'[q] = {} \/ queue'[q] = queue[q]
        BY <3>1 DEF File
      <4>3. \A q \in People : optOut'[q] => optOut[q]
        BY <1>2, <3>1, <4>1 DEF File, TypeOK
      <4> QED BY <1>2, <4>2, <4>3
    <3>2. CASE UNCHANGED <<peers, restarted>>
      BY <1>2, <3>2
    <3> QED BY <2>2, <3>1, <3>2 DEF Remember
  <2>3. CASE Flush
    <3>1. \A q \in People : queue'[q] = {} \/ queue'[q] = queue[q]
      BY <1>2, <2>3 DEF Flush, FlushTo, TypeOK
    <3> QED BY <1>2, <2>3, <3>1 DEF Flush
  <2>4. CASE Note
    <3>1. CASE UNCHANGED <<queue, nextSeq>>
      BY <1>2, <2>4, <3>1 DEF Note
    <3>2. CASE Enqueue(disp.p, disp.m) /\ ~optOut[disp.p]
      <4>1. disp.p \in People /\ disp.m \in Messages
        BY <1>2, <2>4 DEF Note, TypeOK
      <4>2. \A q \in People : q # disp.p => queue'[q] = queue[q]
        BY <1>2, <3>2, <4>1, EnqueueStep
      <4>3. optOut' = optOut
        BY <2>4 DEF Note
      <4> QED BY <1>2, <3>2, <4>2, <4>3
    <3> QED BY <2>4, <3>1, <3>2 DEF Note
  <2>5. ASSUME NEW q \in People, NEW m \in Messages, Relay(q, m) PROVE OptedOutHoldNothing'
    BY <1>2, <2>5 DEF Relay
  <2>6. CASE Collect
    BY <1>2, <2>6 DEF Collect
  <2>7. CASE DropSent
    <3>1. \A q \in People : queue'[q] \subseteq queue[q]
      BY <2>7 DEF DropSent, Kept
    <3>2. optOut' = optOut
      BY <2>7 DEF DropSent
    <3> QED BY <1>2, <3>1, <3>2
  <2>8. ASSUME NEW q \in People, Outcome(q) \/ Unthrottle(q) PROVE OptedOutHoldNothing'
    BY <1>2, <2>8 DEF Outcome, Delivered, Unconfirmed, Unavailable, Unthrottle
  <2>9. CASE UNCHANGED vars
    BY <1>2, <2>9 DEF vars
  <2> QED BY <1>2, <2>1, <2>2, <2>3, <2>4, <2>5, <2>6, <2>7, <2>8, <2>9 DEF Next
<1> QED BY <1>1, <1>2, Types, PTL DEF Spec

-----------------------------------------------------------------------------
\* What DropSent drops

\* Of a notification under way: its newest number has been given out, and
\* among what is queued exactly what it says is not newer.
Covered(p) ==
  /\ p \in dir /\ highSeq[p] <= nextSeq[p]
  /\ \A e \in queue[p] : e.seq <= highSeq[p] => e \in sent[p]
  /\ \A e \in sent[p] : e.seq <= highSeq[p]

PushInv == \A p \in (batch \cup proven) \ restarted : Covered(p)

\* What keeps a notification covered: its person stays in the directory, and
\* what is queued was queued before or has a higher number.
LEMMA StaysCovered ==
  ASSUME TypeOK, NEW p \in People, Covered(p), TypeOK',
         p \in dir', highSeq'[p] = highSeq[p], sent'[p] = sent[p],
         nextSeq'[p] >= nextSeq[p],
         \A e \in queue'[p] : e \in queue[p] \/ e.seq > nextSeq[p]
  PROVE  Covered(p)'
<1>1. /\ nextSeq[p] \in Nat /\ nextSeq'[p] \in Nat /\ highSeq[p] \in Nat
      /\ highSeq'[p] <= nextSeq'[p]
  BY DEF TypeOK, Covered
<1>2. ASSUME NEW e \in queue'[p], e.seq <= highSeq'[p] PROVE e \in sent'[p]
  <2>1. e.seq \in Nat
    BY DEF TypeOK, Entry
  <2>2. e \in queue[p]
    BY <1>1, <1>2, <2>1 DEF Covered
  <2> QED BY <1>2, <2>2 DEF Covered
<1> QED BY <1>1, <1>2 DEF Covered

LEMMA PushStep ==
  ASSUME TypeOK, Tails, PushInv, [Next]_vars, TypeOK'
  PROVE  PushInv'
<1> USE DEF peers, links, pushing, history
<1>0. batch \subseteq People /\ proven \subseteq People
  BY DEF TypeOK
<1>1. ASSUME batch' \cup proven' \subseteq batch \cup proven, restarted \subseteq restarted',
             highSeq' = highSeq, sent' = sent,
             \A p \in (batch \cup proven) \ restarted' :
               /\ p \in dir' /\ nextSeq'[p] >= nextSeq[p]
               /\ \A e \in queue'[p] : e \in queue[p] \/ e.seq > nextSeq[p]
      PROVE  PushInv'
  BY <1>0, <1>1, StaysCovered DEF PushInv
<1>2. ASSUME batch' \cup proven' \subseteq batch \cup proven, restarted' = restarted,
             highSeq' = highSeq, sent' = sent, dir' = dir, nextSeq' = nextSeq,
             \A p \in People : queue'[p] \subseteq queue[p]
      PROVE  PushInv'
  <2>1. \A p \in People : nextSeq'[p] >= nextSeq[p]
    BY <1>2 DEF TypeOK
  <2>2. \A p \in (batch \cup proven) \ restarted' : p \in dir'
    BY <1>2 DEF PushInv, Covered
  <2> QED BY <1>0, <1>1, <1>2, <2>1, <2>2
<1>3. ASSUME NEW s \in Sessions, SessionStep(s) PROVE PushInv'
  <2>1. Owner[s] \in People
    BY MentionsAssumption
  <2>2. queue' = queue \/ queue' = [queue EXCEPT ![Owner[s]] = {}]
    BY <1>3 DEF SessionStep, Connect, Vanish, Close, FallSilent, Pong, Enter, Leave, Hello,
                Away, Back, Clear, NotifyOff, NotifyOn, Unwanted
  <2>3. \A p \in People : queue'[p] \subseteq queue[p]
    BY <2>1, <2>2 DEF TypeOK
  <2>4. UNCHANGED <<dir, nextSeq, pushing, restarted>>
    BY <1>3 DEF SessionStep, Connect, Vanish, Close, FallSilent, Pong, Enter, Leave, Hello,
                Away, Back, Clear, NotifyOff, NotifyOn, Unwanted
  <2> QED BY <1>2, <2>3, <2>4
<1>4. CASE Remember
  <2>1. CASE UNCHANGED <<peers, restarted>>
    BY <1>2, <1>4, <2>1 DEF Remember
  <2>2. CASE File(Owner[disp.s]) /\ Owner[disp.s] \notin dir
    <3>1. PICK gone :
            /\ dir' = (dir \ gone) \cup {Owner[disp.s]}
            /\ queue' = [q \in People |-> IF q \in gone \cup {Owner[disp.s]} THEN {} ELSE queue[q]]
            /\ restarted' = restarted \cup (gone \cap (batch \cup proven))
      BY <2>2 DEF File
    <3>2. ASSUME NEW p \in (batch \cup proven) \ restarted'
          PROVE  p \in dir' /\ nextSeq'[p] = nextSeq[p] /\ queue'[p] = queue[p]
      <4>1. p \in dir /\ p # Owner[disp.s] /\ p \in People /\ p \notin gone
        BY <1>0, <2>2, <3>1 DEF PushInv, Covered
      <4> QED BY <2>2, <3>1, <4>1 DEF File, TypeOK
    <3>3. \A p \in (batch \cup proven) \ restarted' : nextSeq'[p] >= nextSeq[p]
      BY <1>0, <3>2 DEF TypeOK
    <3>4. UNCHANGED pushing
      BY <1>4 DEF Remember
    <3> QED BY <1>1, <3>1, <3>2, <3>3, <3>4
  <2> QED BY <1>4, <2>1, <2>2 DEF Remember
<1>5. CASE Flush
  <2>1. \A p \in People : queue'[p] \subseteq queue[p]
    BY <1>5 DEF Flush, FlushTo, TypeOK
  <2> QED BY <1>2, <1>5, <2>1 DEF Flush
<1>6. CASE Note
  <2>1. CASE UNCHANGED <<queue, nextSeq>>
    BY <1>2, <1>6, <2>1 DEF Note
  <2>2. CASE Enqueue(disp.p, disp.m)
    <3>1. disp.p \in People /\ disp.m \in Messages
      BY <1>6 DEF Note, TypeOK
    <3>2. ASSUME NEW p \in People
          PROVE  /\ nextSeq'[p] >= nextSeq[p]
                 /\ \A e \in queue'[p] : e \in queue[p] \/ e.seq > nextSeq[p]
      <4>1. nextSeq[p] \in Nat
        BY DEF TypeOK
      <4>2. CASE p = disp.p
        BY <2>2, <3>1, <4>1, <4>2, EnqueueStep
      <4>3. CASE p # disp.p
        BY <2>2, <3>1, <4>1, <4>3, EnqueueStep
      <4> QED BY <4>2, <4>3
    <3>3. UNCHANGED <<dir, pushing, restarted>>
      BY <1>6 DEF Note
    <3>4. \A p \in (batch \cup proven) \ restarted : p \in dir'
      BY <3>3 DEF PushInv, Covered
    <3> QED BY <1>0, <1>1, <3>2, <3>3, <3>4
  <2> QED BY <1>6, <2>1, <2>2 DEF Note
<1>7. ASSUME NEW p \in People, NEW m \in Messages, Relay(p, m) PROVE PushInv'
  BY <1>2, <1>7 DEF Relay
<1>8. CASE Collect
  <2>1. PICK B \in SUBSET Waiting :
          /\ batch' = B
          /\ sent' = [p \in People |-> IF p \in B THEN queue[p] ELSE sent[p]]
          /\ highSeq' = [p \in People |-> IF p \in B THEN LastSeq(queue[p]) ELSE highSeq[p]]
    BY <1>8 DEF Collect
  <2>2. proven' = {} /\ UNCHANGED peers
    BY <1>8 DEF Collect
  <2>3. ASSUME NEW p \in B PROVE Covered(p)'
    <3>1. p \in dir /\ queue[p] # {} /\ p \in People
      BY DEF Waiting, TypeOK
    <3>2. /\ queue[p] \in SUBSET Entry /\ nextSeq[p] \in Nat /\ IsTail(queue[p], nextSeq[p])
      BY <3>1 DEF TypeOK, Tails
    <3>3. sent'[p] = queue[p] /\ highSeq'[p] = nextSeq[p]
      BY <2>1, <3>1, <3>2, LastSeqIs
    <3>4. \A e \in queue[p] : e.seq <= nextSeq[p]
      BY <3>2 DEF IsTail
    <3> QED BY <2>2, <3>1, <3>2, <3>3, <3>4 DEF Covered
  <2> QED BY <2>1, <2>2, <2>3 DEF PushInv
<1>9. CASE DropSent
  <2>1. \A p \in People : queue'[p] \subseteq queue[p]
    BY <1>9 DEF DropSent, Kept
  <2> QED BY <1>2, <1>9, <2>1 DEF DropSent
<1>10. ASSUME NEW p \in People, Outcome(p) \/ Unthrottle(p) PROVE PushInv'
  BY <1>2, <1>10 DEF Outcome, Delivered, Unconfirmed, Unavailable, Unthrottle
<1>11. CASE UNCHANGED vars
  BY <1>2, <1>11 DEF vars
<1> QED BY <1>3, <1>4, <1>5, <1>6, <1>7, <1>8, <1>9, <1>10, <1>11 DEF Next

LEMMA PushHolds == Spec => []PushInv
<1>1. Init => PushInv
  BY DEF Init, PushInv
<1>2. TypeOK /\ Tails /\ PushInv /\ [Next]_vars /\ TypeOK' => PushInv'
  BY PushStep
<1> QED BY <1>1, <1>2, Types, PTL DEF Spec

LEMMA DropIsExact ==
  ASSUME TypeOK, PushInv, DropSent, NEW p \in (proven \cap dir) \ restarted
  PROVE  queue'[p] = queue[p] \ sent[p]
<1>1. p \in People /\ Covered(p)
  BY DEF PushInv, TypeOK
<1>2. queue'[p] = Kept(p)
  BY <1>1 DEF DropSent
<1>3. highSeq[p] \in Nat /\ \A e \in queue[p] : e.seq \in Nat
  BY <1>1 DEF TypeOK, Entry
<1>4. \A e \in queue[p] : e.seq > highSeq[p] <=> e \notin sent[p]
  BY <1>1, <1>3 DEF Covered
<1> QED BY <1>2, <1>4 DEF Kept

\* notifier.go: "Drop exactly what was sent", for any queue limit, any limit on
\* the directory and any traffic during the upload, of everybody but somebody
\* evicted during the upload and filed again.
THEOREM DropsExact == Spec => DropsExactlyWhatWasSent
<1>1. TypeOK /\ PushInv
        => [DropSent => \A p \in (proven \cap dir) \ restarted : queue'[p] = queue[p] \ sent[p]]_vars
  BY DropIsExact
<1> QED BY <1>1, PushHolds, Types, PTL DEF Spec, DropsExactlyWhatWasSent

-----------------------------------------------------------------------------
\* The ledger

\* Nothing is held for strangers; one notification at a time has a proof, and
\* what it said has been told.
DebtInv ==
  /\ \A p \in People \ dir : queue[p] = {}
  /\ \A p, q \in proven : p = q
  /\ \A p \in proven : Bodies(sent[p]) \subseteq told[p]

LEMMA DebtStep ==
  ASSUME TypeOK, Tails, DebtInv, [Next]_vars, TypeOK' PROVE DebtInv'
<1> USE DEF peers, links, pushing, history
<1>0. ASSUME UNCHANGED <<dir, sent, proven>>,
             \A p \in People : queue'[p] \subseteq queue[p] /\ told[p] \subseteq told'[p]
      PROVE  DebtInv'
  <2>1. \A p \in People : Bodies(sent[p])' = Bodies(sent[p])
    BY <1>0 DEF Bodies
  <2>2. \A p \in proven' : Bodies(sent[p])' \subseteq told'[p]
    BY <1>0, <2>1 DEF DebtInv, TypeOK
  <2>3. \A p \in People \ dir' : queue'[p] = {}
    BY <1>0 DEF DebtInv
  <2>4. \A p, q \in proven' : p = q
    BY <1>0 DEF DebtInv
  <2> QED BY <2>2, <2>3, <2>4 DEF DebtInv
<1>1. ASSUME NEW s \in Sessions, SessionStep(s) PROVE DebtInv'
  <2>1. Owner[s] \in People
    BY MentionsAssumption
  <2>2. queue' = queue \/ queue' = [queue EXCEPT ![Owner[s]] = {}]
    BY <1>1 DEF SessionStep, Connect, Vanish, Close, FallSilent, Pong, Enter, Leave, Hello,
                Away, Back, Clear, NotifyOff, NotifyOn, Unwanted
  <2>3. UNCHANGED <<dir, pushing, told>>
    BY <1>1 DEF SessionStep, Connect, Vanish, Close, FallSilent, Pong, Enter, Leave, Hello,
                Away, Back, Clear, NotifyOff, NotifyOn, Unwanted
  <2>4. \A p \in People : queue'[p] \subseteq queue[p]
    BY <2>1, <2>2 DEF TypeOK
  <2> QED BY <1>0, <2>3, <2>4
<1>2. CASE Remember
  <2>1. CASE UNCHANGED <<peers, restarted>>
    BY <1>2, <2>1 DEF Remember, DebtInv
  <2>2. CASE File(Owner[disp.s])
    BY <1>2, <2>2 DEF Remember, File, DebtInv
  <2> QED BY <1>2, <2>1, <2>2 DEF Remember
<1>3. CASE Flush
  <2>1. \A p \in People : queue'[p] \subseteq queue[p]
    BY <1>3 DEF Flush, FlushTo, TypeOK
  <2>2. \A p \in People : told[p] \subseteq told'[p]
    <3>1. CASE UNCHANGED told
      BY <3>1
    <3>2. CASE FlushTo(disp.s)
      <4>1. PICK B : told' = [told EXCEPT ![Owner[disp.s]] = told[Owner[disp.s]] \cup B]
        BY <3>2 DEF FlushTo
      <4> QED BY <4>1 DEF TypeOK
    <3> QED BY <1>3, <3>1, <3>2 DEF Flush
  <2>3. UNCHANGED <<dir, pushing>>
    BY <1>3 DEF Flush
  <2> QED BY <1>0, <2>1, <2>2, <2>3
<1>4. CASE Note
  <2>1. \A p \in People : told[p] \subseteq told'[p]
    <3>1. told' = told \/ told' = [told EXCEPT ![disp.p] = told[disp.p] \cup {disp.m}]
      BY <1>4 DEF Note
    <3>2. disp.p \in People /\ told \in [People -> SUBSET Messages]
      BY <1>4 DEF Note, TypeOK
    <3> QED BY <3>1, <3>2
  <2>2. UNCHANGED <<dir, pushing>>
    BY <1>4 DEF Note
  <2>3. CASE UNCHANGED <<queue, nextSeq>>
    BY <1>0, <2>1, <2>2, <2>3
  <2>4. CASE Enqueue(disp.p, disp.m) /\ disp.p \in dir
    <3>1. disp.p \in People /\ disp.m \in Messages
      BY <1>4 DEF Note, TypeOK
    <3>2. \A p \in People : p # disp.p => queue'[p] = queue[p]
      BY <2>4, <3>1, EnqueueStep
    <3>3. \A p \in People \ dir' : queue'[p] = {}
      BY <2>2, <2>4, <3>2 DEF DebtInv
    <3>4. \A p \in proven : Bodies(sent[p])' = Bodies(sent[p])
      BY <2>2 DEF Bodies
    <3> QED BY <2>1, <2>2, <3>3, <3>4 DEF DebtInv, TypeOK
  <2> QED BY <1>4, <2>3, <2>4 DEF Note
<1>5. ASSUME NEW p \in People, NEW m \in Messages, Relay(p, m) PROVE DebtInv'
  BY <1>5 DEF Relay, DebtInv
<1>6. CASE Collect
  BY <1>6 DEF Collect, DebtInv
<1>7. CASE DropSent
  <2>1. \A p \in People : queue'[p] \subseteq queue[p]
    BY <1>7 DEF DropSent, Kept
  <2> QED BY <1>7, <2>1 DEF DropSent, DebtInv
<1>8. ASSUME NEW p \in People, Delivered(p) PROVE DebtInv'
  <2>1. told'[p] = told[p] \cup Bodies(sent[p])
    BY <1>8 DEF Delivered, TypeOK
  <2>2. UNCHANGED <<peers, sent>> /\ proven' = {p}
    BY <1>8 DEF Delivered
  <2>3. Bodies(sent[p])' = Bodies(sent[p])
    BY <2>2 DEF Bodies
  <2> QED BY <2>1, <2>2, <2>3 DEF DebtInv
<1>9. ASSUME NEW p \in People, Unconfirmed(p) \/ Unavailable(p) \/ Unthrottle(p) PROVE DebtInv'
  BY <1>9 DEF Unconfirmed, Unavailable, Unthrottle, DebtInv
<1>10. CASE UNCHANGED vars
  BY <1>10 DEF vars, DebtInv
<1> QED BY <1>1, <1>2, <1>3, <1>4, <1>5, <1>6, <1>7, <1>8, <1>9, <1>10 DEF Next, Outcome

\* Every step of the hub is a step of the ledger, or none of its business.
LEMMA LedgerStep ==
  ASSUME TypeOK, TypeOK', Tails, PushInv, DebtInv, [Next]_vars
  PROVE  [LedgerOf!Next]_<<dir, queue, nextSeq, told, declined, Online, restarted>>
<1> USE DEF peers, links, pushing, history
<1> DEFINE Same == UNCHANGED <<dir, queue, nextSeq, told, declined, Online, restarted>>
<1>0. link' = link => Online' = Online
  BY DEF Online
<1>1. ASSUME NEW s \in Sessions, SessionStep(s) PROVE LedgerOf!Next \/ Same
  <2>1. Owner[s] \in People
    BY MentionsAssumption
  <2>2. CASE Clear(s) \/ NotifyOff(s)
    <3>1. link[s] = "welcomed" /\ link' = link /\ Unwanted(Owner[s])
      BY <2>2 DEF Clear, NotifyOff, Request, Frame
    <3>2. Owner[s] \in Online /\ Online' = Online
      BY <3>1 DEF Online
    <3>3. dir' = dir /\ nextSeq' = nextSeq
      BY <2>2 DEF Clear, NotifyOff
    <3>4. LedgerOf!Decline(Owner[s])
      BY <3>1, <3>2, <3>3 DEF Unwanted, Bodies, Online, LedgerOf!Decline
    <3> QED BY <2>1, <3>4 DEF LedgerOf!Next
  <2>3. CASE UNCHANGED <<dir, queue, nextSeq, told, declined, restarted>>
    <3>1. Online' \in SUBSET People
      BY MentionsAssumption DEF Online
    <3>2. LedgerOf!ComeAndGo
      BY <2>3, <3>1 DEF Online, LedgerOf!ComeAndGo
    <3> QED BY <3>2 DEF LedgerOf!Next
  <2> QED
    BY <1>1, <2>2, <2>3
       DEF SessionStep, Connect, Vanish, Close, FallSilent, Pong, Enter, Leave, Hello, Away,
           Back, NotifyOn
<1>2. CASE Remember
  <2>1. CASE UNCHANGED <<peers, restarted>>
    BY <1>0, <1>2, <2>1 DEF Remember
  <2>2. CASE File(Owner[disp.s]) /\ Owner[disp.s] \notin dir
    <3>1. Owner[disp.s] \in People
      BY <1>2, MentionsAssumption DEF Remember, TypeOK
    <3>2. Online' = Online
      BY <1>2 DEF Remember, Online
    <3>3. PICK gone \in IF Cardinality(dir) < MaxKnownPeers THEN {{}} ELSE {{v} : v \in Evictable} :
            /\ dir' = (dir \ gone) \cup {Owner[disp.s]}
            /\ queue' = [q \in People |-> IF q \in gone \cup {Owner[disp.s]} THEN {} ELSE queue[q]]
            /\ restarted' = restarted \cup (gone \cap (batch \cup proven))
      BY <2>2 DEF File
    <3>4. gone \in LedgerOf!Leaving
      <4>1. LedgerOf!Forgettable = Evictable
        BY DEF Evictable, LedgerOf!Forgettable
      <4>2. LedgerOf!Leaving = IF Cardinality(dir) < MaxKnownPeers THEN {{}}
                                                                  ELSE {{v} : v \in Evictable}
        BY <4>1 DEF LedgerOf!Leaving, Cardinality, LedgerOf!Cardinality, IsFiniteSet, LedgerOf!IsFiniteSet
      <4> QED BY <3>3, <4>2
    <3>5. restarted' \in {restarted, restarted \cup gone}
      <4>1. \A v, v2 \in gone : v = v2
        BY <3>3
      <4> QED BY <3>3, <4>1
    <3>6. nextSeq' = [nextSeq EXCEPT ![Owner[disp.s]] = 0] /\ UNCHANGED <<told, declined>>
      BY <1>2, <2>2 DEF Remember, File
    <3>7. LedgerOf!Meet(Owner[disp.s])
      BY <2>2, <3>2, <3>3, <3>4, <3>5, <3>6 DEF Online, LedgerOf!Meet
    <3> QED BY <3>1, <3>7 DEF LedgerOf!Next
  <2> QED BY <1>2, <2>1, <2>2 DEF Remember
<1>3. CASE Flush
  <2>1. Owner[disp.s] \in People
    BY <1>3, MentionsAssumption DEF Flush, TypeOK
  <2>2. CASE UNCHANGED <<queue, told>>
    BY <1>0, <1>3, <2>2 DEF Flush
  <2>3. CASE FlushTo(disp.s)
    <3>1. (IF Owner[disp.s] \in dir THEN queue[Owner[disp.s]] ELSE {}) = queue[Owner[disp.s]]
      BY <2>1 DEF DebtInv
    <3>2. LedgerOf!HandOver(Owner[disp.s])
      BY <1>0, <1>3, <2>3, <3>1 DEF Flush, FlushTo, Online, LedgerOf!HandOver, Bodies
    <3> QED BY <2>1, <3>2 DEF LedgerOf!Next
  <2> QED BY <1>3, <2>2, <2>3 DEF Flush
<1>4. CASE Note
  <2>0. disp.p \in People /\ disp.m \in Messages
    BY <1>4 DEF Note, TypeOK
  <2>1. CASE UNCHANGED <<queue, nextSeq, told>>
    BY <1>0, <1>4, <2>1 DEF Note
  <2>2. CASE told' = [told EXCEPT ![disp.p] = @ \cup {disp.m}] /\ UNCHANGED <<queue, nextSeq>>
    <3>1. LedgerOf!Tell(disp.p, {disp.m})
      BY <1>0, <1>4, <2>2 DEF Note, Online, LedgerOf!Tell
    <3> QED BY <2>0, <3>1 DEF LedgerOf!Next
  <2>3. CASE Enqueue(disp.p, disp.m) /\ disp.p \in dir /\ told' = told
    <3>1. LedgerOf!Owe(disp.p, disp.m)
      <4> DEFINE L == {e \in queue[disp.p] \cup {[m |-> disp.m, seq |-> nextSeq[disp.p] + 1]} :
                         e.seq + QueueLimit > nextSeq[disp.p] + 1}
      <4>1. queue'[disp.p] = L
        BY <2>0, <2>3, EnqueueStep
      <4>2. \E K : queue' = [queue EXCEPT ![disp.p] = K]
        BY <2>3 DEF Enqueue
      <4>3. queue' = [queue EXCEPT ![disp.p] = L]
        BY <2>0, <4>1, <4>2 DEF TypeOK
      <4>4. dir' = dir /\ nextSeq' = [nextSeq EXCEPT ![disp.p] = @ + 1]
        BY <1>4, <2>3 DEF Note, Enqueue
      <4>5. UNCHANGED <<declined, Online, restarted>>
        BY <1>0, <1>4 DEF Note
      <4> QED BY <2>3, <4>3, <4>4, <4>5 DEF Online, LedgerOf!Owe, LedgerOf!Recent
    <3> QED BY <2>0, <3>1 DEF LedgerOf!Next
  <2> QED BY <1>4, <2>1, <2>2, <2>3 DEF Note
<1>5. CASE DropSent
  <2>1. PICK p \in People : proven = {p}
    BY <1>5 DEF DropSent, DebtInv, TypeOK
  <2>2. PICK E \in SUBSET queue[p] :
          /\ queue' = [queue EXCEPT ![p] = queue[p] \ E]
          /\ p \notin restarted => \A e \in E : e \in sent[p]
    <3>1. PICK D : D = IF p \in dir THEN {e \in queue[p] : ~(e.seq > highSeq[p])} ELSE {}
      OBVIOUS
    <3>2. D \in SUBSET queue[p] /\ queue'[p] = queue[p] \ D
      BY <1>5, <2>1, <3>1 DEF DropSent, Kept
    <3>3. \A q \in People : q # p => queue'[q] = queue[q]
      BY <1>5, <2>1 DEF DropSent
    <3>4. queue' \in [People -> SUBSET Entry] /\ queue \in [People -> SUBSET Entry]
      BY DEF TypeOK
    <3>5. queue' = [queue EXCEPT ![p] = queue[p] \ D]
      BY <3>2, <3>3, <3>4
    <3>6. p \notin restarted => D \subseteq sent[p]
      BY <1>5, <2>1, <3>1, <3>2, DropIsExact
    <3> QED BY <3>2, <3>5, <3>6
  <2>3. p \notin restarted => \A e \in E : e.m \in told[p]
    BY <2>1, <2>2 DEF DebtInv, Bodies
  <2>4. LedgerOf!Settle(p, E)
    BY <1>0, <1>5, <2>2, <2>3 DEF DropSent, Online, LedgerOf!Settle
  <2> QED BY <2>1, <2>4 DEF LedgerOf!Next
<1>6. ASSUME NEW p \in People, Delivered(p) PROVE LedgerOf!Next \/ Same
  <2>1. Bodies(sent[p]) \in SUBSET Messages
    BY BodiesType DEF TypeOK
  <2>2. LedgerOf!Tell(p, Bodies(sent[p]))
    BY <1>0, <1>6 DEF Delivered, Online, LedgerOf!Tell
  <2> QED BY <2>1, <2>2 DEF LedgerOf!Next
<1>7. CASE Collect
  <2>1. LedgerOf!AllTold
    BY <1>0, <1>7 DEF Collect, Online, LedgerOf!AllTold
  <2> QED BY <2>1 DEF LedgerOf!Next
<1>8. ASSUME NEW p \in People, Unconfirmed(p) \/ Unavailable(p) \/ Unthrottle(p) PROVE Same
  BY <1>0, <1>8 DEF Unconfirmed, Unavailable, Unthrottle
<1>9. ASSUME NEW p \in People, NEW m \in Messages, Relay(p, m) PROVE Same
  BY <1>0, <1>9 DEF Relay
<1>10. CASE UNCHANGED vars
  BY <1>0, <1>10 DEF vars
<1> QED BY <1>1, <1>2, <1>3, <1>4, <1>5, <1>6, <1>7, <1>8, <1>9, <1>10 DEF Next, Outcome

\* Mentions implements Ledger: no path through hand-over, push, retry and
\* eviction loses a mention that the ledger would still owe, for any limits.
THEOREM LedgerKept == Spec => LedgerSpec
<1>1. Init => DebtInv
  <2> SUFFICES ASSUME Init PROVE DebtInv
    OBVIOUS
  <2>1. ASSUME NEW p \in People \ dir PROVE queue[p] = {}
    <3>1. nextSeq[p] = 0
      BY DEF Init
    <3>2. PICK row \in [People -> [1 .. LoadLimit -> Messages]] : queue = [q \in People |->
                                {[m |-> row[q][i], seq |-> i] : i \in 1 .. nextSeq[q]}]
      BY DEF Init
    <3> QED BY <3>1, <3>2
  <2>2. proven = {}
    BY DEF Init
  <2> QED BY <2>1, <2>2 DEF DebtInv
<1>2. TypeOK /\ Tails /\ DebtInv /\ [Next]_vars /\ TypeOK' => DebtInv'
  BY DebtStep
<1>3. Spec => []DebtInv
  BY <1>1, <1>2, Types, PTL DEF Spec
<1>4. Init => LedgerOf!Init
  <2>1. Init => queue \in [People -> SUBSET LedgerOf!Entry] /\ nextSeq \in [People -> Nat]
    <3>1. Entry \subseteq LedgerOf!Entry
      BY DEF Entry, LedgerOf!Entry
    <3> QED BY <3>1, InitHolds DEF TypeOK
  <2>2. Init => Online = {}
    BY DEF Init, Online
  <2> QED BY <2>1, <2>2 DEF Init, Online, LedgerOf!Init
<1>5. /\ TypeOK /\ Tails /\ PushInv /\ DebtInv /\ [Next]_vars /\ TypeOK'
      => [LedgerOf!Next]_LedgerOf!lvars
  BY LedgerStep DEF Online, LedgerOf!lvars
<1> QED BY <1>3, <1>4, <1>5, PushHolds, Types, PTL DEF Spec, LedgerSpec, LedgerOf!Spec
=============================================================================
