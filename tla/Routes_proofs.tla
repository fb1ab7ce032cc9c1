---------------------------- MODULE Routes_proofs ----------------------------
(***************************************************************************)
(* Theorems about the throttle, the stamps and the map of nodes of Routes, *)
(* for every choice of its constants.                                      *)
(***************************************************************************)
EXTENDS Routes, FiniteSetTheorems, TLAPS

-----------------------------------------------------------------------------
\* The invariant

Steps == {"idle", "look", "restore", "policy", "send", "select", "upload"}
Records == [at : Steps, full : BOOLEAN, policy : BOOLEAN, left : Seq(Nodes),
            uploaded : BOOLEAN, waiting : BOOLEAN]

Types ==
  /\ now \in Nat /\ lastPush \in Nat \cup {Nil} /\ spent \in Nat \cup {Nil}
  /\ attempt \in [Goroutines -> Records] /\ pinned \in Nodes \cup {Nil}
  /\ owed \in BOOLEAN /\ overwrote \in BOOLEAN

\* A push that used a node holds the throttle: it has not reached its end, or
\* ended without releasing it.  An older one is an interval ago, and so is the
\* last one by the time the next is under way.
SpacingInv ==
  spent # Nil =>
    \/ now - spent >= PushInterval
    \/ /\ lastPush = spent
       /\ "push" \in Goroutines /\ ~At("push", "idle") =>
            At("push", "upload") /\ (attempt["push"].uploaded \/ ~attempt["push"].waiting)

\* Whoever knows a policy took it from the person's announce, which the cache
\* still has unless a stub was written over it.
StampInv ==
  \A g \in Goroutines : At(g, "send") /\ attempt[g].policy =>
    peerCache = "announced" \/ overwrote

RoutesInv == Types /\ SpacingInv /\ StampInv

\* What Select chooses is a sequence of nodes.
LEMMA SelectionsAreSequences ==
  ASSUME Types, NEW order \in Selections
  PROVE  order \in Seq(Nodes)
<1> USE RoutesAssumption
<1>1. CASE pinned # Nil
  <2>1. order = <<pinned>> /\ pinned \in Nodes
    BY <1>1 DEF Selections, Types
  <2> QED
    BY <2>1
<1>2. CASE pinned = Nil
  <2>1. IsFiniteSet(Eligible) /\ Eligible \subseteq Nodes
    BY FS_Subset DEF Eligible, Filed
  <2>2. Cardinality(Eligible) \in Nat
    BY <2>1, FS_CardinalityType
  <2>3. PICK size \in Nat : order \in [1..size -> Eligible]
    BY <1>2, <2>2 DEF Selections
  <2> QED
    BY <2>1, <2>3
<1> QED
  BY <1>1, <1>2

\* What an attempt carries changes a field at a time.
LEMMA MovesOn ==
  ASSUME NEW r \in Records, NEW s \in Steps
  PROVE  /\ [r EXCEPT !.at = s] \in Records /\ [r EXCEPT !.at = s].at = s
         /\ [r EXCEPT !.at = s].policy = r.policy
BY DEF Records

LEMMA LearnsPolicy ==
  ASSUME NEW r \in Records, NEW b \in BOOLEAN
  PROVE  /\ [r EXCEPT !.policy = b] \in Records
         /\ [r EXCEPT !.policy = b].policy = b /\ [r EXCEPT !.policy = b].at = r.at
BY DEF Records

LEMMA TakesRoute ==
  ASSUME NEW r \in Records, NEW b \in BOOLEAN
  PROVE  [r EXCEPT !.full = b] \in Records /\ [r EXCEPT !.full = b].at = r.at
BY DEF Records

LEMMA TakesNodes ==
  ASSUME NEW r \in Records, NEW q \in Seq(Nodes)
  PROVE  [r EXCEPT !.left = q] \in Records /\ [r EXCEPT !.left = q].at = r.at
BY DEF Records

LEMMA IdleIsRecord == Idle \in Records /\ Idle.at = "idle"
BY DEF Idle, Records, Steps

\* A step that only touches attempts, one of them, keeps the types.
LEMMA OneAttempt ==
  ASSUME Types, NEW g \in Goroutines, NEW r \in Records,
         attempt' = [attempt EXCEPT ![g] = r],
         now' = now, pinned' = pinned, owed' \in BOOLEAN, overwrote' \in BOOLEAN,
         lastPush' \in Nat \cup {Nil}, spent' \in Nat \cup {Nil}
  PROVE  /\ Types'
         /\ attempt'[g] = r /\ \A h \in Goroutines \ {g} : attempt'[h] = attempt[h]
BY DEF Types

-----------------------------------------------------------------------------
\* Every action keeps it

\* What is heard reaches no attempt, and time only makes a push older.
LEMMA HearingKeeps ==
  ASSUME RoutesInv,
         \/ \E n \in Nodes : Forget(n) \/ \E usable \in BOOLEAN : OnAnnounce(n, usable)
         \/ PeerAnnounces \/ Tick \/ UNCHANGED vars
  PROVE  RoutesInv'
<1> USE RoutesAssumption DEF RoutesInv, Types, SpacingInv, StampInv, At
<1>1. /\ UNCHANGED <<lastPush, spent, attempt, pinned, owed>> /\ overwrote' \in BOOLEAN
      /\ now' = now \/ now' = now + 1
      /\ UNCHANGED <<peerCache, overwrote>> \/ peerCache' = "announced"
  BY DEF Forget, OnAnnounce, PeerAnnounces, Tick, vars, clock, nodes, peer, throttles
<1>2. Types'
  BY <1>1
<1>3. SpacingInv' /\ StampInv'
  BY <1>1
<1> QED
  BY <1>2, <1>3

\* A push begins only when the one before is an interval ago.
LEMMA PushKeeps ==
  ASSUME RoutesInv, Push
  PROVE  RoutesInv'
<1> DEFINE r == [attempt["push"] EXCEPT !.at = "look"]
<1>1. "push" \in Goroutines /\ attempt["push"] \in Records /\ "look" \in Steps
  BY RoutesAssumption DEF Push, RoutesInv, Types, Steps
<1>2. r \in Records /\ r.at = "look"
  BY <1>1, MovesOn
<1>3. /\ attempt' = [attempt EXCEPT !["push"] = r] /\ lastPush' = now
      /\ UNCHANGED <<now, pinned, owed, overwrote, peerCache, spent>>
      /\ Due(lastPush, PushInterval)
  BY DEF Push, Go, clock, peer
<1> HIDE DEF r
<1>4. /\ Types' /\ attempt'["push"] = r
      /\ \A h \in Goroutines \ {"push"} : attempt'[h] = attempt[h]
  BY <1>1, <1>2, <1>3, OneAttempt DEF RoutesInv, Types
<1>5. SpacingInv'
  BY <1>3, RoutesAssumption DEF RoutesInv, SpacingInv, Due, Types
<1>6. StampInv'
  BY <1>2, <1>3, <1>4 DEF RoutesInv, StampInv, At
<1> QED
  BY <1>4, <1>5, <1>6 DEF RoutesInv

\* A test leaves the push alone and knows no policy yet.
LEMMA TestKeeps ==
  ASSUME RoutesInv, NEW full \in BOOLEAN, Test(full)
  PROVE  RoutesInv'
<1> DEFINE r == [[Idle EXCEPT !.at = "look"] EXCEPT !.full = full]
<1>1. r \in Records /\ r.at = "look"
  <2>1. "look" \in Steps
    BY DEF Steps
  <2>2. [Idle EXCEPT !.at = "look"] \in Records /\ [Idle EXCEPT !.at = "look"].at = "look"
    BY <2>1, IdleIsRecord, MovesOn
  <2> QED
    BY <2>2, TakesRoute
<1>2. /\ "test" \in Goroutines /\ attempt' = [attempt EXCEPT !["test"] = r]
      /\ UNCHANGED <<now, pinned, owed, overwrote, peerCache, lastPush, spent>>
  BY DEF Test, clock, peer, throttles
<1> HIDE DEF r
<1>3. /\ Types' /\ attempt'["test"] = r
      /\ \A h \in Goroutines \ {"test"} : attempt'[h] = attempt[h]
  BY <1>1, <1>2, OneAttempt DEF RoutesInv, Types
<1>4. SpacingInv' /\ StampInv'
  BY <1>1, <1>2, <1>3 DEF RoutesInv, SpacingInv, StampInv, At
<1> QED
  BY <1>3, <1>4 DEF RoutesInv

\* An attempt for another person leaves the push alone and knows no policy.
LEMMA AttemptForOtherKeeps ==
  ASSUME RoutesInv, NEW g \in Goroutines, AttemptForOther(g)
  PROVE  RoutesInv'
<1> DEFINE r == [Idle EXCEPT !.at = "select"]
<1>1. r \in Records /\ r.at = "select"
  <2>1. "select" \in Steps
    BY DEF Steps
  <2> QED
    BY <2>1, IdleIsRecord, MovesOn
<1>2. /\ g # "push" /\ attempt' = [attempt EXCEPT ![g] = r]
      /\ UNCHANGED <<now, pinned, owed, overwrote, peerCache, lastPush, spent>>
  BY DEF AttemptForOther, clock, peer, throttles
<1> HIDE DEF r
<1>3. /\ Types' /\ attempt'[g] = r
      /\ \A h \in Goroutines \ {g} : attempt'[h] = attempt[h]
  BY <1>1, <1>2, OneAttempt DEF RoutesInv, Types
<1>4. SpacingInv' /\ StampInv'
  BY <1>1, <1>2, <1>3 DEF RoutesInv, SpacingInv, StampInv, At
<1> QED
  BY <1>3, <1>4 DEF RoutesInv

\* A stub may hide the announce that another attempt's policy came from, and
\* then that is on record.
LEMMA LookKeeps ==
  ASSUME RoutesInv, NEW g \in Goroutines, Look(g) \/ Restore(g)
  PROVE  RoutesInv'
<1>1. PICK step \in {"restore", "policy"} : Go(g, step)
  BY DEF Look, Restore
<1> DEFINE r == [attempt[g] EXCEPT !.at = step]
<1>2. r \in Records /\ r.at = step
  <2>1. attempt[g] \in Records /\ step \in Steps
    BY DEF RoutesInv, Types, Steps
  <2> QED
    BY <2>1, MovesOn
<1>3. /\ attempt' = [attempt EXCEPT ![g] = r] /\ attempt[g].at \in {"look", "restore"}
      /\ UNCHANGED <<now, pinned, owed, lastPush, spent>>
      /\ UNCHANGED <<peerCache, overwrote>> \/ overwrote' = (overwrote \/ peerCache = "announced")
      /\ overwrote' \in BOOLEAN
  BY <1>1 DEF Look, Restore, Go, At, clock, peer, throttles, RoutesInv, Types
<1> HIDE DEF r
<1>4. /\ Types' /\ attempt'[g] = r
      /\ \A h \in Goroutines \ {g} : attempt'[h] = attempt[h]
  BY <1>2, <1>3, OneAttempt DEF RoutesInv, Types
<1>5. SpacingInv'
  BY <1>2, <1>3, <1>4 DEF RoutesInv, SpacingInv, At
<1>6. StampInv'
  BY <1>2, <1>3, <1>4 DEF RoutesInv, StampInv, At
<1> QED
  BY <1>4, <1>5, <1>6 DEF RoutesInv

\* The policy is known when the announce is in the cache.
LEMMA ReadPolicyKeeps ==
  ASSUME RoutesInv, NEW g \in Goroutines, ReadPolicy(g)
  PROVE  RoutesInv'
<1> DEFINE r == [[attempt[g] EXCEPT !.at = "send"] EXCEPT !.policy = (peerCache = "announced")]
<1>1. attempt[g] \in Records /\ "send" \in Steps /\ (peerCache = "announced") \in BOOLEAN
  BY DEF RoutesInv, Types, Steps
<1>2. r \in Records /\ r.at = "send" /\ r.policy = (peerCache = "announced")
  <2>1. [attempt[g] EXCEPT !.at = "send"] \in Records /\ [attempt[g] EXCEPT !.at = "send"].at = "send"
    BY <1>1, MovesOn
  <2> QED
    BY <1>1, <2>1, LearnsPolicy
<1>3. /\ attempt' = [attempt EXCEPT ![g] = r] /\ attempt[g].at = "policy"
      /\ UNCHANGED <<now, pinned, owed, lastPush, spent, peerCache, overwrote>>
  BY <1>1 DEF ReadPolicy, At, clock, peer, throttles, RoutesInv, Types
<1> HIDE DEF r
<1>4. /\ Types' /\ attempt'[g] = r
      /\ \A h \in Goroutines \ {g} : attempt'[h] = attempt[h]
  BY <1>2, <1>3, OneAttempt DEF RoutesInv, Types
<1>5. SpacingInv'
  BY <1>2, <1>3, <1>4 DEF RoutesInv, SpacingInv, At
<1>6. StampInv'
  BY <1>2, <1>3, <1>4 DEF RoutesInv, StampInv, At
<1> QED
  BY <1>4, <1>5, <1>6 DEF RoutesInv

\* The direct route used no node, so its end leaves the spacing as it was.
LEMMA SentKeeps ==
  ASSUME RoutesInv, NEW g \in Goroutines, Proved(g) \/ Unproved(g)
  PROVE  RoutesInv'
<1>1. PICK step \in {"idle", "select"} :
        attempt' = [attempt EXCEPT ![g] = [Idle EXCEPT !.at = step]]
  <2>1. [Idle EXCEPT !.at = "idle"] = Idle
    BY DEF Idle
  <2> QED
    BY <2>1 DEF Proved, Unproved, End
<1> DEFINE r == [Idle EXCEPT !.at = step]
<1>2. r \in Records /\ r.at = step
  <2>1. step \in Steps
    BY DEF Steps
  <2> QED
    BY <2>1, IdleIsRecord, MovesOn
<1>3. /\ attempt' = [attempt EXCEPT ![g] = r] /\ attempt[g].at = "send" /\ owed' \in BOOLEAN
      /\ UNCHANGED <<now, pinned, lastPush, spent, peerCache, overwrote>>
  BY <1>1 DEF Proved, Unproved, At, clock, peer, throttles, RoutesInv, Types
<1> HIDE DEF r
<1>4. /\ Types' /\ attempt'[g] = r
      /\ \A h \in Goroutines \ {g} : attempt'[h] = attempt[h]
  BY <1>2, <1>3, OneAttempt DEF RoutesInv, Types
<1>5. SpacingInv'
  BY <1>2, <1>3, <1>4 DEF RoutesInv, SpacingInv, At
<1>6. StampInv'
  BY <1>2, <1>3, <1>4 DEF RoutesInv, StampInv, At
<1> QED
  BY <1>4, <1>5, <1>6 DEF RoutesInv

\* The throttle that Select releases was that of a push that used no node.
LEMMA SelectKeeps ==
  ASSUME RoutesInv, NEW g \in Goroutines, Select(g)
  PROVE  RoutesInv'
<1>1. PICK order \in Selections :
        IF order = <<>> THEN End(g) /\ Release(g)
        ELSE /\ attempt' = [attempt EXCEPT ![g].at = "upload", ![g].left = order]
             /\ UNCHANGED lastPush
  BY DEF Select
<1> DEFINE r == IF order = <<>> THEN Idle
                ELSE [[attempt[g] EXCEPT !.at = "upload"] EXCEPT !.left = order]
<1>2. attempt[g] \in Records /\ "upload" \in Steps /\ order \in Seq(Nodes)
  BY SelectionsAreSequences DEF RoutesInv, Types, Steps
<1>3. r \in Records /\ r.at \in {"idle", "upload"}
  <2>1. [attempt[g] EXCEPT !.at = "upload"] \in Records /\ [attempt[g] EXCEPT !.at = "upload"].at = "upload"
    BY <1>2, MovesOn
  <2> QED
    BY <1>2, <2>1, IdleIsRecord, TakesNodes
<1>4. /\ attempt' = [attempt EXCEPT ![g] = r] /\ attempt[g].at = "select"
      /\ UNCHANGED <<now, pinned, owed, spent, peerCache, overwrote>>
      /\ lastPush' = lastPush \/ (g = "push" /\ lastPush' = Nil)
  <2>1. attempt[g].at = "select" /\ UNCHANGED <<now, pinned, owed, spent, peerCache, overwrote>>
    BY DEF Select, At, clock, peer
  <2>2. CASE order = <<>>
    BY <1>1, <2>1, <2>2 DEF End, Release
  <2>3. CASE order # <<>>
    <3>1. attempt' = [attempt EXCEPT ![g] = [[attempt[g] EXCEPT !.at = "upload"] EXCEPT !.left = order]]
      BY <1>1, <2>3 DEF RoutesInv, Types
    <3> QED
      BY <1>1, <2>1, <2>3, <3>1
  <2> QED
    BY <2>2, <2>3
<1> HIDE DEF r
<1>5. /\ Types' /\ attempt'[g] = r
      /\ \A h \in Goroutines \ {g} : attempt'[h] = attempt[h]
  BY <1>3, <1>4, OneAttempt DEF RoutesInv, Types
<1>6. SpacingInv'
  BY <1>3, <1>4, <1>5 DEF RoutesInv, SpacingInv, At
<1>7. StampInv'
  BY <1>3, <1>4, <1>5 DEF RoutesInv, StampInv, At
<1> QED
  BY <1>5, <1>6, <1>7 DEF RoutesInv

\* An upload that says anything of its node leaves the push with an upload or
\* a reason not to wait, so that it does not release the throttle.
LEMMA UploadKeeps ==
  ASSUME RoutesInv, NEW g \in Goroutines, Upload(g)
  PROVE  RoutesInv'
<1> DEFINE a == attempt[g]
<1>1. PICK outcome \in Outcomes(Head(a.left)) :
        LET uploaded == a.uploaded \/ outcome = "ok"
            waiting == StillWaiting(a, outcome)
        IN  /\ spent' = IF g = "push" /\ outcome # "unknown" THEN lastPush ELSE spent
            /\ IF Len(a.left) > 1
                 THEN /\ attempt' = [attempt EXCEPT ![g] = [a EXCEPT !.left = Tail(@),
                                       !.uploaded = uploaded, !.waiting = waiting]]
                      /\ UNCHANGED lastPush
                 ELSE /\ End(g)
                      /\ IF ~uploaded /\ waiting /\ now < WarmUp
                           THEN Release(g) ELSE UNCHANGED lastPush
  BY DEF Upload
<1> DEFINE uploaded == a.uploaded \/ outcome = "ok"
           waiting == StillWaiting(a, outcome)
           more == Len(a.left) > 1
           r == IF more THEN [a EXCEPT !.left = Tail(@), !.uploaded = uploaded, !.waiting = waiting]
                ELSE Idle
<1>2. a \in Records /\ a.at = "upload" /\ UNCHANGED <<now, pinned, owed, peerCache, overwrote>>
  BY DEF Upload, At, RoutesInv, Types, clock, peer
<1>3. uploaded \in BOOLEAN /\ waiting \in BOOLEAN
  BY <1>2 DEF StillWaiting, Records
<1>4. /\ r \in Records
      /\ r.at = "idle" \/ (r.at = "upload" /\ r.uploaded = uploaded /\ r.waiting = waiting)
  <2>1. CASE ~more
    <3>1. r = Idle
      BY <2>1
    <3> HIDE DEF r
    <3> QED
      BY <3>1, IdleIsRecord
  <2>2. CASE more
    <3>1. a.left \in Seq(Nodes) /\ Tail(a.left) \in Seq(Nodes)
      BY <1>2, <2>2 DEF Records
    <3> DEFINE q == Tail(a.left)
    <3>2. r = [a EXCEPT !.left = q, !.uploaded = uploaded, !.waiting = waiting]
      BY <1>2, <2>2 DEF Records
    <3> HIDE DEF q, a, uploaded, waiting
    <3> QED
      BY <1>2, <1>3, <3>1, <3>2 DEF Records, q
  <2> QED
    BY <2>1, <2>2
<1>5. attempt' = [attempt EXCEPT ![g] = r]
  BY <1>1 DEF End
<1>6. spent' = IF g = "push" /\ outcome # "unknown" THEN lastPush ELSE spent
  BY <1>1
<1>7. lastPush' = lastPush \/ (g = "push" /\ lastPush' = Nil /\ ~uploaded /\ waiting)
  <2>1. IF more THEN UNCHANGED lastPush
        ELSE IF ~uploaded /\ waiting /\ now < WarmUp THEN Release(g) ELSE UNCHANGED lastPush
    BY <1>1
  <2> HIDE DEF more, uploaded, waiting
  <2> QED
    BY <2>1 DEF Release
<1>8. outcome # "unknown" => uploaded \/ ~waiting
  BY DEF StillWaiting
<1>9. (a.uploaded \/ ~a.waiting) => (uploaded \/ ~waiting)
  BY DEF StillWaiting
<1> HIDE DEF r, uploaded, waiting
<1>10. /\ Types' /\ attempt'[g] = r
       /\ \A h \in Goroutines \ {g} : attempt'[h] = attempt[h]
  BY <1>2, <1>4, <1>5, <1>6, <1>7, OneAttempt DEF RoutesInv, Types
<1>11. SpacingInv'
  <2>1. CASE g # "push"
    BY <1>2, <1>6, <1>7, <1>10, <2>1 DEF RoutesInv, SpacingInv, At
  <2>2. CASE g = "push" /\ outcome = "unknown"
    BY <1>2, <1>4, <1>6, <1>7, <1>9, <1>10, <2>2 DEF RoutesInv, SpacingInv, At
  <2>3. CASE g = "push" /\ outcome # "unknown"
    BY <1>2, <1>4, <1>6, <1>7, <1>8, <1>10, <2>3 DEF RoutesInv, SpacingInv, At
  <2> QED
    BY <2>1, <2>2, <2>3
<1>12. StampInv'
  BY <1>2, <1>4, <1>10 DEF RoutesInv, StampInv, At
<1> QED
  BY <1>10, <1>11, <1>12 DEF RoutesInv

\* So it holds for ever.
LEMMA RoutesInvHolds == Spec => []RoutesInv
<1>1. Init => RoutesInv
  <2> SUFFICES ASSUME Init PROVE RoutesInv
    OBVIOUS
  <2>1. \A g \in Goroutines : attempt[g] = Idle /\ attempt[g] \in Records
    BY IdleIsRecord DEF Init
  <2>2. Types
    BY <2>1, RoutesAssumption DEF Init, Types
  <2>3. SpacingInv /\ StampInv
    BY <2>1, IdleIsRecord DEF Init, SpacingInv, StampInv, At
  <2> QED
    BY <2>2, <2>3 DEF RoutesInv
<1>2. ASSUME RoutesInv, [Next]_vars PROVE RoutesInv'
  <2>1. ASSUME NEW g \in Goroutines,
               Look(g) \/ Restore(g) \/ ReadPolicy(g) \/ Proved(g) \/ Unproved(g) \/ Select(g) \/ Upload(g)
        PROVE  RoutesInv'
    BY <1>2, <2>1, LookKeeps, ReadPolicyKeeps, SentKeeps, SelectKeeps, UploadKeeps
  <2> QED
    BY <1>2, <2>1, HearingKeeps, PushKeeps, TestKeeps, AttemptForOtherKeeps DEF Next
<1> QED
  BY <1>1, <1>2, PTL DEF Spec

-----------------------------------------------------------------------------
\* The theorems

\* Only Push takes the push loop out of its rest.
LEMMA OnlyPushBegins ==
  ASSUME RoutesInv, [Next]_vars, At("push", "idle"), ~At("push", "idle")'
  PROVE  Push
<1> USE RoutesAssumption DEF At
<1>1. attempt' # attempt
  OBVIOUS
<1>2. ASSUME NEW full \in BOOLEAN, Test(full) PROVE FALSE
  BY <1>2 DEF Test, RoutesInv, Types
<1>3. ASSUME NEW g \in Goroutines,
             Look(g) \/ Restore(g) \/ ReadPolicy(g) \/ Proved(g) \/ Unproved(g) \/ Select(g) \/ Upload(g)
      PROVE  FALSE
  <2>1. attempt[g].at # "idle"
    BY <1>3 DEF Look, Restore, ReadPolicy, Proved, Unproved, Select, Upload
  <2>2. attempt'["push"] = attempt["push"]
    <3>1. g # "push"
      BY <2>1
    <3>2. CASE Look(g) \/ Restore(g) \/ ReadPolicy(g)
      BY <3>1, <3>2 DEF Look, Restore, ReadPolicy, Go, RoutesInv, Types
    <3>3. CASE Proved(g) \/ Unproved(g)
      BY <3>1, <3>3 DEF Proved, Unproved, End, RoutesInv, Types
    <3>4. CASE Select(g)
      BY <3>1, <3>4 DEF Select, End, RoutesInv, Types
    <3>5. CASE Upload(g)
      BY <3>1, <3>5 DEF Upload, End, RoutesInv, Types
    <3> QED
      BY <1>3, <3>2, <3>3, <3>4, <3>5
  <2> QED
    BY <2>2
<1>4. ~ \/ \E n \in Nodes : Forget(n) \/ \E usable \in BOOLEAN : OnAnnounce(n, usable)
        \/ PeerAnnounces \/ Tick \/ UNCHANGED vars
  BY <1>1 DEF Forget, OnAnnounce, PeerAnnounces, Tick, vars
<1>5. ASSUME NEW g \in Goroutines, AttemptForOther(g) PROVE FALSE
  BY <1>5 DEF AttemptForOther, RoutesInv, Types
<1> QED
  BY <1>2, <1>3, <1>4, <1>5 DEF Next

\* mentionPushInterval holds whatever the limits, the warm-up and the nodes
\* are: after a push that used a node the next one begins an interval later,
\* although pushes that used none give the throttle back.
THEOREM Spaced == Spec => PushesAreSpaced
<1> DEFINE Step == At("push", "idle") /\ ~At("push", "idle")' /\ spent # Nil => now - spent >= PushInterval
<1>1. RoutesInv /\ [Next]_vars => Step
  <2> SUFFICES ASSUME RoutesInv, [Next]_vars, At("push", "idle"), ~At("push", "idle")', spent # Nil
               PROVE  now - spent >= PushInterval
    OBVIOUS
  <2>1. Push
    BY OnlyPushBegins
  <2> QED
    BY <2>1 DEF Push, Due, RoutesInv, SpacingInv
<1>2. RoutesInv /\ [Next]_vars => [Step]_vars
  BY <1>1
<1> QED
  BY <1>2, RoutesInvHolds, PTL DEF Spec, PushesAreSpaced

\* Mentions leave the queue on a proof only if what was proved was stamped as
\* the person's announce asks, whatever a test for the same person writes into
\* the cache meanwhile; but for an announce between Recall and Restore.
THEOREM Stamped == Spec => DroppedWereStamped
<1> DEFINE Step == owed /\ ~owed' => peerCache = "announced" \/ overwrote
<1>1. RoutesInv /\ [Next]_vars => Step
  <2> SUFFICES ASSUME RoutesInv, [Next]_vars, owed, ~owed' PROVE peerCache = "announced" \/ overwrote
    OBVIOUS
  <2>1. PICK g \in Goroutines : Proved(g)
    BY DEF Next, Forget, OnAnnounce, PeerAnnounces, Tick, Push, Test, AttemptForOther, Look, Restore,
           ReadPolicy, Unproved, Select, Upload, throttles, vars
  <2> QED
    BY <2>1 DEF Proved, RoutesInv, StampInv
<1>2. RoutesInv /\ [Next]_vars => [Step]_vars
  BY <1>1
<1> QED
  BY <1>2, RoutesInvHolds, PTL DEF Spec, DroppedWereStamped

-----------------------------------------------------------------------------
\* The bounds of the map of nodes

\* The uploads that attempts may still file a node with, as a place of an
\* attempt each: none of an attempt once all of its nodes are filed, for only
\* an eviction takes one out.
Slots == Goroutines \X (1..Fanout)
Debts == {s \in Slots :
            /\ s[2] <= Len(attempt[s[1]].left)
            /\ \E i \in DOMAIN attempt[s[1]].left : known[attempt[s[1]].left[i]] = Nil}

\* A node that the operator pinned is the only one an upload files; otherwise
\* an upload files one that was evicted after it was chosen.
OverInv ==
  /\ over \in Nat
  /\ pinned = Nil => over + Cardinality(Debts) <= Cardinality(Slots)
  /\ pinned # Nil => /\ over <= 1 /\ (over = 1 => known[pinned] # Nil)
                     /\ \A g \in Goroutines : \A i \in DOMAIN attempt[g].left : attempt[g].left[i] = pinned

NodesInv ==
  /\ known \in [Nodes -> NodeRecords \cup {Nil}]
  /\ \A g \in Goroutines : Len(attempt[g].left) <= Fanout
  /\ Cardinality(Filed) <= MaxTracked + over
  /\ OverInv

\* The remaining types.
MoreTypes ==
  /\ now \in Times /\ pinned \in PinChoices /\ {lastPush, spent} \subseteq Times \cup {Nil}
  /\ cache \in [Nodes -> {"none", "good", "bad"}]
  /\ peerCache \in {"none", "stub", "announced"}
  /\ \A g \in Goroutines : At(g, "upload") => attempt[g].left # <<>>

\* What Select chooses is no longer than the fanout, and is filed unless it is
\* the operator's choice.
LEMMA SelectionsAreFiled ==
  ASSUME Types, NEW order \in Selections
  PROVE  /\ Len(order) <= Fanout
         /\ pinned = Nil => \A i \in DOMAIN order : known[order[i]] # Nil
         /\ pinned # Nil => \A i \in DOMAIN order : order[i] = pinned
<1> USE RoutesAssumption
<1>1. CASE pinned # Nil
  <2>1. order = <<pinned>>
    BY <1>1 DEF Selections
  <2> QED
    BY <1>1, <2>1
<1>2. CASE pinned = Nil
  <2>1. IsFiniteSet(Eligible) /\ Eligible \subseteq Filed
    BY FS_Subset DEF Eligible, Filed
  <2>2. Cardinality(Eligible) \in Nat
    BY <2>1, FS_CardinalityType
  <2> DEFINE size == IF Cardinality(Eligible) < Fanout THEN Cardinality(Eligible) ELSE Fanout
  <2>3. order \in [1..size -> Eligible]
    BY <1>2 DEF Selections
  <2>4. size \in Nat /\ size <= Fanout
    BY <2>2
  <2> HIDE DEF size
  <2>5. order \in Seq(Eligible) /\ Len(order) = size /\ DOMAIN order = 1..size
    BY <2>3, <2>4
  <2> QED
    BY <1>2, <2>1, <2>3, <2>4, <2>5 DEF Filed
<1> QED
  BY <1>1, <1>2

\* What an attempt still has to try only shrinks, but in Select.
LEMMA LeftShrinks ==
  ASSUME Types, [Next]_vars, NEW g \in Goroutines, ~Select(g)
  PROVE  \/ attempt'[g].left = attempt[g].left
         \/ attempt'[g].left = <<>>
         \/ /\ Upload(g) /\ attempt[g].left # <<>> /\ Len(attempt[g].left) > 1
            /\ attempt'[g].left = Tail(attempt[g].left)
<1>1. Idle.left = <<>>
  BY DEF Idle
<1>2. CASE attempt' = attempt
  BY <1>2
<1>3. ASSUME NEW h \in Goroutines, End(h)
      PROVE  attempt'[g].left = attempt[g].left \/ attempt'[g].left = <<>>
  BY <1>1, <1>3 DEF End, Types
<1>4. ASSUME NEW h \in Goroutines, NEW r \in Records, r.left \in {attempt[h].left, <<>>},
             attempt' = [attempt EXCEPT ![h] = r]
      PROVE  attempt'[g].left = attempt[g].left \/ attempt'[g].left = <<>>
  BY <1>4 DEF Types
<1>5. ASSUME NEW h \in Goroutines, NEW step \in Steps, Go(h, step)
      PROVE  attempt'[g].left = attempt[g].left
  BY <1>5 DEF Go, Types, Records
<1>6. CASE Push
  BY <1>5, <1>6, RoutesAssumption DEF Push, Steps
<1>7. ASSUME NEW full \in BOOLEAN, Test(full)
      PROVE  attempt'[g].left = attempt[g].left \/ attempt'[g].left = <<>>
  BY <1>7 DEF Test, Idle, Types
<1>8. ASSUME NEW h \in Goroutines, AttemptForOther(h)
      PROVE  attempt'[g].left = attempt[g].left \/ attempt'[g].left = <<>>
  BY <1>8 DEF AttemptForOther, Idle, Types
<1>9. ASSUME NEW h \in Goroutines, Look(h) \/ Restore(h)
      PROVE  attempt'[g].left = attempt[g].left
  BY <1>5, <1>9 DEF Look, Restore, Steps
<1>10. ASSUME NEW h \in Goroutines, ReadPolicy(h)
      PROVE  attempt'[g].left = attempt[g].left
  BY <1>10 DEF ReadPolicy, Types, Records
<1>11. ASSUME NEW h \in Goroutines, Proved(h) \/ Unproved(h)
       PROVE  attempt'[g].left = attempt[g].left \/ attempt'[g].left = <<>>
  <2>1. CASE Proved(h)
    BY <1>3, <2>1 DEF Proved
  <2>2. CASE Unproved(h)
    <3>1. \/ attempt' = [attempt EXCEPT ![h] = [Idle EXCEPT !.at = "select"]]
          \/ End(h)
      BY <2>2 DEF Unproved
    <3>2. [Idle EXCEPT !.at = "select"].left = <<>>
      BY DEF Idle
    <3> QED
      BY <1>3, <3>1, <3>2 DEF Types
  <2> QED
    BY <1>11, <2>1, <2>2
<1>12. ASSUME NEW h \in Goroutines, h # g, Select(h)
       PROVE  attempt'[g].left = attempt[g].left
  BY <1>12 DEF Select, End, Types
<1>13. ASSUME NEW h \in Goroutines, h # g, Upload(h)
       PROVE  attempt'[g].left = attempt[g].left
  BY <1>13 DEF Upload, End, Types
<1>14. ASSUME Upload(g)
       PROVE  \/ attempt'[g].left = <<>>
              \/ /\ Len(attempt[g].left) > 1
                 /\ attempt'[g].left = Tail(attempt[g].left)
  <2>1. \/ End(g)
        \/ /\ Len(attempt[g].left) > 1
           /\ \E x, y : attempt' = [attempt EXCEPT ![g] = [attempt[g] EXCEPT !.left = Tail(@), !.uploaded = x, !.waiting = y]]
    BY <1>14 DEF Upload
  <2>2. CASE End(g)
    BY <1>1, <2>2 DEF End, Types
  <2>3. ASSUME NEW x, NEW y,
               attempt' = [attempt EXCEPT ![g] = [attempt[g] EXCEPT !.left = Tail(@), !.uploaded = x, !.waiting = y]]
        PROVE  attempt'[g].left = Tail(attempt[g].left)
    BY <2>3 DEF Types, Records
  <2> QED
    BY <2>1, <2>2, <2>3
<1>15. CASE \/ \E n \in Nodes : Forget(n) \/ \E usable \in BOOLEAN : OnAnnounce(n, usable)
            \/ PeerAnnounces \/ Tick \/ UNCHANGED vars
  BY <1>2, <1>15 DEF Forget, OnAnnounce, PeerAnnounces, Tick, vars
<1>16. Len(attempt[g].left) > 1 => attempt[g].left # <<>>
  OBVIOUS
<1> QED
  BY <1>8, <1>6, <1>7, <1>9, <1>10, <1>11, <1>12, <1>13, <1>14, <1>15, <1>16 DEF Next

\* The end of a sequence is shorter by one and says what the sequence says.
LEMMA TailOf ==
  ASSUME NEW q \in Seq(Nodes), q # <<>>
  PROVE  /\ Tail(q) \in Seq(Nodes) /\ Len(q) \in Nat \ {0} /\ Len(Tail(q)) = Len(q) - 1
         /\ 1 \in DOMAIN q /\ Head(q) = q[1]
         /\ \A i \in DOMAIN Tail(q) : i + 1 \in DOMAIN q /\ Tail(q)[i] = q[i + 1]
OBVIOUS

\* As many places as the attempts can have, counted.
LEMMA SlotsCount ==
  /\ IsFiniteSet(Slots) /\ Cardinality(Slots) \in Nat \ {0}
  /\ Cardinality(Slots) = Cardinality(Goroutines) * Fanout
  /\ \A D \in SUBSET Slots :
       /\ IsFiniteSet(D) /\ Cardinality(D) \in Nat /\ Cardinality(D) <= Cardinality(Slots)
       /\ \A E \in SUBSET D : Cardinality(E) \in Nat /\ Cardinality(E) <= Cardinality(D)
<1> USE RoutesAssumption
<1>1. IsFiniteSet(1..Fanout) /\ Cardinality(1..Fanout) = Fanout
  <2>1. 1 \in Int /\ Fanout \in Int
    OBVIOUS
  <2>2. IsFiniteSet(1..Fanout) /\ Cardinality(1..Fanout) = IF 1 > Fanout THEN 0 ELSE Fanout - 1 + 1
    BY <2>1, FS_Interval, Zenon
  <2> QED
    BY <2>2
<1>2. IsFiniteSet(Slots) /\ Cardinality(Slots) = Cardinality(Goroutines) * Cardinality(1..Fanout)
  BY <1>1, FS_Product DEF Slots
<1>3. Slots # {}
  <2>1. <<"push", 1>> \in Slots
    BY DEF Slots
  <2> QED
    BY <2>1
<1>4. Cardinality(Slots) \in Nat /\ Cardinality(Slots) # 0
  BY <1>2, <1>3, FS_CardinalityType, FS_EmptySet
<1>5. ASSUME NEW S, IsFiniteSet(S), NEW D \in SUBSET S
      PROVE  IsFiniteSet(D) /\ Cardinality(D) \in Nat /\ Cardinality(D) <= Cardinality(S)
  <2>1. IsFiniteSet(D) /\ Cardinality(D) <= Cardinality(S)
    BY <1>5, FS_Subset
  <2> QED
    BY <2>1, FS_CardinalityType
<1> QED
  BY <1>1, <1>2, <1>4, <1>5

\* As long as no node is evicted, an attempt that goes on owes no more.
LEMMA DebtsShrink ==
  ASSUME Types, NodesInv,
         \A m \in Nodes : known[m] # Nil => known'[m] # Nil,
         NEW G \in SUBSET Goroutines,
         \A g \in G : \/ attempt'[g].left = attempt[g].left
                      \/ attempt'[g].left = <<>>
                      \/ attempt[g].left # <<>> /\ attempt'[g].left = Tail(attempt[g].left),
         \A g \in Goroutines \ G : \A i \in DOMAIN attempt'[g].left : known'[attempt'[g].left[i]] # Nil
  PROVE  Debts' \subseteq Debts
<1> SUFFICES ASSUME NEW s \in Debts' PROVE s \in Debts
  OBVIOUS
<1> DEFINE g == s[1]
           left == attempt[g].left
<1>1. /\ s \in Slots /\ g \in Goroutines /\ s[2] \in Nat /\ s[2] >= 1
      /\ s[2] <= Len(attempt'[g].left)
      /\ \E i \in DOMAIN attempt'[g].left : known'[attempt'[g].left[i]] = Nil
  BY DEF Debts, Slots
<1>2. g \in G
  BY <1>1
<1>3. left \in Seq(Nodes) /\ Len(left) \in Nat
  BY <1>1 DEF Types, Records
<1>4. CASE attempt'[g].left = left
  <2>1. \E i \in DOMAIN left : known[left[i]] = Nil
    BY <1>1, <1>3, <1>4
  <2> QED
    BY <1>1, <1>4, <2>1 DEF Debts
<1>5. CASE attempt'[g].left = <<>>
  <2>1. DOMAIN attempt'[g].left = {}
    BY <1>5
  <2> QED
    BY <1>1, <2>1
<1>6. CASE left # <<>> /\ attempt'[g].left = Tail(left)
  <2>1. /\ Tail(left) \in Seq(Nodes) /\ Len(Tail(left)) = Len(left) - 1
        /\ \A i \in DOMAIN Tail(left) : i + 1 \in DOMAIN left /\ Tail(left)[i] = left[i + 1]
                                        /\ left[i + 1] \in Nodes
    BY <1>3, <1>6, TailOf
  <2>2. \E i \in DOMAIN left : known[left[i]] = Nil
    <3>1. PICK i \in DOMAIN Tail(left) : known'[Tail(left)[i]] = Nil
      BY <1>1, <1>6
    <3>2. i + 1 \in DOMAIN left /\ known[left[i + 1]] = Nil
      BY <2>1, <3>1
    <3> HIDE DEF left
    <3> QED
      BY <3>2
  <2>3. s[2] <= Len(left)
    <3>1. s[2] <= Len(left) - 1
      BY <1>1, <1>6, <2>1
    <3> HIDE DEF left
    <3> QED
      BY <1>1, <1>3, <3>1
  <2> QED
    BY <1>1, <2>2, <2>3 DEF Debts
<1> QED
  BY <1>2, <1>4, <1>5, <1>6

\* So what is filed beyond the limit and what may still be stay bounded.
LEMMA OverAndDebts ==
  ASSUME over \in Nat, Debts' \in SUBSET Debts, over' = over,
         over + Cardinality(Debts) <= Cardinality(Slots)
  PROVE  over' + Cardinality(Debts') <= Cardinality(Slots)
<1>1. Debts \in SUBSET Slots
  BY DEF Debts
<1>2. /\ Cardinality(Debts) \in Nat /\ Cardinality(Debts') \in Nat /\ Cardinality(Slots) \in Nat
      /\ Cardinality(Debts') <= Cardinality(Debts)
  BY <1>1, SlotsCount
<1> QED
  BY <1>2

\* A node more is counted once more.
LEMMA FiledCount ==
  /\ IsFiniteSet(Filed) /\ Cardinality(Filed) \in Nat
  /\ \A K \in SUBSET Nodes, n \in Nodes :
       /\ Cardinality(K) \in Nat /\ Cardinality(K \cup {n}) \in Nat
       /\ Cardinality(K \cup {n}) <= Cardinality(K) + 1
       /\ \A F \in SUBSET K : Cardinality(F) <= Cardinality(K)
<1>1. IsFiniteSet(Nodes)
  BY RoutesAssumption
<1>2. Filed \in SUBSET Nodes
  BY DEF Filed
<1>3. ASSUME NEW K \in SUBSET Nodes, NEW n \in Nodes
      PROVE  /\ Cardinality(K) \in Nat /\ Cardinality(K \cup {n}) \in Nat
             /\ Cardinality(K \cup {n}) <= Cardinality(K) + 1
             /\ \A F \in SUBSET K : Cardinality(F) <= Cardinality(K)
  <2>1. IsFiniteSet(K)
    BY <1>1, FS_Subset
  <2>2. Cardinality(K) \in Nat
    BY <2>1, FS_CardinalityType
  <2>3. Cardinality(K \cup {n}) = IF n \in K THEN Cardinality(K) ELSE Cardinality(K) + 1
    BY <2>1, FS_AddElement
  <2>4. \A F \in SUBSET K : Cardinality(F) <= Cardinality(K)
    BY <2>1, FS_Subset
  <2> QED
    BY <2>2, <2>3, <2>4
<1> QED
  BY <1>1, <1>2, <1>3, FS_Subset, FS_CardinalityType

\* An announce files a node after an eviction, or dates one that is filed.
LEMMA AnnounceKeepsNodes ==
  ASSUME Types, MoreTypes, NodesInv, NEW n \in Nodes, NEW usable \in BOOLEAN, OnAnnounce(n, usable)
  PROVE  NodesInv'
<1> USE RoutesAssumption
<1>1. UNCHANGED <<pinned, attempt>> /\ now \in Times
  BY DEF OnAnnounce, clock, MoreTypes
<1>2. CASE known[n] # Nil
  <2>1. /\ known' = [known EXCEPT ![n].last = now, ![n].usable = usable] /\ over' = over
        /\ known[n] \in NodeRecords
    BY <1>2 DEF OnAnnounce, NodesInv
  <2> DEFINE r == [known[n] EXCEPT !.last = now, !.usable = usable]
  <2>2. r \in NodeRecords
    BY <1>1, <2>1 DEF NodeRecords
  <2>3. known' = [known EXCEPT ![n] = r]
    BY <2>1 DEF NodesInv
  <2> HIDE DEF r
  <2>4. r # Nil
    BY <2>2, NilAssumption
  <2>5. known' \in [Nodes -> NodeRecords \cup {Nil}] /\ \A m \in Nodes : known'[m] = Nil <=> known[m] = Nil
    BY <1>2, <2>2, <2>3, <2>4 DEF NodesInv
  <2>6. Filed' = Filed
    BY <2>5 DEF Filed
  <2>7. Debts' \in SUBSET Debts
    BY <1>1, <2>5, DebtsShrink
  <2>8. OverInv'
    <3>1. over' \in Nat /\ over' = over /\ over \in Nat
      BY <2>1 DEF NodesInv, OverInv
    <3>2. pinned = Nil => over' + Cardinality(Debts') <= Cardinality(Slots)
      BY <2>7, <3>1, OverAndDebts DEF NodesInv, OverInv
    <3>3. pinned # Nil => /\ over' <= 1 /\ (over' = 1 => known'[pinned] # Nil)
                          /\ \A g \in Goroutines : \A i \in DOMAIN attempt'[g].left : attempt'[g].left[i] = pinned
      BY <1>1, <2>1, <2>5 DEF NodesInv, OverInv, Types
    <3> QED
      BY <1>1, <3>1, <3>2, <3>3 DEF OverInv, Slots
  <2> QED
    BY <1>1, <2>1, <2>5, <2>6, <2>8 DEF NodesInv
<1>3. CASE known[n] = Nil
  <2>1. PICK K \in KeptOnEviction :
          known' = [m \in Nodes |-> IF m = n THEN Heard(usable) ELSE IF m \in K THEN known[m] ELSE Nil]
    BY <1>3 DEF OnAnnounce
  <2>2. over' = 0 /\ K \in SUBSET Nodes /\ Cardinality(K) < MaxTracked
    BY <1>3 DEF OnAnnounce, KeptOnEviction, Filed
  <2>3. Heard(usable) \in NodeRecords
    BY <1>1 DEF Heard, NodeRecords, Times
  <2>4. known' \in [Nodes -> NodeRecords \cup {Nil}]
    BY <2>1, <2>3 DEF NodesInv
  <2>5. Filed' \in SUBSET (K \cup {n})
    BY <2>1 DEF Filed
  <2>6. Cardinality(Filed)' <= MaxTracked
    <3>1. K \cup {n} \in SUBSET Nodes
      BY <2>2
    <3>2. Cardinality(Filed') <= Cardinality(K \cup {n})
      BY <2>5, <3>1, FiledCount
    <3>3. /\ Cardinality(K \cup {n}) <= Cardinality(K) + 1
          /\ Cardinality(K) \in Nat /\ Cardinality(K \cup {n}) \in Nat
      BY <2>2, FiledCount
    <3>4. Cardinality(Filed)' \in Nat
      BY <2>5, <3>1, FS_Subset, FS_CardinalityType
    <3> QED
      BY <2>2, <3>2, <3>3, <3>4
  <2>7. Cardinality(Debts') \in Nat /\ Cardinality(Debts') <= Cardinality(Slots) /\ Slots' = Slots
    <3>1. Debts' \in SUBSET Slots /\ Slots' = Slots
      BY DEF Debts, Slots
    <3> QED
      BY <3>1, SlotsCount
  <2>8. OverInv'
    BY <1>1, <2>2, <2>7 DEF NodesInv, OverInv
  <2>9. Cardinality(Filed)' <= MaxTracked + over'
    BY <2>2, <2>6
  <2> QED
    BY <1>1, <2>4, <2>8, <2>9 DEF NodesInv
<1> QED
  BY <1>2, <1>3

\* An upload files the node it tried, if that had been evicted meanwhile.
LEMMA UploadKeepsNodes ==
  ASSUME Types, MoreTypes, NodesInv, NEW g \in Goroutines, Upload(g), [Next]_vars
  PROVE  NodesInv'
<1> USE RoutesAssumption
<1> DEFINE left == attempt[g].left
           n == Head(left)
<1>1. left \in Seq(Nodes) /\ left # <<>> /\ n \in Nodes /\ pinned' = pinned /\ now \in Times
  BY DEF Upload, MoreTypes, Types, Records, clock
<1>2. PICK ok \in BOOLEAN : RecordResult(n, ok)
  BY DEF Upload
<1> DEFINE node == IF known[n] # Nil THEN known[n] ELSE Heard(TRUE)
           t == IF ok THEN "ok" ELSE "failed"
           w == IF ok THEN 0 ELSE now
           r == [node EXCEPT !.tried = t, !.at = w]
<1>3. node \in NodeRecords
  BY <1>1 DEF Heard, NodeRecords, Times, NodesInv
<1>4. r \in NodeRecords
  <2>1. t \in {"no", "ok", "failed"} /\ w \in Times
    BY <1>1 DEF Times
  <2> HIDE DEF node, t, w
  <2> QED
    BY <1>3, <2>1 DEF NodeRecords
<1>5. known' = [known EXCEPT ![n] = r] /\ over' = IF known[n] # Nil THEN over ELSE over + 1
  BY <1>2 DEF RecordResult
<1> HIDE DEF r, node, n
<1>6. /\ known' \in [Nodes -> NodeRecords \cup {Nil}] /\ known'[n] # Nil
      /\ \A m \in Nodes : known[m] # Nil => known'[m] # Nil
  BY <1>1, <1>4, <1>5, NilAssumption DEF NodesInv
<1>7. ASSUME NEW h \in Goroutines
      PROVE  \/ attempt'[h].left = attempt[h].left /\ h # g
             \/ attempt'[h].left = <<>>
             \/ /\ attempt[h].left # <<>>
                /\ attempt'[h].left = Tail(attempt[h].left)
  <2>1. CASE h = g
    <3>1. \/ End(g)
          \/ \E x, y : attempt' = [attempt EXCEPT ![g] = [attempt[g] EXCEPT !.left = Tail(@), !.uploaded = x, !.waiting = y]]
      BY DEF Upload
    <3>2. CASE End(g)
      BY <2>1, <3>2 DEF End, Idle, Types
    <3>3. ASSUME NEW x, NEW y,
                 attempt' = [attempt EXCEPT ![g] = [attempt[g] EXCEPT !.left = Tail(@), !.uploaded = x, !.waiting = y]]
          PROVE  attempt'[g].left = Tail(attempt[g].left)
      BY <3>3 DEF Types, Records
    <3> QED
      BY <1>1, <2>1, <3>1, <3>2, <3>3
  <2>2. CASE h # g
    BY <2>2 DEF Upload, End, Types
  <2> QED
    BY <2>1, <2>2
<1>8. \A h \in Goroutines : attempt[h].left \in Seq(Nodes) /\ Len(attempt[h].left) <= Fanout
  BY DEF Types, Records, NodesInv
<1>9. ASSUME NEW h \in Goroutines PROVE Len(attempt'[h].left) <= Fanout
  <2>1. Len(attempt[h].left) \in Nat /\ Len(attempt[h].left) <= Fanout
    BY <1>8
  <2>2. CASE attempt[h].left # <<>> /\ attempt'[h].left = Tail(attempt[h].left)
    <3>1. Len(Tail(attempt[h].left)) = Len(attempt[h].left) - 1
      BY <1>8, <2>2, TailOf
    <3> QED
      BY <2>1, <2>2, <3>1
  <2>3. CASE attempt'[h].left = <<>>
    BY <2>3
  <2> QED
    BY <1>7, <2>1, <2>2, <2>3
<1>10. Debts' \in SUBSET Debts
  BY <1>6, <1>7, DebtsShrink
<1>11. ASSUME known[n] = Nil PROVE <<g, Len(left)>> \in Debts /\ <<g, Len(left)>> \notin Debts'
  <2>1. Len(left) \in Nat \ {0} /\ 1 \in DOMAIN left /\ left[1] = n
    BY <1>1, TailOf DEF n
  <2>2. Len(left) <= Fanout
    BY <1>8
  <2>3. <<g, Len(left)>> \in Slots
    BY <2>1, <2>2 DEF Slots
  <2>4. <<g, Len(left)>> \in Debts
    BY <1>11, <2>1, <2>3 DEF Debts
  <2>5. Len(attempt'[g].left) < Len(left)
    <3>1. CASE attempt'[g].left = Tail(left)
      BY <1>1, <2>1, <3>1, TailOf
    <3>2. CASE attempt'[g].left = <<>>
      BY <2>1, <3>2
    <3> QED
      BY <1>7, <3>1, <3>2
  <2>6. Len(attempt'[g].left) \in Nat
    <3>1. CASE attempt'[g].left = Tail(left)
      BY <1>1, <2>1, <3>1, TailOf
    <3>2. CASE attempt'[g].left = <<>>
      BY <3>2
    <3> QED
      BY <1>7, <3>1, <3>2
  <2>7. <<g, Len(left)>> \notin Debts'
    <3> SUFFICES ASSUME <<g, Len(left)>> \in Debts' PROVE FALSE
      OBVIOUS
    <3> DEFINE l == Len(left)
               k == Len(attempt'[g].left)
    <3> HIDE DEF l, k
    <3>1. \A s \in Debts' : s[2] <= Len(attempt'[s[1]].left)
      BY DEF Debts
    <3>2. l <= k
      BY <3>1 DEF l, k
    <3>3. l \in Nat /\ k \in Nat
      BY <2>1, <2>6 DEF l, k
    <3>4. k < l
      BY <2>5 DEF l, k
    <3> QED
      BY <3>2, <3>3, <3>4
  <2> QED
    BY <2>4, <2>7
<1>12. OverInv'
  <2>1. over' \in Nat /\ over \in Nat
    BY <1>5 DEF NodesInv, OverInv
  <2>2. ASSUME pinned = Nil PROVE over' + Cardinality(Debts') <= Cardinality(Slots)
    <3>1. over + Cardinality(Debts) <= Cardinality(Slots)
      BY <2>2 DEF NodesInv, OverInv
    <3>2. CASE known[n] # Nil
      BY <1>5, <1>10, <2>1, <3>1, <3>2, OverAndDebts
    <3>3. CASE known[n] = Nil
      <4> DEFINE x == <<g, Len(left)>>
      <4>1. x \in Debts /\ Debts' \in SUBSET (Debts \ {x})
        BY <1>10, <1>11, <3>3
      <4> HIDE DEF x
      <4>2. Debts \in SUBSET Slots /\ Debts \ {x} \in SUBSET Slots
        BY DEF Debts
      <4>3. Cardinality(Debts \ {x}) = Cardinality(Debts) - 1
        BY <4>1, <4>2, SlotsCount, FS_RemoveElement
      <4>4. /\ Cardinality(Debts') \in Nat /\ Cardinality(Debts') <= Cardinality(Debts \ {x})
            /\ Cardinality(Debts) \in Nat /\ Cardinality(Slots) \in Nat
        BY <4>1, <4>2, SlotsCount
      <4>5. over' = over + 1
        BY <1>5, <3>3
      <4> QED
        BY <2>1, <3>1, <4>3, <4>4, <4>5
    <3> QED
      BY <3>2, <3>3
  <2>3. ASSUME pinned # Nil
        PROVE  /\ over' <= 1 /\ (over' = 1 => known'[pinned] # Nil)
               /\ \A h \in Goroutines : \A i \in DOMAIN attempt'[h].left : attempt'[h].left[i] = pinned
    <3>1. n = pinned
      BY <1>1, <2>3 DEF NodesInv, OverInv, n
    <3>2. over \in Nat /\ over <= 1 /\ (over = 1 => known[pinned] # Nil)
      BY <2>3 DEF NodesInv, OverInv
    <3>3. over' <= 1
      BY <1>5, <3>1, <3>2
    <3>4. ASSUME NEW h \in Goroutines, NEW i \in DOMAIN attempt'[h].left
          PROVE  attempt'[h].left[i] = pinned
      <4>1. \A j \in DOMAIN attempt[h].left : attempt[h].left[j] = pinned
        BY <2>3 DEF NodesInv, OverInv
      <4>2. CASE attempt'[h].left = Tail(attempt[h].left) /\ attempt[h].left # <<>>
        <5>1. i + 1 \in DOMAIN attempt[h].left /\ attempt'[h].left[i] = attempt[h].left[i + 1]
          BY <1>8, <3>4, <4>2, TailOf
        <5> QED
          BY <4>1, <5>1
      <4>3. CASE attempt'[h].left = <<>>
        BY <3>4, <4>3
      <4> QED
        BY <1>7, <3>4, <4>1, <4>2, <4>3
    <3> QED
      BY <1>6, <3>1, <3>3, <3>4
  <2> QED
    BY <1>1, <2>1, <2>2, <2>3 DEF OverInv, Slots
<1>13. Cardinality(Filed)' <= MaxTracked + over'
  <2>1. Filed' \in SUBSET (Filed \cup {n}) /\ (known[n] # Nil => Filed' \in SUBSET Filed) /\ Filed \in SUBSET Nodes
    BY <1>1, <1>5 DEF Filed, NodesInv
  <2>2. /\ Cardinality(Filed) \in Nat /\ Cardinality(Filed \cup {n}) \in Nat
        /\ Cardinality(Filed \cup {n}) <= Cardinality(Filed) + 1
    BY <1>1, <2>1, FiledCount
  <2>3. Filed \cup {n} \in SUBSET Nodes
    BY <1>1, <2>1
  <2>4. Cardinality(Filed') <= Cardinality(Filed \cup {n}) /\ Cardinality(Filed') \in Nat
    BY <1>1, <2>1, <2>3, FiledCount
  <2>5. known[n] # Nil => Cardinality(Filed') <= Cardinality(Filed)
    BY <1>1, <2>1, FiledCount
  <2>6. Cardinality(Filed) <= MaxTracked + over /\ over \in Nat
    BY DEF NodesInv, OverInv
  <2> QED
    BY <1>5, <2>2, <2>4, <2>5, <2>6
<1> QED
  BY <1>6, <1>9, <1>12, <1>13 DEF NodesInv

\* What Select chooses is filed, or is what the operator chose.
LEMMA SelectKeepsNodes ==
  ASSUME Types, NodesInv, NEW g \in Goroutines, Select(g)
  PROVE  NodesInv'
<1> USE RoutesAssumption
<1>1. UNCHANGED <<known, over, pinned>>
  BY DEF Select, nodes, clock
<1>2. PICK order \in Selections :
        IF order = <<>> THEN End(g)
        ELSE attempt' = [attempt EXCEPT ![g].at = "upload", ![g].left = order]
  BY DEF Select
<1>3. attempt'[g].left = order
  <2>1. CASE order = <<>>
    BY <1>2, <2>1 DEF End, Idle, Types
  <2>2. CASE order # <<>>
    BY <1>2, <2>2 DEF Types, Records
  <2> QED
    BY <2>1, <2>2
<1>4. \A h \in Goroutines \ {g} : attempt'[h].left = attempt[h].left
  BY <1>2 DEF End, Types
<1>5. /\ Len(order) <= Fanout
      /\ pinned = Nil => \A i \in DOMAIN order : known[order[i]] # Nil
      /\ pinned # Nil => \A i \in DOMAIN order : order[i] = pinned
  BY SelectionsAreFiled
<1>6. \A h \in Goroutines : Len(attempt'[h].left) <= Fanout
  BY <1>3, <1>4, <1>5 DEF NodesInv
<1>7. pinned = Nil => Debts' \in SUBSET Debts
  <2> SUFFICES ASSUME pinned = Nil PROVE Debts' \subseteq Debts
    OBVIOUS
  <2>1. \A i \in DOMAIN attempt'[g].left : known'[attempt'[g].left[i]] # Nil
    BY <1>1, <1>3, <1>5
  <2> QED
    BY <1>1, <1>4, <2>1, DebtsShrink
<1>8. OverInv'
  <2>1. pinned = Nil => over' + Cardinality(Debts') <= Cardinality(Slots)
    BY <1>1, <1>7, OverAndDebts DEF NodesInv, OverInv
  <2>2. ASSUME pinned # Nil, NEW h \in Goroutines, NEW i \in DOMAIN attempt'[h].left
        PROVE  attempt'[h].left[i] = pinned
    BY <1>3, <1>4, <1>5, <2>2 DEF NodesInv, OverInv
  <2> QED
    BY <1>1, <2>1, <2>2 DEF NodesInv, OverInv, Slots
<1>9. Cardinality(Filed)' <= MaxTracked + over'
  BY <1>1 DEF NodesInv, Filed
<1> QED
  BY <1>1, <1>6, <1>8, <1>9 DEF NodesInv

\* No other action files a node or evicts one, and attempts only get shorter.
LEMMA OthersKeepNodes ==
  ASSUME Types, NodesInv, [Next]_vars, UNCHANGED <<known, over, pinned>>,
         \A g \in Goroutines : ~Select(g) /\ ~Upload(g)
  PROVE  NodesInv'
<1> USE RoutesAssumption
<1>1. \A g \in Goroutines : attempt'[g].left = attempt[g].left \/ attempt'[g].left = <<>>
  BY LeftShrinks
<1>2. Debts' \in SUBSET Debts
  BY <1>1, DebtsShrink
<1>3. \A g \in Goroutines : Len(attempt'[g].left) <= Fanout
  <2>1. Len(<<>>) = 0
    OBVIOUS
  <2> QED
    BY <1>1, <2>1 DEF NodesInv
<1>4. pinned = Nil => over' + Cardinality(Debts') <= Cardinality(Slots)
  BY <1>2, OverAndDebts DEF NodesInv, OverInv
<1>5. pinned # Nil =>
        /\ over <= 1 /\ (over = 1 => known[pinned] # Nil)
        /\ \A g \in Goroutines : \A i \in DOMAIN attempt'[g].left : attempt'[g].left[i] = pinned
  BY <1>1 DEF NodesInv, OverInv
<1>6. OverInv'
  BY <1>4, <1>5 DEF NodesInv, OverInv, Slots
<1>7. Cardinality(Filed)' <= MaxTracked + over'
  BY DEF NodesInv, Filed
<1> QED
  BY <1>3, <1>6, <1>7 DEF NodesInv

\* The map of nodes stays bounded whatever happens next.
LEMMA NodesKept == ASSUME Types, MoreTypes, NodesInv, [Next]_vars PROVE NodesInv'
<1>1. ASSUME NEW n \in Nodes, NEW usable \in BOOLEAN, OnAnnounce(n, usable) PROVE NodesInv'
  BY <1>1, AnnounceKeepsNodes
<1>2. ASSUME NEW g \in Goroutines, Select(g) PROVE NodesInv'
  BY <1>2, SelectKeepsNodes
<1>3. ASSUME NEW g \in Goroutines, Upload(g) PROVE NodesInv'
  BY <1>3, UploadKeepsNodes
<1>4. ASSUME ~\E n \in Nodes, usable \in BOOLEAN : OnAnnounce(n, usable),
             ~\E g \in Goroutines : Select(g) \/ Upload(g)
      PROVE  NodesInv'
  <2>1. UNCHANGED <<known, over, pinned>>
    BY <1>4 DEF Next, vars, nodes, clock, Forget, PeerAnnounces, Tick, Push, Test,
                AttemptForOther, Look, Restore, ReadPolicy, Proved, Unproved
  <2> QED
    BY <1>4, <2>1, OthersKeepNodes
<1> QED
  BY <1>1, <1>2, <1>3, <1>4

\* An attempt that is uploading has a node to try.
LEMMA UploadingHasNodes ==
  ASSUME Types, MoreTypes, [Next]_vars, NEW g \in Goroutines, At(g, "upload")'
  PROVE  attempt'[g].left # <<>>
<1> USE DEF At
<1>1. CASE Select(g)
  <2>1. PICK order \in Selections :
          IF order = <<>> THEN End(g)
          ELSE attempt' = [attempt EXCEPT ![g].at = "upload", ![g].left = order]
    BY <1>1 DEF Select
  <2>2. order # <<>>
    BY <2>1 DEF End, Idle, Types
  <2> QED
    BY <2>1, <2>2 DEF Types, Records
<1>2. CASE Upload(g)
  <2>1. \/ End(g)
        \/ /\ Len(attempt[g].left) > 1
           /\ \E x, y : attempt' = [attempt EXCEPT ![g] = [attempt[g] EXCEPT !.left = Tail(@), !.uploaded = x, !.waiting = y]]
    BY <1>2 DEF Upload
  <2>2. ~End(g)
    BY DEF End, Idle, Types
  <2>3. attempt[g].left \in Seq(Nodes) /\ attempt \in [Goroutines -> Records]
    BY DEF Types, Records
  <2>4. Len(attempt[g].left) > 1
    BY <2>1, <2>2
  <2>5. ASSUME NEW x, NEW y,
               attempt' = [attempt EXCEPT ![g] = [attempt[g] EXCEPT !.left = Tail(@), !.uploaded = x, !.waiting = y]]
        PROVE  attempt'[g].left = Tail(attempt[g].left)
    BY <2>3, <2>5 DEF Records
  <2>6. attempt'[g].left = Tail(attempt[g].left)
    BY <2>1, <2>2, <2>5
  <2>7. attempt[g].left # <<>> /\ Len(Tail(attempt[g].left)) = Len(attempt[g].left) - 1
    BY <2>3, <2>4, TailOf
  <2> DEFINE q == attempt[g].left
  <2>8. Len(q) \in Nat /\ Len(q) > 1 /\ Len(Tail(q)) = Len(q) - 1
    BY <2>3, <2>4, <2>7
  <2> HIDE DEF q
  <2>9. Len(Tail(q)) # 0
    <3> DEFINE l == Len(q)
    <3>1. l \in Nat /\ l > 1 /\ Len(Tail(q)) = l - 1
      BY <2>8
    <3> HIDE DEF l
    <3>2. l - 1 # 0
      BY <3>1
    <3> QED
      BY <3>1, <3>2
  <2>10. Len(<<>>) = 0
    OBVIOUS
  <2>11. Tail(q) # <<>>
    BY <2>9, <2>10, Zenon
  <2> QED
    BY <2>6, <2>11 DEF q
<1>3. CASE attempt' = attempt
  BY <1>3 DEF MoreTypes
<1>4. ASSUME NEW h \in Goroutines,
             \/ Select(h) \/ Upload(h)
             \/ Look(h) \/ Restore(h) \/ ReadPolicy(h) \/ Proved(h) \/ Unproved(h)
      PROVE  h = g => Select(g) \/ Upload(g)
  <2> SUFFICES ASSUME h = g, ~(Select(g) \/ Upload(g)) PROVE FALSE
    OBVIOUS
  <2>1. CASE Look(g) \/ Restore(g) \/ ReadPolicy(g)
    BY <2>1 DEF Look, Restore, ReadPolicy, Go, Types, Records
  <2>2. CASE Proved(g) \/ Unproved(g)
    BY <2>2 DEF Proved, Unproved, End, Idle, Types
  <2> QED
    BY <1>4, <2>1, <2>2
<1>5. ASSUME NEW h \in Goroutines, h # g,
             Look(h) \/ Restore(h) \/ ReadPolicy(h) \/ Proved(h) \/ Unproved(h) \/ Select(h) \/ Upload(h)
      PROVE  attempt'[g] = attempt[g]
  <2>1. CASE Look(h) \/ Restore(h) \/ ReadPolicy(h)
    BY <1>5, <2>1 DEF Look, Restore, ReadPolicy, Go, Types
  <2>2. CASE Proved(h) \/ Unproved(h)
    BY <1>5, <2>2 DEF Proved, Unproved, End, Types
  <2>3. CASE Select(h)
    BY <1>5, <2>3 DEF Select, End, Types
  <2>4. CASE Upload(h)
    BY <1>5, <2>4 DEF Upload, End, Types
  <2> QED
    BY <1>5, <2>1, <2>2, <2>3, <2>4
<1>6. CASE Push \/ (\E full \in BOOLEAN : Test(full)) \/ \E h \in Goroutines : AttemptForOther(h)
  <2>1. attempt'[g].at # "upload" \/ attempt'[g] = attempt[g]
    BY <1>6 DEF Push, Test, AttemptForOther, Go, Idle, Types, Records
  <2> QED
    BY <2>1 DEF MoreTypes
<1>7. CASE \/ \E n \in Nodes : Forget(n) \/ \E usable \in BOOLEAN : OnAnnounce(n, usable)
           \/ PeerAnnounces \/ Tick \/ UNCHANGED vars
  BY <1>3, <1>7 DEF Forget, OnAnnounce, PeerAnnounces, Tick, vars
<1>8. ASSUME attempt'[g] = attempt[g] PROVE attempt'[g].left # <<>>
  BY <1>8 DEF MoreTypes
<1> QED
  BY <1>1, <1>2, <1>4, <1>5, <1>6, <1>7, <1>8 DEF Next

\* So do the other types.
LEMMA MoreTypesKept == ASSUME Types, MoreTypes, [Next]_vars PROVE MoreTypes'
<1> USE RoutesAssumption
<1>1. now' \in Times
  <2>1. now' = now \/ (now < Horizon /\ now' = now + 1)
    BY DEF Next, vars, clock, Forget, OnAnnounce, PeerAnnounces, Tick, Push, Test, AttemptForOther,
           Look, Restore, ReadPolicy, Proved, Unproved, Select, Upload
  <2> QED
    BY <2>1 DEF MoreTypes, Times
<1>2. pinned' = pinned
  BY DEF Next, vars, clock, Forget, OnAnnounce, PeerAnnounces, Tick, Push, Test, AttemptForOther,
         Look, Restore, ReadPolicy, Proved, Unproved, Select, Upload
<1>3. cache' \in [Nodes -> {"none", "good", "bad"}]
  BY DEF Next, vars, Forget, OnAnnounce, PeerAnnounces, Tick, Push, Test, AttemptForOther,
         Look, Restore, ReadPolicy, Proved, Unproved, Select, Upload, MoreTypes
<1>4. peerCache' \in {"none", "stub", "announced"}
  BY DEF Next, vars, peer, Forget, OnAnnounce, PeerAnnounces, Tick, Push, Test, AttemptForOther,
         Look, Restore, ReadPolicy, Proved, Unproved, Select, Upload, MoreTypes
<1>5. lastPush' \in {lastPush, now, Nil} /\ spent' \in {lastPush, spent}
  <2>1. ASSUME NEW g \in Goroutines, Select(g) \/ Upload(g)
        PROVE  lastPush' \in {lastPush, now, Nil} /\ spent' \in {lastPush, spent}
    <3>1. Release(g) => lastPush' \in {lastPush, Nil}
      BY DEF Release
    <3> QED
      BY <2>1, <3>1 DEF Select, Upload
  <2> QED
    BY <2>1 DEF Next, vars, throttles, Forget, OnAnnounce, PeerAnnounces, Tick, Push, Test,
                AttemptForOther, Look, Restore, ReadPolicy, Proved, Unproved
<1>6. {lastPush', spent'} \subseteq Times \cup {Nil}
  BY <1>5 DEF MoreTypes
<1>7. \A g \in Goroutines : At(g, "upload")' => attempt'[g].left # <<>>
  BY UploadingHasNodes
<1> QED
  BY <1>1, <1>2, <1>3, <1>4, <1>6, <1>7 DEF MoreTypes

\* Types, and the map of nodes is bounded: beyond maxTrackedNodes it holds only
\* those that the uploads under way at the last eviction may file: one fanout
\* of every attempt that there can be at a time.
THEOREM TypeCorrect == Spec => []TypeOK
<1> USE RoutesAssumption
<1>1. ASSUME Init PROVE MoreTypes /\ NodesInv
  <2>1. \A g \in Goroutines : attempt[g] = Idle /\ Len(attempt[g].left) = 0 /\ DOMAIN attempt[g].left = {}
                              /\ attempt[g].at = "idle"
    BY <1>1 DEF Init, Idle
  <2>2. MoreTypes
    BY <1>1, <2>1 DEF Init, MoreTypes, Times, At
  <2>3. Filed = {}
    BY <1>1 DEF Init, Filed
  <2>4. Cardinality(Debts) = 0 /\ Cardinality(Slots) \in Nat
    <3>1. Debts = {}
      BY <2>1 DEF Debts, Slots
    <3> QED
      BY <3>1, FS_EmptySet, SlotsCount
  <2>5. OverInv
    BY <1>1, <2>1, <2>4 DEF Init, OverInv
  <2>6. Cardinality(Filed) <= MaxTracked + over
    BY <1>1, <2>3, FS_EmptySet DEF Init
  <2>7. known \in [Nodes -> NodeRecords \cup {Nil}]
    BY <1>1 DEF Init
  <2> QED
    BY <2>1, <2>2, <2>5, <2>6, <2>7 DEF NodesInv
<1>2. RoutesInv /\ MoreTypes /\ NodesInv /\ [Next]_vars => MoreTypes' /\ NodesInv'
  BY MoreTypesKept, NodesKept DEF RoutesInv
<1>3. ASSUME RoutesInv, MoreTypes, NodesInv PROVE TypeOK
  <2>1. ASSUME NEW g \in Goroutines PROVE attempt[g] \in Attempts
    <3>1. attempt[g] \in Records /\ Len(attempt[g].left) <= Fanout
      BY <1>3 DEF RoutesInv, Types, NodesInv
    <3>2. attempt[g].left \in Seq(Nodes)
      BY <3>1 DEF Records
    <3> DEFINE k == Len(attempt[g].left)
    <3>3. k \in 0..Fanout /\ attempt[g].left \in [1..k -> Nodes]
      BY <3>1, <3>2
    <3>4. attempt[g].left \in UNION {[1..j -> Nodes] : j \in 0..Fanout}
      BY <3>3
    <3> QED
      BY <3>1, <3>4 DEF Records, Attempts, Steps
  <2>2. attempt \in [Goroutines -> Attempts]
    BY <1>3, <2>1 DEF RoutesInv, Types
  <2>3. over <= Cardinality(Goroutines) * Fanout
    <3>1. /\ Cardinality(Slots) \in Nat \ {0} /\ Cardinality(Slots) = Cardinality(Goroutines) * Fanout
          /\ Debts \in SUBSET Slots /\ Cardinality(Debts) \in Nat
      BY SlotsCount DEF Debts
    <3>2. over <= Cardinality(Slots)
      BY <1>3, <3>1 DEF NodesInv, OverInv
    <3> QED
      BY <3>1, <3>2
  <2> QED
    BY <1>3, <2>2, <2>3 DEF TypeOK, RoutesInv, MoreTypes, NodesInv, Types
<1> QED
  BY <1>1, <1>2, <1>3, RoutesInvHolds, PTL DEF Spec
=============================================================================
