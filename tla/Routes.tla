------------------------------- MODULE Routes -------------------------------
(***************************************************************************)
(* How a notification of one absent person is sent: the throttle of        *)
(* hub/notifier.go, the two routes of service/lxmfnotify.go and the choice *)
(* of propagation nodes in service/propnodes.go.                           *)
(*                                                                         *)
(* Two goroutines may try to reach the person at the same time: the push   *)
(* loop, and one that /notify test has started.  Each makes the person     *)
(* addressable, asks whether their stamp policy is known, sends directly   *)
(* and waits for the proof, then selects nodes and uploads to one after    *)
(* the other.  Attempts for other people use the same nodes; what they do  *)
(* before they select touches only those people.  Announces arrive         *)
(* throughout.                                                             *)
(*                                                                         *)
(* One life of the process, which starts at time 0 knowing nobody.  The    *)
(* person's own announce, once heard, is not forgotten: PinPeers keeps it. *)
(***************************************************************************)
EXTENDS Naturals, Sequences, FiniteSets

CONSTANTS
  Nodes,         \* propagation nodes
  Nil,
  PinChoices,    \* the nodes the operator may have pinned, Nil for none
  Goroutines,    \* "push", "test" if the person asks for tests, and one for
                 \* every other attempt that may be under way at a time
  Fanout,        \* cfg.LXMFPropagationFanout
  MaxTracked,    \* maxTrackedNodes
  StaleAfter,    \* nodeStaleAfter
  MinAge,        \* nodeMinAge
  Cooldown,      \* nodeFailureCooldown
  PushInterval,  \* mentionPushInterval
  WarmUp,        \* notifierWarmup
  Horizon        \* bound: the time the clock reaches

ASSUME RoutesAssumption ==
  /\ IsFiniteSet(Nodes) /\ Nil \notin Nodes \cup Nat
  /\ PinChoices \subseteq Nodes \cup {Nil} /\ IsFiniteSet(Goroutines) /\ "push" \in Goroutines
  /\ Fanout \in Nat \ {0} /\ MaxTracked \in Nat \ {0}
  /\ {StaleAfter, MinAge, Cooldown, PushInterval, WarmUp, Horizon} \subseteq Nat

VARIABLES
  now,
  pinned,     \* propNodes.pinned, the operator's choice, or Nil
  known,      \* propNodes.nodes: node -> what is known of it, or Nil
  cache,      \* the transport's announces of nodes: "none", "good" or "bad"
  peerCache,  \* its entry for the person: "none", "stub" or "announced"
  owed,       \* the person has mentions queued
  lastPush,   \* Hub.lastPush, or Nil
  attempt,    \* goroutine -> how far it has come
  over,       \* history: nodes filed by RecordResult since the last eviction
  spent,      \* history: when the last push began that used a node, or Nil
  overwrote   \* history: a stub was written over an announce that came meanwhile

clock == <<now, pinned>>
peer == <<peerCache, overwrote>>
throttles == <<owed, lastPush, spent>>
nodes == <<known, over>>
vars == <<clock, nodes, cache, peer, throttles, attempt>>

Times == 0..Horizon

\* One propNode.  tried is the last outcome of an upload and, of a failure, at
\* its time; an older outcome changes no tier.
NodeRecords == [first : Times, last : Times, usable : BOOLEAN,
                tried : {"no", "ok", "failed"}, at : Times]
Heard(usable) == [first |-> now, last |-> now, usable |-> usable, tried |-> "no", at |-> 0]

ASSUME NilAssumption == Nil \notin NodeRecords

Filed == {n \in Nodes : known[n] # Nil}

Idle == [at |-> "idle", full |-> TRUE, policy |-> FALSE, left |-> <<>>,
         uploaded |-> FALSE, waiting |-> TRUE]

-----------------------------------------------------------------------------
\* What is heard

\* Mutant: only what is stale goes.
KeepFresh == {{n \in Filed : now - known[n].last <= StaleAfter}}

\* evictLocked: the stale ones go, then those heard least lately, until there
\* is room for one more.
KeptOnEviction ==
  LET fresh == {n \in Filed : now - known[n].last <= StaleAfter}
  IN  {K \in SUBSET fresh :
         /\ K = fresh \/ Cardinality(K) = MaxTracked - 1
         /\ Cardinality(K) < MaxTracked
         /\ \A n \in K, m \in fresh \ K : known[m].last <= known[n].last}

\* OnAnnounce, and the announce cache that the library keeps.
OnAnnounce(n, usable) ==
  /\ cache' = [cache EXCEPT ![n] = IF usable THEN "good" ELSE "bad"]
  /\ IF known[n] # Nil
       THEN /\ known' = [known EXCEPT ![n].last = now, ![n].usable = usable]
            /\ UNCHANGED over
       ELSE \E K \in KeptOnEviction :
              /\ known' = [m \in Nodes |-> IF m = n THEN Heard(usable)
                                           ELSE IF m \in K THEN known[m] ELSE Nil]
              /\ over' = 0
  /\ UNCHANGED <<clock, peer, throttles, attempt>>

\* The library's cache is bounded too.
Forget(n) ==
  /\ cache[n] # "none" /\ cache' = [cache EXCEPT ![n] = "none"]
  /\ UNCHANGED <<clock, nodes, peer, throttles, attempt>>

PeerAnnounces ==
  /\ peerCache # "announced" /\ peerCache' = "announced" /\ overwrote' = FALSE
  /\ UNCHANGED <<clock, nodes, cache, throttles, attempt>>

Tick ==
  /\ now < Horizon /\ now' = now + 1
  /\ UNCHANGED <<pinned, nodes, cache, peer, throttles, attempt>>

-----------------------------------------------------------------------------
\* The choice of nodes

\* tierOf.
Tier(n) ==
  IF known[n].tried = "ok" THEN 0
  ELSE IF known[n].tried = "failed" /\ now - known[n].at < Cooldown THEN 2
  ELSE 1

\* The filter of Select: what the map says, then what the cache says.
Eligible == {n \in Filed : /\ known[n].usable
                           /\ now - known[n].last <= StaleAfter
                           /\ now - known[n].first >= MinAge
                           /\ cache[n] = "good"}

\* Best tier first; within a tier, the node known longest.
Before(n, m) ==
  \/ Tier(n) < Tier(m)
  \/ Tier(n) = Tier(m) /\ known[n].first <= known[m].first

\* Select; which of two nodes heard first at one time leads is left open.
Selections ==
  IF pinned # Nil THEN {<<pinned>>}
  ELSE LET size == IF Cardinality(Eligible) < Fanout THEN Cardinality(Eligible) ELSE Fanout
       IN  {order \in [1..size -> Eligible] :
              \A i \in 1..size :
                /\ \A j \in 1..size : i < j => order[i] # order[j] /\ Before(order[i], order[j])
                /\ \A m \in Eligible \ {order[j] : j \in 1..size} : Before(order[i], m)}

\* RecordResult; a node that was evicted meanwhile, or pinned and never heard,
\* is filed as heard just now.
RecordResult(n, ok) ==
  LET node == IF known[n] # Nil THEN known[n] ELSE Heard(TRUE)
  IN  /\ known' = [known EXCEPT ![n] = [node EXCEPT !.tried = IF ok THEN "ok" ELSE "failed",
                                                   !.at = IF ok THEN 0 ELSE now]]
      /\ over' = IF known[n] # Nil THEN over ELSE over + 1

-----------------------------------------------------------------------------
\* An attempt

At(g, step) == attempt[g].at = step
Go(g, step) == attempt' = [attempt EXCEPT ![g].at = step]
Due(last, interval) == last # Nil => now - last >= interval
End(g) == attempt' = [attempt EXCEPT ![g] = Idle]

\* pushPendingMentions: the throttle starts before anything is tried.
Push ==
  /\ At("push", "idle") /\ owed
  /\ Due(lastPush, PushInterval)
  /\ lastPush' = now /\ Go("push", "look")
  /\ UNCHANGED <<clock, nodes, cache, peer, owed, spent>>

\* notifyTest, "full" for both routes.  Its own throttle is longer than a test
\* takes, so one is under way at a time.
Test(full) ==
  /\ "test" \in Goroutines /\ At("test", "idle")
  /\ attempt' = [attempt EXCEPT !["test"] = [Idle EXCEPT !.at = "look", !.full = full]]
  /\ UNCHANGED <<clock, nodes, cache, peer, throttles>>

\* An attempt for another person, whom the direct route did not reach.
AttemptForOther(g) ==
  /\ g \notin {"push", "test"} /\ At(g, "idle")
  /\ attempt' = [attempt EXCEPT ![g] = [Idle EXCEPT !.at = "select"]]
  /\ UNCHANGED <<clock, nodes, cache, peer, throttles>>

\* Mutant: the stub is written whatever the cache holds.
LookAndOverwrite(g) ==
  /\ At(g, "look") /\ Go(g, "policy") /\ peerCache' = "stub"
  /\ UNCHANGED <<clock, nodes, cache, overwrote, throttles>>

\* ensureAddressable: Recall and Restore each take the transport's lock.
Look(g) ==
  /\ At(g, "look") /\ Go(g, IF peerCache = "none" THEN "restore" ELSE "policy")
  /\ UNCHANGED <<clock, nodes, cache, peer, throttles>>

Restore(g) ==
  /\ At(g, "restore") /\ Go(g, "policy")
  /\ peerCache' = "stub" /\ overwrote' = (overwrote \/ peerCache = "announced")
  /\ UNCHANGED <<clock, nodes, cache, throttles>>

ReadPolicy(g) ==
  /\ At(g, "policy")
  /\ attempt' = [attempt EXCEPT ![g].at = "send", ![g].policy = peerCache = "announced"]
  /\ UNCHANGED <<clock, nodes, cache, peer, throttles>>

\* sendDirect is answered with a proof.  With the policy known the push is
\* delivered and what it said leaves the queue; without, it is unconfirmed.
Proved(g) ==
  /\ At(g, "send") /\ End(g)
  /\ owed' = (owed /\ ~(g = "push" /\ attempt[g].policy))
  /\ UNCHANGED <<clock, nodes, cache, peer, lastPush, spent>>

\* sendDirect fails; /notify test stops at that unless it is full.
Unproved(g) ==
  /\ At(g, "send")
  /\ IF attempt[g].full
       THEN attempt' = [attempt EXCEPT ![g] = [Idle EXCEPT !.at = "select"]]
       ELSE End(g)
  /\ UNCHANGED <<clock, nodes, cache, peer, throttles>>

\* ErrNotifierUnavailable: the push loop releases the throttle.
Release(g) == lastPush' = IF g = "push" THEN Nil ELSE lastPush

Select(g) ==
  /\ At(g, "select")
  /\ \E order \in Selections :
       IF order = <<>>
         THEN End(g) /\ Release(g)
         ELSE /\ attempt' = [attempt EXCEPT ![g].at = "upload", ![g].left = order]
              /\ UNCHANGED lastPush
  /\ UNCHANGED <<clock, nodes, cache, peer, owed, spent>>

\* What SendPropagated may say of a node; "unknown" is a waiting condition.
Outcomes(n) == CASE cache[n] = "none" -> {"unknown"}
                 [] cache[n] = "bad"  -> {"refused"}
                 [] OTHER             -> {"ok", "refused"}

\* Mutant: in the warm-up every failure is a reason to wait.
AnyFailureWaits(a, outcome) == TRUE

\* allWaiting after one more upload.
StillWaiting(a, outcome) == a.waiting /\ (outcome = "ok" \/ outcome = "unknown")

\* One turn of the loop over the nodes and, after the last, the verdict: no
\* upload, every failure a waiting condition and the process new to the mesh
\* means unavailable.
Upload(g) ==
  /\ At(g, "upload")
  /\ LET a == attempt[g]
         n == Head(a.left)
     IN  \E outcome \in Outcomes(n) :
           LET uploaded == a.uploaded \/ outcome = "ok"
               waiting == StillWaiting(a, outcome)
           IN  /\ RecordResult(n, outcome = "ok")
               /\ spent' = IF g = "push" /\ outcome # "unknown" THEN lastPush ELSE spent
               /\ IF Len(a.left) > 1
                    THEN /\ attempt' = [attempt EXCEPT ![g] = [a EXCEPT !.left = Tail(@),
                                          !.uploaded = uploaded, !.waiting = waiting]]
                         /\ UNCHANGED lastPush
                    ELSE /\ End(g)
                         /\ IF ~uploaded /\ waiting /\ now < WarmUp
                              THEN Release(g) ELSE UNCHANGED lastPush
  /\ UNCHANGED <<clock, cache, peer, owed>>

-----------------------------------------------------------------------------

Init ==
  /\ now = 0 /\ pinned \in PinChoices
  /\ known = [n \in Nodes |-> Nil] /\ cache = [n \in Nodes |-> "none"]
  /\ peerCache = "none" /\ owed = TRUE
  /\ lastPush = Nil
  /\ attempt = [g \in Goroutines |-> Idle]
  /\ over = 0 /\ spent = Nil /\ overwrote = FALSE

Next ==
  \/ \E n \in Nodes : Forget(n) \/ \E usable \in BOOLEAN : OnAnnounce(n, usable)
  \/ PeerAnnounces \/ Tick
  \/ Push \/ \E full \in BOOLEAN : Test(full)
  \/ \E g \in Goroutines : \/ Look(g) \/ Restore(g) \/ ReadPolicy(g) \/ Proved(g)
                           \/ Unproved(g) \/ Select(g) \/ Upload(g)
                           \/ AttemptForOther(g)

Spec == Init /\ [][Next]_vars

-----------------------------------------------------------------------------
\* Properties

Attempts == [at : {"idle", "look", "restore", "policy", "send", "select", "upload"},
             full : BOOLEAN, policy : BOOLEAN, left : UNION {[1..k -> Nodes] : k \in 0..Fanout},
             uploaded : BOOLEAN, waiting : BOOLEAN]

\* Types.  The map of nodes is bounded however many announce: beyond
\* maxTrackedNodes there are only those whose uploads were under way when they
\* were evicted, of one attempt for every person and the push loop.
TypeOK ==
  /\ now \in Times /\ pinned \in PinChoices
  /\ known \in [Nodes -> NodeRecords \cup {Nil}]
  /\ cache \in [Nodes -> {"none", "good", "bad"}]
  /\ peerCache \in {"none", "stub", "announced"} /\ owed \in BOOLEAN
  /\ {lastPush, spent} \subseteq Times \cup {Nil}
  /\ attempt \in [Goroutines -> Attempts] /\ overwrote \in BOOLEAN
  /\ \A g \in Goroutines : At(g, "upload") => attempt[g].left # <<>>
  /\ Cardinality(Filed) <= MaxTracked + over
  /\ over <= Cardinality(Goroutines) * Fanout

\* mentionPushInterval: after a push that used a node, accepted or not, the
\* next one of the person begins an interval later at the earliest, although
\* the throttle is released and swept in between.
PushesAreSpaced ==
  [][At("push", "idle") /\ ~At("push", "idle")' /\ spent # Nil
       => now - spent >= PushInterval]_vars

\* NotifyAbsent: mentions leave the queue on a proof only if the message that
\* was proved was stamped as the person's own announce asks, while a test for
\* the same person writes to the same cache; but for the announce that comes
\* between Recall and Restore.
DroppedWereStamped ==
  [][owed /\ ~owed' => peerCache = "announced" \/ overwrote]_vars

\* lxmfnotify.go, ensureAddressable: a live announce always wins over the stub.
AnnouncesAreKept == [][peerCache = "announced" => peerCache' = "announced"]_vars

\* propnodes.go, nodeFailureCooldown: a node that was tried and failed is not
\* taken ahead of one that was never tried.
UntriedComeFirst ==
  [][\A g \in Goroutines : At(g, "select") /\ At(g, "upload")' /\ pinned = Nil =>
       LET chosen == {attempt'[g].left[i] : i \in DOMAIN attempt'[g].left}
       IN  \A n \in chosen, m \in Eligible \ chosen :
             ~(known[n].tried = "failed" /\ known[m].tried = "no")]_vars
=============================================================================
