------------------------------ MODULE Mentions ------------------------------
(***************************************************************************)
(* @mentions of people who are not looking: internal/hub/mentions.go and   *)
(* notifier.go, with the parts of session.go and commands_self.go that     *)
(* touch the queue.                                                        *)
(*                                                                         *)
(* The dispatcher relays a message to the room, then decides for each      *)
(* person it names whether the room reached them, whether to tell them on  *)
(* another link, or whether to hold the mention.  What is held is handed   *)
(* over on HELLO and /back.  Meanwhile mentionPushLoop collects a batch    *)
(* under the hub mutex, sends it over LXMF without the mutex, which may    *)
(* take minutes, and then takes the mutex again to drop what it sent.      *)
(*                                                                         *)
(* mention_notify is on and ping_interval is set.  Time is left out: what  *)
(* time does to a session or a throttle may happen at any moment.          *)
(***************************************************************************)
EXTENDS Naturals, FiniteSets

CONSTANTS
  People, Sessions, Messages,
  Nil,
  Owner,           \* whose session it is, proved at LINKIDENTIFY
  QueueLimit,      \* cfg.MaxPendingMentions, or its default
  MaxKnownPeers,   \* cfg.MaxKnownPeers; Load puts its default for 0 and less
  Named,           \* bound: whom messages name
  LoadLimit,       \* bound: the mentions a row of the peer file holds
  MaxCopies        \* bound: how far the copies somebody sees are counted

ASSUME MentionsAssumption ==
  /\ IsFiniteSet(People) /\ IsFiniteSet(Messages)
  /\ Nil \notin People \cup Sessions
  /\ Owner \in [Sessions -> People] /\ Named \subseteq People
  /\ QueueLimit \in Nat \ {0} /\ MaxKnownPeers \in Nat \ {0}
  /\ LoadLimit \in Nat /\ MaxCopies \in Nat

VARIABLES
  dir,        \* Hub.peers: the identities in the directory
  queue,      \* Peer.Mentions: entries, in the order of their Seq
  nextSeq,    \* Peer.NextSeq
  optOut,     \* Peer.NotifyOptOut
  link,       \* a session: "off", "open", "welcomed" (not or in Hub.sessions)
  away,       \* Session.away
  fresh,      \* heard from within one and a half ping intervals
  inRoom,     \* sessions in the member set of the room people write in
  reach,      \* there is still a client at the other end of the link
  disp,       \* what the dispatcher is in the middle of
  batch,      \* pushPendingMentions: people whose notification is to be sent
  proven,     \* the one whose delivery proof has come back
  sent, highSeq,    \* what each notification says, and its newest Seq
  throttled,  \* Hub.lastPush within mentionPushInterval
  posted, told, copies,  \* history: named, handed over, and seen how often
  declined,   \* history: what somebody held and did not want
  restarted   \* history: forgotten while a notification for them was under way

peers == <<dir, queue, nextSeq, optOut>>
links == <<link, away, fresh, inRoom, reach>>
pushing == <<batch, proven, sent, highSeq, throttled>>
history == <<posted, told, copies, declined, restarted>>
vars == <<peers, links, disp, pushing, history>>

Entry == [m: Messages, seq: Nat \ {0}]

Connected(p) == {s \in Sessions : Owner[s] = p /\ link[s] # "off"}
Bodies(E) == {e.m : e \in E}

\* Mutant: a full queue turns new mentions away instead of evicting old ones.
FirstKept(E, max) == {e \in E : Cardinality({f \in E : f.seq < e.seq}) < max}

\* The last max entries of a queue, as the slice expression keeps them.
Last(E, max) == {e \in E : Cardinality({f \in E : f.seq > e.seq}) < max}

\* The Seq of a queue's last entry.
LastSeq(E) == CHOOSE n \in {e.seq : e \in E} : \A e \in E : e.seq <= n

\* p sees the mentions ms once more, if somebody is there to see them.
Sees(p, ms, here) ==
  copies' = [copies EXCEPT ![p] = [m \in Messages |->
               IF here /\ m \in ms /\ copies[p][m] < MaxCopies
                 THEN copies[p][m] + 1 ELSE copies[p][m]]]

Doing(op, p, m, s) == [op |-> op, p |-> p, m |-> m, s |-> s]
Idle == Doing("idle", Nil, Nil, Nil)

-----------------------------------------------------------------------------
\* Links and presence

\* A peer that identified sends the first frame of a link, which makes the
\* session; a client that vanishes says nothing.
Connect(s) ==
  /\ disp = Idle
  /\ link[s] = "off" /\ link' = [link EXCEPT ![s] = "open"]
  /\ reach' = [reach EXCEPT ![s] = TRUE] /\ fresh' = [fresh EXCEPT ![s] = TRUE]
  /\ UNCHANGED <<peers, away, inRoom, disp, pushing, history>>

Vanish(s) ==
  /\ reach[s] /\ reach' = [reach EXCEPT ![s] = FALSE]
  /\ UNCHANGED <<peers, link, away, fresh, inRoom, disp, pushing, history>>

\* Session.Close, by the keepalive, the janitor, the watchdog or a command.
Close(s) ==
  /\ link[s] # "off" /\ link' = [link EXCEPT ![s] = "off"]
  /\ reach' = [reach EXCEPT ![s] = FALSE] /\ inRoom' = inRoom \ {s}
  /\ away' = [away EXCEPT ![s] = FALSE] /\ fresh' = [fresh EXCEPT ![s] = FALSE]
  /\ UNCHANGED <<peers, disp, pushing, history>>

\* Nothing heard for one and a half ping intervals.
FallSilent(s) ==
  /\ fresh[s] /\ fresh' = [fresh EXCEPT ![s] = FALSE]
  /\ UNCHANGED <<peers, link, away, inRoom, reach, disp, pushing, history>>

\* A frame of s arrives: OnInbound notes the time before it does anything.
Frame(s) ==
  /\ disp = Idle /\ link[s] # "off" /\ reach[s]
  /\ fresh' = [fresh EXCEPT ![s] = TRUE]
  /\ UNCHANGED <<link, reach>>

\* A frame the WELCOME gate lets through.
Request(s) == Frame(s) /\ link[s] = "welcomed"

\* A PONG, which needs no welcome, or a request that leaves rooms, away and
\* queue alone.
Pong(s) ==
  /\ Frame(s)
  /\ UNCHANGED <<peers, away, inRoom, disp, pushing, history>>

Enter(s) ==
  /\ Request(s) /\ inRoom' = inRoom \cup {s}
  /\ UNCHANGED <<peers, away, disp, pushing, history>>

\* PART, /kick or /ban.
Leave(s) ==
  /\ disp = Idle /\ s \in inRoom /\ inRoom' = inRoom \ {s}
  /\ UNCHANGED <<peers, link, away, fresh, reach, disp, pushing, history>>

-----------------------------------------------------------------------------
\* HELLO and /back

\* handleHello: a session that was welcomed before is reset first.
Hello(s) ==
  /\ disp = Idle /\ link[s] # "off" /\ reach[s]
  /\ link' = [link EXCEPT ![s] = "welcomed"]
  /\ fresh' = [fresh EXCEPT ![s] = TRUE] /\ away' = [away EXCEPT ![s] = FALSE]
  /\ inRoom' = inRoom \ {s}
  /\ disp' = Doing("file", Nil, Nil, s)
  /\ UNCHANGED <<peers, reach, pushing, history>>

\* evictOldestPeerLocked: somebody owed nothing, or else anybody; which of
\* them has not been seen for longest is left open here, and is in Directory.
Evictable == LET free == {p \in dir : queue[p] = {}}
             IN  IF free # {} THEN free ELSE dir

\* rememberPeer for somebody new, whose numbers start at the beginning.
File(p) ==
  /\ \E gone \in IF Cardinality(dir) < MaxKnownPeers THEN {{}} ELSE {{v} : v \in Evictable} :
       /\ dir' = (dir \ gone) \cup {p}
       /\ queue' = [q \in People |-> IF q \in gone \cup {p} THEN {} ELSE queue[q]]
       /\ restarted' = restarted \cup (gone \cap (batch \cup proven))
  /\ nextSeq' = [nextSeq EXCEPT ![p] = 0] /\ optOut' = [optOut EXCEPT ![p] = FALSE]

\* handleHello's last calls.  A Close in between may have taken the identity
\* away, and then neither does anything.
Remember ==
  /\ disp.op = "file"
  /\ \/ /\ Owner[disp.s] \in dir /\ UNCHANGED peers
        /\ disp' = Doing("flush", Nil, Nil, disp.s) /\ UNCHANGED restarted
     \/ /\ Owner[disp.s] \notin dir /\ File(Owner[disp.s])
        /\ disp' = Doing("flush", Nil, Nil, disp.s)
     \/ /\ link[disp.s] = "off" /\ UNCHANGED peers
        /\ disp' = Idle /\ UNCHANGED restarted
  /\ UNCHANGED <<links, pushing, posted, told, copies, declined>>

\* flushMentions: the queue is emptied under the mutex, then written to the
\* link, whether or not anybody is still there.
FlushTo(s) ==
  LET p == Owner[s]
      held == IF p \in dir THEN queue[p] ELSE {}
  IN  /\ queue' = [queue EXCEPT ![p] = {}]
      /\ told' = [told EXCEPT ![p] = @ \cup Bodies(held)]
      /\ Sees(p, Bodies(held), reach[s])

Flush ==
  /\ disp.op = "flush" /\ disp' = Idle
  /\ \/ FlushTo(disp.s)
     \/ link[disp.s] = "off" /\ UNCHANGED <<queue, told, copies>>
  /\ UNCHANGED <<dir, nextSeq, optOut, links, pushing, posted, declined, restarted>>

Away(s) ==
  /\ Request(s) /\ away' = [away EXCEPT ![s] = TRUE]
  /\ UNCHANGED <<peers, inRoom, disp, pushing, history>>

\* cmdBack clears the mark, then flushes.
Back(s) ==
  /\ Request(s) /\ away[s] /\ away' = [away EXCEPT ![s] = FALSE]
  /\ disp' = Doing("flush", Nil, Nil, s)
  /\ UNCHANGED <<peers, inRoom, pushing, history>>

\* At their own word: what p holds is not wanted.
Unwanted(p) ==
  /\ queue' = [queue EXCEPT ![p] = {}]
  /\ declined' = [declined EXCEPT ![p] = @ \cup Bodies(queue[p])]
  /\ UNCHANGED <<posted, told, copies, restarted>>

\* /mentions clear.
Clear(s) ==
  /\ Request(s) /\ Owner[s] \in dir /\ Unwanted(Owner[s])
  /\ UNCHANGED <<dir, nextSeq, optOut, away, inRoom, disp, pushing>>

\* Mutant: turning notifications off leaves what is waiting.
NotifyOffKeeping(s) ==
  /\ Request(s) /\ Owner[s] \in dir
  /\ optOut' = [optOut EXCEPT ![Owner[s]] = TRUE]
  /\ UNCHANGED <<dir, queue, nextSeq, away, inRoom, disp, pushing, history>>

\* notifySetPreference: turning notifications off discards what is waiting.
NotifyOff(s) ==
  /\ Request(s) /\ Owner[s] \in dir
  /\ optOut' = [optOut EXCEPT ![Owner[s]] = TRUE]
  /\ Unwanted(Owner[s])
  /\ UNCHANGED <<dir, nextSeq, away, inRoom, disp, pushing>>

NotifyOn(s) ==
  /\ Request(s) /\ Owner[s] \in dir
  /\ optOut' = [optOut EXCEPT ![Owner[s]] = FALSE]
  /\ UNCHANGED <<dir, queue, nextSeq, away, inRoom, disp, pushing, history>>

-----------------------------------------------------------------------------
\* Naming somebody

\* handleMsg relays message m, which names p, to everybody in the room.  p is
\* somebody resolveOneMentionLocked can find: in the directory or connected.
Relay(p, m) ==
  /\ disp = Idle /\ p \in Named /\ m \notin posted[p]
  /\ p \in dir \/ \E s \in Connected(p) : link[s] = "welcomed"
  /\ posted' = [posted EXCEPT ![p] = @ \cup {m}]
  /\ Sees(p, {m}, \E s \in inRoom : Owner[s] = p /\ reach[s])
  /\ disp' = Doing("note", p, m, Nil)
  /\ UNCHANGED <<peers, links, pushing, told, declined, restarted>>

\* mentionLivenessProven and not away: the session counts as a person.
Present(s) == link[s] # "off" /\ ~away[s] /\ fresh[s]

\* Mutant: the number is taken before it is raised.
EnqueueFromZero(p, m) ==
  /\ nextSeq' = [nextSeq EXCEPT ![p] = @ + 1]
  /\ queue' = [queue EXCEPT ![p] = Last(@ \cup {[m |-> m, seq |-> nextSeq[p]]}, QueueLimit)]

\* queueMentionLocked: number the mention, append it, evict the oldest.
Enqueue(p, m) ==
  /\ nextSeq' = [nextSeq EXCEPT ![p] = @ + 1]
  /\ queue' = [queue EXCEPT ![p] =
                 Last(@ \cup {[m |-> m, seq |-> nextSeq[p] + 1]}, QueueLimit)]

\* noteMentions for one target.  The session is whichever one of theirs the
\* lookup met first, or none.
Note ==
  /\ disp.op = "note" /\ disp' = Idle
  /\ \/ \* opted out, or present in the room: nothing to do
        /\ \/ disp.p \in dir /\ optOut[disp.p]
           \/ \E s \in Connected(disp.p) : Present(s) /\ s \in inRoom
        /\ UNCHANGED <<queue, nextSeq, told, copies>>
     \/ \* present elsewhere: a NOTICE on that link
        /\ disp.p \in dir => ~optOut[disp.p]
        /\ \E s \in Connected(disp.p) :
             Present(s) /\ s \notin inRoom /\ Sees(disp.p, {disp.m}, reach[s])
        /\ told' = [told EXCEPT ![disp.p] = @ \cup {disp.m}]
        /\ UNCHANGED <<queue, nextSeq>>
     \/ \* absent: held, if the directory has them
        /\ Connected(disp.p) = {} \/ \E s \in Connected(disp.p) : ~Present(s)
        /\ disp.p \in dir => ~optOut[disp.p]
        /\ IF disp.p \in dir THEN Enqueue(disp.p, disp.m)
                             ELSE UNCHANGED <<queue, nextSeq>>
        /\ UNCHANGED <<told, copies>>
  /\ UNCHANGED <<dir, optOut, links, pushing, posted, declined, restarted>>

-----------------------------------------------------------------------------
\* mentionPushLoop

\* Whom pushPendingMentions may send to, and must: a connected person who is
\* not away is skipped, judged by whichever session the lookup meets first.
Waiting == {p \in dir : queue[p] # {} /\ ~optOut[p] /\ p \notin throttled}
AnyLinkLooks(s) == link[s] # "off"  \* Mutant: /away is not asked about.
Looking(s) == ~away[s]
MayPush(p) == Connected(p) = {} \/ \E s \in Connected(p) : ~Looking(s)
MustPush(p) == \A s \in Connected(p) : ~Looking(s)

\* The first section: render a notification for each and start the throttle.
Collect ==
  /\ batch = {} /\ proven = {}
  /\ \E B \in SUBSET {p \in Waiting : MayPush(p)} :
       /\ B # {} /\ {p \in Waiting : MustPush(p)} \subseteq B
       /\ batch' = B /\ throttled' = throttled \cup B
       /\ sent' = [p \in People |-> IF p \in B THEN queue[p] ELSE sent[p]]
       /\ highSeq' = [p \in People |-> IF p \in B THEN LastSeq(queue[p]) ELSE highSeq[p]]
  /\ restarted' = {}
  /\ UNCHANGED <<peers, links, disp, proven, posted, told, copies, declined>>

\* NotifyAbsent returns nil: the recipient's own delivery proof came back.
Delivered(p) ==
  /\ p \in batch /\ proven = {}
  /\ batch' = batch \ {p} /\ proven' = {p}
  /\ told' = [told EXCEPT ![p] = @ \cup Bodies(sent[p])]
  /\ Sees(p, Bodies(sent[p]), TRUE)
  /\ UNCHANGED <<peers, links, disp, sent, highSeq, throttled, posted, declined, restarted>>

\* Mutant: what was sent is dropped by count, from the front of the queue.
KeptByCount(p) ==
  {e \in queue[p] : Cardinality({f \in queue[p] : f.seq < e.seq}) >= Cardinality(sent[p])}

\* What DropSent leaves in the queue: everything newer than what was sent.
Kept(p) == {e \in queue[p] : e.seq > highSeq[p]}

\* The section after it: drop what was sent, by sequence number.
DropSent ==
  /\ proven # {} /\ proven' = {}
  /\ queue' = [p \in People |-> IF p \in proven \cap dir THEN Kept(p) ELSE queue[p]]
  /\ UNCHANGED <<dir, nextSeq, optOut, links, disp, batch, sent, highSeq, throttled, history>>

\* Mutant: a notification without a receipt counts as delivered.
UnconfirmedIsDelivered(p) ==
  /\ p \in batch /\ proven = {} /\ batch' = batch \ {p} /\ proven' = {p}
  /\ UNCHANGED <<peers, links, disp, sent, highSeq, throttled, history>>

\* ErrDeliveredUnconfirmed, or another error: it may have got there.
Unconfirmed(p) ==
  /\ p \in batch /\ proven = {} /\ batch' = batch \ {p}
  /\ \E arrives \in BOOLEAN : Sees(p, Bodies(sent[p]), arrives)
  /\ UNCHANGED <<peers, links, disp, proven, sent, highSeq, throttled, posted, told, declined,
                 restarted>>

\* ErrNotifierUnavailable: nothing was tried, so the throttle is released.
Unavailable(p) ==
  /\ p \in batch /\ proven = {} /\ batch' = batch \ {p}
  /\ throttled' = throttled \ {p}
  /\ UNCHANGED <<peers, links, disp, proven, sent, highSeq, history>>

\* mentionPushInterval has passed.
Unthrottle(p) ==
  /\ p \in throttled /\ throttled' = throttled \ {p}
  /\ UNCHANGED <<peers, links, disp, batch, proven, sent, highSeq, history>>
-----------------------------------------------------------------------------
\* The peer file gives each person's mentions, and peerreg.Load numbers them.
Init ==
  /\ dir \in SUBSET People
  /\ nextSeq \in [People -> 0 .. LoadLimit]
  /\ \E row \in [People -> [1 .. LoadLimit -> Messages]] :
       queue = [p \in People |-> {[m |-> row[p][i], seq |-> i] : i \in 1 .. nextSeq[p]}]
  /\ \A p \in People : /\ p \notin dir => nextSeq[p] = 0
                       /\ Cardinality(Bodies(queue[p])) = nextSeq[p]
  /\ optOut \in [People -> BOOLEAN]
  /\ \A p \in People : optOut[p] => p \in dir /\ queue[p] = {}
  /\ link = [s \in Sessions |-> "off"] /\ inRoom = {}
  /\ away = [s \in Sessions |-> FALSE] /\ fresh = away /\ reach = away
  /\ disp = Idle /\ batch = {} /\ proven = {} /\ throttled = {}
  /\ sent = [p \in People |-> {}] /\ highSeq = [p \in People |-> 0]
  /\ posted = [p \in People |-> Bodies(queue[p])]
  /\ told = [p \in People |-> {}] /\ declined = told /\ restarted = {}
  /\ copies = [p \in People |-> [m \in Messages |-> 0]]

SessionStep(s) ==
  \/ Connect(s) \/ Vanish(s) \/ Close(s) \/ FallSilent(s) \/ Pong(s) \/ Enter(s)
  \/ Leave(s) \/ Hello(s) \/ Away(s) \/ Back(s) \/ Clear(s) \/ NotifyOff(s) \/ NotifyOn(s)

\* How the notification under way for p turns out.
Outcome(p) == Delivered(p) \/ Unconfirmed(p) \/ Unavailable(p)

Next ==
  \/ \E s \in Sessions : SessionStep(s)
  \/ \E p \in People, m \in Messages : Relay(p, m)
  \/ Remember \/ Flush \/ Note
  \/ Collect \/ DropSent
  \/ \E p \in People : Outcome(p) \/ Unthrottle(p)

Spec == Init /\ [][Next]_vars

\* A handler runs to its end, mentionPushLoop keeps ticking, a send comes back
\* and the throttle runs out; and, the one assumption about the world, a
\* notification tried again and again is at last received.
Fairness ==
  /\ WF_vars(Remember) /\ WF_vars(Flush) /\ WF_vars(Note)
  /\ WF_vars(Collect) /\ WF_vars(DropSent)
  /\ \A p \in People : /\ WF_vars(Outcome(p)) /\ WF_vars(Unthrottle(p))
                       /\ SF_vars(Delivered(p))

FairSpec == Spec /\ Fairness

-----------------------------------------------------------------------------
\* Properties

Ops == {"idle", "file", "flush", "note"}

\* Every variable keeps its type, and what the dispatcher is in the middle of
\* names whom or what it is about.
TypeOK ==
  /\ dir \subseteq People
  /\ queue \in [People -> SUBSET Entry] /\ nextSeq \in [People -> Nat]
  /\ optOut \in [People -> BOOLEAN]
  /\ link \in [Sessions -> {"off", "open", "welcomed"}] /\ inRoom \subseteq Sessions
  /\ away \in [Sessions -> BOOLEAN] /\ fresh \in [Sessions -> BOOLEAN]
  /\ reach \in [Sessions -> BOOLEAN]
  /\ disp.op \in Ops
  /\ disp.op \in {"file", "flush"} => disp.s \in Sessions
  /\ disp.op = "note" => disp.p \in People /\ disp.m \in Messages
  /\ batch \subseteq People /\ proven \subseteq People /\ throttled \subseteq People
  /\ sent \in [People -> SUBSET Entry] /\ highSeq \in [People -> Nat]
  /\ posted \in [People -> SUBSET Messages] /\ told \in [People -> SUBSET Messages]
  /\ declined \in [People -> SUBSET Messages] /\ restarted \subseteq People
  /\ copies \in [People -> [Messages -> Nat]]

\* A queue is the tail of what its owner was ever owed: from its oldest entry
\* to the newest number given out no entry is missing and none is there twice,
\* although entries leave by eviction, by hand-over and by DropSent.
QueueIsATail ==
  \A p \in People : \A e \in queue[p] :
    /\ e.seq <= nextSeq[p]
    /\ \A n \in e.seq .. nextSeq[p] : \E f \in queue[p] : f.seq = n
    /\ \A f \in queue[p] : f.seq = e.seq => f = e

\* Somebody who turned notifications off is owed nothing: neither the file, nor
\* a mention or a push that comes after /notify off, leaves them anything.
OptedOutHoldNothing == \A p \in People : optOut[p] => queue[p] = {}

\* notifier.go: "Drop exactly what was sent".  After a push, which may take
\* minutes, the queue loses every mention the notification contained and no
\* other, whatever arrived, was displaced or was handed over in between and
\* whoever came and went in the directory; except for somebody who was evicted
\* meanwhile and filed again, whose numbers have started again.
DropsExactlyWhatWasSent ==
  [][DropSent => \A p \in (proven \cap dir) \ restarted : queue'[p] = queue[p] \ sent[p]]_vars

\* Who is there to say that something is not wanted.
Online == {Owner[s] : s \in {s \in Sessions : link[s] = "welcomed"}}

\* The queue, the numbers and what each person was told or declined are an
\* ordered ledger of debts: none is forgotten except by hand-over, by proof of
\* delivery, by newer ones, at the word of its owner, who is there to say it,
\* or together with its owner when the directory is full.
LedgerOf == INSTANCE Ledger
  WITH known <- dir, owed <- queue, number <- nextSeq, renumbered <- restarted,
       online <- Online, Limit <- QueueLimit, Places <- MaxKnownPeers
LedgerSpec == LedgerOf!Spec

Held(p, m) == p \in dir /\ m \in Bodies(queue[p])

\* A mention held for somebody who stays absent, or connected and /away, does
\* not stay held: retries and released throttles bring it to them.
HeldReachesAbsent ==
  \A p \in People, m \in Messages :
    Held(p, m) ~> (~Held(p, m) \/ \E s \in Connected(p) : ~away[s])

-----------------------------------------------------------------------------
\* What comments and documents say, and the code does not keep

\* notifier.go: "Drop exactly what was sent, by sequence", for anybody whose
\* notification was delivered.
DropsOnlyWhatWasSent ==
  [][DropSent => \A p \in proven \cap dir : queue[p] \ queue'[p] \subseteq sent[p]]_vars

\* notifier.go, on skipping a connected peer: "they will be told over RRC".
\* Somebody held a mention who stays connected gets to see it.
ConnectedAreTold ==
  \A p \in People, m \in Messages :
    Held(p, m) ~> (~Held(p, m) \/ copies[p][m] > 0 \/ \A s \in Connected(p) : away[s])

\* README: "the failure this design refuses is seeing it never".  Whatever was
\* handed over, and is no longer held, was seen.
HandedOverIsSeen ==
  disp = Idle =>
    \A p \in People : \A m \in told[p] : Held(p, m) \/ copies[p][m] > 0

\* README: "The worst case is seeing it twice".
SeenAtMostTwice == \A p \in People, m \in Messages : copies[p][m] <= 2
=============================================================================
