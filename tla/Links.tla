------------------------------- MODULE Links -------------------------------
(***************************************************************************)
(* The life of a link and its session: service/service.go keeps a table of *)
(* sessions and one of identities by link, internal/hub the set of its     *)
(* sessions.                                                               *)
(*                                                                         *)
(* The dispatcher makes a session at a link's first frame and handles      *)
(* frames.  Four more goroutines close sessions: the janitor (the link is  *)
(* dead), the watchdog (its end was reported), the pinger (no PONG) and    *)
(* the reaper (no HELLO).  Each first collects its victims under a mutex   *)
(* and then closes them without it, one after the other.  Close has four   *)
(* steps: it marks the session, takes it out of the hub, cuts the link and *)
(* drops the link's entries from the service's tables.                     *)
(*                                                                         *)
(* Time only makes a session old and a PONG overdue, so both simply happen *)
(* at some moment.                                                         *)
(***************************************************************************)
EXTENDS Naturals, FiniteSets

CONSTANTS
  Links,         \* a link is established once
  Sessions,      \* session objects, each made at most once
  Nil,
  MaxSessions    \* cfg.MaxSessions

ASSUME LinksAssumption ==
  /\ IsFiniteSet(Links) /\ IsFiniteSet(Sessions)
  /\ Nil \notin Links \cup Sessions
  /\ MaxSessions \in Nat \ {0}

VARIABLES
  link,          \* "none", "up" or "gone"
  told,          \* links whose end the library is still to report
  banned,        \* the links whose peers have a banned identity
  identities,    \* Service.identities: links whose peer has identified
  filed,         \* Service.sessions: link -> session or Nil
  linkOf,        \* Session.link, Nil if the object is not made
  hubSessions,   \* Hub.sessions
  stage,         \* how far Close has come with a session
  welcomed,
  old,           \* sessions older than unwelcomedIdleTimeout
  await,         \* pingAwaitMs: "no", "waiting" or "overdue"
  todo,          \* goroutine -> the sessions it is to close
  closing,       \* goroutine -> the session it is closing, or Nil
  toSort,        \* the sessions this ping round is still to look at
  toPing,        \* those it is to ask
  sending,       \* the session the pinger is about to send a PING, or Nil
  dispatcher,    \* [at |-> what it does next, link |-> ..., sess |-> ...]
  asked,         \* history: sent a PING and no PONG handled since
  greeted,       \* history: welcomed before
  regreeting,    \* history: the reaper found it in the middle of a re-HELLO
  refused        \* history: closed by NewSession

tables == <<filed, identities>>
links == <<link, told, banned>>
hub == <<linkOf, hubSessions, welcomed, old, greeted, regreeting, refused>>
pings == <<await, toSort, toPing, sending, asked>>
closes == <<stage, todo, closing>>
vars == <<tables, links, hub, pings, closes, dispatcher>>

Goroutines == {"dispatcher", "janitor", "watchdog", "pinger", "reaper"}

-----------------------------------------------------------------------------
\* Links

Establish(l) ==
  /\ link[l] = "none" /\ link' = [link EXCEPT ![l] = "up"]
  /\ UNCHANGED <<told, banned, tables, hub, pings, closes, dispatcher>>

\* The link ends and the library sees it: a LINKCLOSE or its own watchdog.
HangUp(l) ==
  /\ link[l] = "up" /\ link' = [link EXCEPT ![l] = "gone"] /\ told' = told \cup {l}
  /\ UNCHANGED <<banned, tables, hub, pings, closes, dispatcher>>

\* The link is found inactive and nothing is reported.
Vanish(l) ==
  /\ link[l] = "up" /\ link' = [link EXCEPT ![l] = "gone"]
  /\ UNCHANGED <<told, banned, tables, hub, pings, closes, dispatcher>>

-----------------------------------------------------------------------------
\* Close, by any goroutine

Idle(t) == closing[t] = Nil /\ todo[t] = {}

\* Mutant: nobody looks whether the session is closed.
MarkAgain(t) ==
  /\ closing[t] = Nil /\ (t = "pinger" => toSort \cup toPing = {} /\ sending = Nil)
  /\ \E s \in todo[t] :
       /\ todo' = [todo EXCEPT ![t] = @ \ {s}] /\ closing' = [closing EXCEPT ![t] = s]
       /\ stage' = [stage EXCEPT ![s] = IF @ = "open" THEN "marked" ELSE @]
  /\ UNCHANGED <<tables, links, hub, pings, dispatcher>>

\* The first caller closes; for the others it returns at once.  The pinger
\* sends its PINGs before it closes anything.
MarkClosed(t) ==
  /\ closing[t] = Nil /\ (t = "pinger" => toSort \cup toPing = {} /\ sending = Nil)
  /\ \E s \in todo[t] :
       /\ todo' = [todo EXCEPT ![t] = @ \ {s}]
       /\ closing' = [closing EXCEPT ![t] = IF stage[s] = "open" THEN s ELSE Nil]
       /\ stage' = [stage EXCEPT ![s] = IF @ = "open" THEN "marked" ELSE @]
  /\ UNCHANGED <<tables, links, hub, pings, dispatcher>>

LeaveHub(t) ==
  /\ closing[t] # Nil /\ stage[closing[t]] = "marked"
  /\ stage' = [stage EXCEPT ![closing[t]] = "left"]
  /\ hubSessions' = hubSessions \ {closing[t]}
  /\ UNCHANGED <<tables, links, linkOf, welcomed, old, greeted, regreeting, refused, pings,
                 todo, closing, dispatcher>>

\* CloseLink; what the library reports of it is ignored.
CutLink(t) ==
  /\ closing[t] # Nil /\ stage[closing[t]] = "left"
  /\ stage' = [stage EXCEPT ![closing[t]] = "cut"]
  /\ link' = [link EXCEPT ![linkOf[closing[t]]] = "gone"]
  /\ UNCHANGED <<told, banned, tables, hub, pings, todo, closing, dispatcher>>

\* Mutant: the entry is left to the janitor.
DropIdentity(t) ==
  /\ closing[t] # Nil /\ stage[closing[t]] = "cut"
  /\ stage' = [stage EXCEPT ![closing[t]] = "done"]
  /\ identities' = identities \ {linkOf[closing[t]]}
  /\ closing' = [closing EXCEPT ![t] = Nil]
  /\ UNCHANGED <<filed, links, hub, pings, todo, dispatcher>>

\* dropSession.
DropSession(t) ==
  /\ closing[t] # Nil /\ stage[closing[t]] = "cut"
  /\ stage' = [stage EXCEPT ![closing[t]] = "done"]
  /\ filed' = [filed EXCEPT ![linkOf[closing[t]]] = Nil]
  /\ identities' = identities \ {linkOf[closing[t]]}
  /\ closing' = [closing EXCEPT ![t] = Nil]
  /\ UNCHANGED <<links, hub, pings, todo, dispatcher>>

CloseStep(t) == MarkClosed(t) \/ LeaveHub(t) \/ CutLink(t) \/ DropSession(t)

-----------------------------------------------------------------------------
\* The dispatcher

Resting == [at |-> "rest", link |-> Nil, sess |-> Nil]
At(step) == dispatcher.at = step /\ Idle("dispatcher")
Go(step, l, s) == dispatcher' = [at |-> step, link |-> l, sess |-> s]
Rest == dispatcher' = Resting

Known(l) == l \in identities

\* bindPeer.
BindPeer(l) ==
  /\ At("rest") /\ link[l] = "up" /\ identities' = identities \cup {l}
  /\ UNCHANGED <<filed, links, hub, pings, closes, dispatcher>>

\* /kline add, from some other link: the list, and the session if it is known.
Kline(l) ==
  /\ At("rest") /\ l \notin banned /\ banned' = banned \cup {l}
  /\ todo' = [todo EXCEPT !["dispatcher"] =
                {s \in hubSessions : linkOf[s] = l /\ Known(l)}]
  /\ UNCHANGED <<link, told, tables, hub, pings, stage, closing, dispatcher>>

\* onLinkData has a frame in its hands; the link may go from here on.
OnLinkData(l) ==
  /\ At("rest") /\ link[l] = "up" /\ Go("lookup", l, Nil)
  /\ UNCHANGED <<tables, links, hub, pings, closes>>

\* sessionFor.
SessionFor ==
  /\ At("lookup")
  /\ LET l == dispatcher.link
     IN  IF filed[l] = Nil THEN Go("make", l, Nil) ELSE Go("inbound", l, filed[l])
  /\ UNCHANGED <<tables, links, hub, pings, closes>>

\* NewSession: a hub that is full refuses the session and one for a banned
\* identity is closed at once, before sessionFor has filed it.  The hub may
\* also hold sessions of links that are not modelled.
NewSession(s) ==
  LET l == dispatcher.link
  IN  /\ At("make") /\ linkOf[s] = Nil /\ linkOf' = [linkOf EXCEPT ![s] = l]
      /\ \E others \in 0 .. MaxSessions :
           LET full == Cardinality(hubSessions) + others >= MaxSessions
               out == full \/ (Known(l) /\ l \in banned)
           IN  /\ hubSessions' = IF full THEN hubSessions ELSE hubSessions \cup {s}
               /\ todo' = [todo EXCEPT !["dispatcher"] = IF out THEN {s} ELSE {}]
               /\ refused' = IF out THEN refused \cup {s} ELSE refused
      /\ Go("file", l, s)
      /\ UNCHANGED <<tables, links, welcomed, old, greeted, regreeting, pings,
                     stage, closing>>

File ==
  /\ At("file")
  /\ filed' = [filed EXCEPT ![dispatcher.link] = IF @ = Nil THEN dispatcher.sess ELSE @]
  /\ Go("inbound", dispatcher.link, filed'[dispatcher.link])
  /\ UNCHANGED <<identities, links, hub, pings, closes>>

\* OnInbound: a closed session drops the frame, and so does a dry token bucket.
OnInbound ==
  /\ At("inbound")
  /\ \/ Rest
     \/ stage[dispatcher.sess] = "open" /\ Go("frame", dispatcher.link, dispatcher.sess)
  /\ UNCHANGED <<tables, links, hub, pings, closes>>

Admitted == Known(dispatcher.link) /\ dispatcher.link \notin banned

\* Nobody has identified, or the frame changes nothing here.
HandleOther ==
  /\ At("frame") /\ (~Known(dispatcher.link) \/ Admitted) /\ Rest
  /\ UNCHANGED <<tables, links, hub, pings, closes>>

HandleBanned ==
  /\ At("frame") /\ Known(dispatcher.link) /\ dispatcher.link \in banned /\ Rest
  /\ todo' = [todo EXCEPT !["dispatcher"] = {dispatcher.sess}]
  /\ UNCHANGED <<tables, links, hub, pings, stage, closing>>

HandlePong ==
  /\ At("frame") /\ Admitted /\ Rest
  /\ await' = [await EXCEPT ![dispatcher.sess] = "no"]
  /\ asked' = asked \ {dispatcher.sess}
  /\ UNCHANGED <<tables, links, hub, toSort, toPing, sending, closes>>

\* handleHello; a second HELLO first takes the welcome back.
HandleHello ==
  /\ At("frame") /\ Admitted /\ Go("welcome", dispatcher.link, dispatcher.sess)
  /\ welcomed' = welcomed \ {dispatcher.sess}
  /\ UNCHANGED <<tables, links, linkOf, hubSessions, old, greeted, regreeting, refused, pings, closes>>

Welcome ==
  /\ At("welcome") /\ Rest
  /\ welcomed' = welcomed \cup {dispatcher.sess}
  /\ greeted' = greeted \cup {dispatcher.sess}
  /\ UNCHANGED <<tables, links, linkOf, hubSessions, old, regreeting, refused, pings, closes>>

DispatcherStep ==
  \/ SessionFor \/ (\E s \in Sessions : NewSession(s)) \/ File \/ OnInbound
  \/ HandleOther \/ HandleBanned \/ HandlePong \/ HandleHello \/ Welcome

-----------------------------------------------------------------------------
\* The other goroutines

Collect(t, ss) ==
  /\ Idle(t) /\ ss # {} /\ todo' = [todo EXCEPT ![t] = ss]
  /\ UNCHANGED <<stage, closing>>

\* sweepDeadLinks.
SweepDeadLinks ==
  /\ Collect("janitor", {filed[l] : l \in {k \in Links : filed[k] # Nil /\ link[k] # "up"}})
  /\ UNCHANGED <<tables, links, hub, pings, dispatcher>>

\* onLinkClosed.
OnLinkClosed(l) ==
  /\ Idle("watchdog") /\ l \in told /\ told' = told \ {l}
  /\ todo' = [todo EXCEPT !["watchdog"] = {filed[l]} \ {Nil}]
  /\ UNCHANGED <<link, banned, tables, hub, pings, stage, closing, dispatcher>>

\* Time: the session is old enough to be swept.  It was filed long before.
Age(s) ==
  /\ linkOf[s] # Nil /\ ~(dispatcher.at = "file" /\ dispatcher.sess = s) /\ s \notin old /\ old' = old \cup {s}
  /\ UNCHANGED <<tables, links, linkOf, hubSessions, welcomed, greeted, regreeting, refused, pings,
                 closes, dispatcher>>

\* Mutant: any old session is idle.
OldAreStale == old

\* doIdleSweep.
Stale == old \ welcomed
DoIdleSweep ==
  /\ Collect("reaper", hubSessions \cap Stale)
  /\ regreeting' = IF At("welcome") THEN {dispatcher.sess} ELSE {}
  /\ UNCHANGED <<tables, links, linkOf, hubSessions, welcomed, old, greeted, refused, pings, dispatcher>>

\* Time: the PONG is overdue.
Overdue(s) ==
  /\ await[s] = "waiting" /\ await' = [await EXCEPT ![s] = "overdue"]
  /\ UNCHANGED <<tables, links, hub, toSort, toPing, sending, asked, closes, dispatcher>>

\* doPingRound begins with the sessions that are welcomed.
DoPingRound ==
  /\ Idle("pinger") /\ toSort = {} /\ toPing = {} /\ sending = Nil
  /\ toSort' = hubSessions \cap welcomed
  /\ UNCHANGED <<tables, links, hub, await, toPing, sending, asked, closes, dispatcher>>

\* Mutant: who is overdue is asked again.
AskAgain ==
  /\ \E s \in toSort :
       /\ toSort' = toSort \ {s}
       /\ toPing' = IF await[s] # "waiting" THEN toPing \cup {s} ELSE toPing
  /\ UNCHANGED <<tables, links, hub, await, sending, asked, closes, dispatcher>>

\* It looks at one after the other, which may have answered since.
SortByAwait ==
  /\ \E s \in toSort :
       /\ toSort' = toSort \ {s}
       /\ toPing' = IF await[s] = "no" THEN toPing \cup {s} ELSE toPing
       /\ todo' = IF await[s] = "overdue" THEN [todo EXCEPT !["pinger"] = @ \cup {s}] ELSE todo
  /\ UNCHANGED <<tables, links, hub, await, sending, asked, stage, closing, dispatcher>>

StartPing ==
  /\ toSort = {} /\ sending = Nil
  /\ \E s \in toPing : /\ toPing' = toPing \ {s} /\ sending' = s
                       /\ await' = [await EXCEPT ![s] = "waiting"]
  /\ UNCHANGED <<tables, links, hub, toSort, asked, closes, dispatcher>>

SendPing ==
  /\ sending # Nil /\ sending' = Nil /\ asked' = asked \cup {sending}
  /\ UNCHANGED <<tables, links, hub, await, toSort, toPing, closes, dispatcher>>

\* Mutant: the PING is sent first, and waited for then.
SendThenWait ==
  \/ SortByAwait
  \/ \E s \in toPing :
       /\ toSort = {} /\ sending = Nil
       /\ toPing' = toPing \ {s} /\ sending' = s /\ asked' = asked \cup {s}
       /\ UNCHANGED <<tables, links, hub, await, toSort, closes, dispatcher>>
  \/ /\ sending # Nil /\ sending' = Nil /\ await' = [await EXCEPT ![sending] = "waiting"]
     /\ UNCHANGED <<tables, links, hub, toSort, toPing, asked, closes, dispatcher>>

PingStep == SortByAwait \/ StartPing \/ SendPing

-----------------------------------------------------------------------------
Init ==
  /\ link = [l \in Links |-> "none"] /\ told = {} /\ banned = {}
  /\ identities = {} /\ filed = [l \in Links |-> Nil]
  /\ linkOf = [s \in Sessions |-> Nil] /\ hubSessions = {}
  /\ stage = [s \in Sessions |-> "open"]
  /\ welcomed = {} /\ old = {} /\ await = [s \in Sessions |-> "no"]
  /\ todo = [t \in Goroutines |-> {}] /\ closing = [t \in Goroutines |-> Nil]
  /\ toSort = {} /\ toPing = {} /\ sending = Nil /\ dispatcher = Resting
  /\ asked = {} /\ greeted = {} /\ regreeting = {} /\ refused = {}

LinkStep(l) ==
  \/ Establish(l) \/ HangUp(l) \/ Vanish(l) \/ BindPeer(l) \/ OnLinkData(l)
  \/ OnLinkClosed(l) \/ Kline(l)

Next ==
  \/ \E l \in Links : LinkStep(l)
  \/ \E s \in Sessions : Age(s) \/ Overdue(s)
  \/ \E t \in Goroutines : CloseStep(t)
  \/ DispatcherStep \/ SweepDeadLinks \/ DoIdleSweep \/ DoPingRound \/ PingStep

Spec == Init /\ [][Next]_vars

\* No handler and no Close stops half way, time passes, reports come and the
\* tickers tick.  A round that falls into a re-HELLO does not see the session,
\* and rounds do not fall into one for ever.
FairSpec ==
  /\ Spec
  /\ WF_vars(DispatcherStep) /\ WF_vars(SweepDeadLinks) /\ WF_vars(PingStep)
  /\ \A t \in Goroutines : WF_vars(CloseStep(t))
  /\ \A l \in Links : WF_vars(OnLinkClosed(l))
  /\ \A s \in Sessions :
       /\ WF_vars(Age(s)) /\ WF_vars(Overdue(s))
       /\ SF_vars(DoIdleSweep /\ s \in Stale)
       /\ SF_vars(DoPingRound /\ s \in welcomed)

-----------------------------------------------------------------------------
\* Properties

\* Every variable keeps its type, and a goroutine closes what it marked.
TypeOK ==
  /\ link \in [Links -> {"none", "up", "gone"}] /\ told \cup banned \subseteq Links
  /\ identities \subseteq Links /\ filed \in [Links -> Sessions \cup {Nil}]
  /\ linkOf \in [Sessions -> Links \cup {Nil}]
  /\ hubSessions \cup welcomed \cup old \cup greeted \cup asked \cup toSort \cup toPing \cup regreeting
       \cup refused
       \subseteq {s \in Sessions : linkOf[s] # Nil}
  /\ stage \in [Sessions -> {"open", "marked", "left", "cut", "done"}]
  /\ await \in [Sessions -> {"no", "waiting", "overdue"}]
  /\ todo \in [Goroutines -> SUBSET Sessions]
  /\ closing \in [Goroutines -> Sessions \cup {Nil}]
  /\ sending \in Sessions \cup {Nil}
  /\ \A t \in Goroutines : closing[t] # Nil => stage[closing[t]] \in {"marked", "left", "cut"}

\* sweepDeadLinks and onLinkClosed find sessions by the table.  Whoever is in
\* the hub is in the table under its link, so that they can find it, unless the
\* dispatcher has not filed it yet; so no link has two sessions in the hub.
\* And what is closed has left the table, as "rnsLink.Close -> dropSession"
\* says, but for the sessions that NewSession closed before they were filed.
TableFollowsHub ==
  /\ \A s \in hubSessions : \/ filed[linkOf[s]] = s
                            \/ dispatcher.at = "file" /\ dispatcher.sess = s
  /\ \A l \in Links : filed[l] # Nil =>
       stage[filed[l]] # "done" \/ filed[l] \in refused

\* doPingRound: "tears down links with a timed-out PONG".  A session is waited
\* for only while a PING is unanswered or about to be sent, so whoever answers
\* in time is never closed for it.
AwaitedWereAsked ==
  \A s \in Sessions : await[s] # "no" => s \in asked \/ sending = s

\* doIdleSweep closes "a peer that opened a session but never completed HELLO".
\* What it collects has not been welcomed before, but for the session that is
\* in the middle of a second HELLO.
SweptWereNotWelcomed ==
  [][\A s \in todo["reaper"]' \ todo["reaper"] : s \in greeted => s \in regreeting']_vars

\* onLinkClosed and the janitor: "rooms shed members that silently went away".
\* Whoever stays in the hub for ever is welcomed and answers PINGs again and
\* again; anybody else is closed in the end, also a session that a frame in
\* the dispatcher's hands made after the link had gone.
SlotsAreFreed ==
  \A s \in Sessions :
    []<>(s \in hubSessions => s \in welcomed /\ await[s] = "no")
=============================================================================
