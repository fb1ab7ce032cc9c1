---------------------------- MODULE Links_proofs ----------------------------
(***************************************************************************)
(* Theorems about Links, for every choice of its constants.                *)
(***************************************************************************)
EXTENDS Links, TLAPS

-----------------------------------------------------------------------------
\* The invariant

\* The session objects there are.
Made == {s \in Sessions : linkOf[s] # Nil}

\* The dispatcher has made s and is about to put it into the table.
BeingFiled(s) == dispatcher.at = "file" /\ dispatcher.sess = s

Steps == {"rest", "lookup", "make", "file", "inbound", "frame", "welcome"}

Types ==
  /\ link \in [Links -> {"none", "up", "gone"}] /\ told \subseteq Links /\ banned \subseteq Links
  /\ identities \subseteq Links /\ filed \in [Links -> Sessions \cup {Nil}]
  /\ linkOf \in [Sessions -> Links \cup {Nil}]
  /\ stage \in [Sessions -> {"open", "marked", "left", "cut", "done"}]
  /\ await \in [Sessions -> {"no", "waiting", "overdue"}]
  /\ todo \in [Goroutines -> SUBSET Sessions]
  /\ closing \in [Goroutines -> Sessions \cup {Nil}]
  /\ dispatcher \in [at : Steps, link : Links \cup {Nil}, sess : Sessions \cup {Nil}]

\* Nobody knows of a session that was not made.
OnlyMade ==
  /\ hubSessions \subseteq Made /\ welcomed \subseteq Made /\ old \subseteq Made
  /\ greeted \subseteq Made /\ asked \subseteq Made /\ toPing \subseteq Made
  /\ toSort \subseteq Made
  /\ regreeting \subseteq Made /\ refused \subseteq Made
  /\ sending \in Made \cup {Nil}
  /\ \A t \in Goroutines : todo[t] \subseteq Made
  /\ \A s \in Sessions \ Made : stage[s] = "open"

\* What the dispatcher carries from step to step fits together, and while it
\* makes a session the table has none for that link.
Desk ==
  /\ dispatcher.at # "rest" => dispatcher.link \in Links
  /\ dispatcher.at \in {"file", "inbound", "frame", "welcome"} =>
       dispatcher.sess \in Made /\ linkOf[dispatcher.sess] = dispatcher.link
  /\ dispatcher.at \in {"make", "file"} => filed[dispatcher.link] = Nil
  /\ dispatcher.at = "welcome" => Idle("dispatcher")

\* The table leads from a link to a session of that link.
FiledFits == \A l \in Links : filed[l] # Nil => filed[l] \in Made /\ linkOf[filed[l]] = l

\* One goroutine closes a session, and the hub has it until that goroutine
\* takes it out.
ClosingFits ==
  /\ \A t \in Goroutines : closing[t] # Nil =>
       closing[t] \in Made /\ stage[closing[t]] \in {"marked", "left", "cut"}
  /\ \A t, u \in Goroutines : closing[t] # Nil /\ closing[t] = closing[u] => t = u
  /\ \A s \in hubSessions : stage[s] \in {"open", "marked"}

\* Whatever is not closed for good is in the table or about to be.
AllFiled == \A s \in Made : stage[s] = "done" \/ filed[linkOf[s]] = s \/ BeingFiled(s)

\* Nobody but the dispatcher itself closes a session before it is filed.
FilingIsPrivate ==
  \A s \in Sessions : BeingFiled(s) =>
    /\ s \notin old /\ s \notin welcomed /\ s \notin toSort
    /\ s \notin refused => stage[s] = "open" /\ \A t \in Goroutines : s \notin todo[t]

\* Of the sessions closed for good only refused ones are in the table.
DoneAreDropped ==
  \A l \in Links : filed[l] # Nil => stage[filed[l]] # "done" \/ filed[l] \in refused

\* A welcome is missing only in the middle of a second HELLO.
GreetedInv ==
  \A s \in greeted \ welcomed : dispatcher.at = "welcome" /\ dispatcher.sess = s

LinksInv ==
  /\ Types /\ OnlyMade /\ Desk /\ FiledFits /\ ClosingFits
  /\ AllFiled /\ FilingIsPrivate /\ DoneAreDropped /\ GreetedInv /\ AwaitedWereAsked

-----------------------------------------------------------------------------
\* Every step keeps each part of it

\* Types are kept: whoever is to be closed is a session that was made.
LEMMA TypesKept ==
  ASSUME LinksInv, Next
  PROVE  Types'
<1>1. CASE \/ \E s \in Sessions : Age(s)
           \/ SendPing
  <2>1. UNCHANGED <<link, told, banned, identities, filed, linkOf, stage, await,
                    todo, closing, dispatcher>>
    BY <1>1
    DEF Age, SendPing, tables, links, hub, pings, closes
  <2> QED
    BY <2>1 DEF LinksInv, Types, OnlyMade, Made, Desk, Goroutines, Steps
<1> USE LinksAssumption
    DEF LinksInv, Types, OnlyMade, Made, Desk, Goroutines, Steps, tables, links, hub,
        pings, closes
<1>2. ASSUME NEW l \in Links, Establish(l) PROVE Types'
  BY <1>2 DEF Establish
<1>3. ASSUME NEW l \in Links, HangUp(l) PROVE Types'
  BY <1>3 DEF HangUp
<1>4. ASSUME NEW l \in Links, Vanish(l) PROVE Types'
  BY <1>4 DEF Vanish
<1>5. ASSUME NEW l \in Links, BindPeer(l) PROVE Types'
  BY <1>5 DEF BindPeer, At
<1>6. ASSUME NEW l \in Links, OnLinkData(l) PROVE Types'
  BY <1>6 DEF OnLinkData, At, Go
<1>7. ASSUME NEW l \in Links, OnLinkClosed(l) PROVE Types'
  BY <1>7 DEF OnLinkClosed, Idle
<1>8. ASSUME NEW l \in Links, Kline(l) PROVE Types'
  BY <1>8 DEF Kline, At, Idle
<1>9. ASSUME NEW s \in Sessions, Overdue(s) PROVE Types'
  BY <1>9 DEF Overdue
<1>10. ASSUME NEW t \in Goroutines, MarkClosed(t) PROVE Types'
  BY <1>10 DEF MarkClosed
<1>11. ASSUME NEW t \in Goroutines, LeaveHub(t) PROVE Types'
  BY <1>11 DEF LeaveHub
<1>12. ASSUME NEW t \in Goroutines, CutLink(t) PROVE Types'
  BY <1>12 DEF CutLink
<1>13. ASSUME NEW t \in Goroutines, DropSession(t) PROVE Types'
  BY <1>13 DEF DropSession
<1>14. CASE SessionFor
  BY <1>14 DEF SessionFor, At, Go
<1>15. ASSUME NEW s \in Sessions, NewSession(s) PROVE Types'
  BY <1>15 DEF NewSession, At, Go, Idle
<1>16. CASE File
  BY <1>16 DEF File, At, Go
<1>17. CASE OnInbound
  BY <1>17 DEF OnInbound, At, Go, Rest, Resting
<1>18. CASE HandleOther
  BY <1>18 DEF HandleOther, At, Rest, Resting
<1>19. CASE HandleBanned
  BY <1>19 DEF HandleBanned, At, Rest, Resting, Idle
<1>20. CASE HandlePong
  BY <1>20 DEF HandlePong, At, Rest, Resting
<1>21. CASE HandleHello
  BY <1>21 DEF HandleHello, At, Go
<1>22. CASE Welcome
  BY <1>22 DEF Welcome, At, Rest, Resting
<1>23. CASE SweepDeadLinks
  BY <1>23 DEF SweepDeadLinks, Collect, Idle
<1>24. CASE DoIdleSweep
  BY <1>24 DEF DoIdleSweep, Collect, Stale, Idle, At
<1>25. CASE DoPingRound
  BY <1>25 DEF DoPingRound, Idle
<1>26. CASE SortByAwait
  BY <1>26 DEF SortByAwait
<1>27. CASE StartPing
  BY <1>27 DEF StartPing
<1> HIDE DEF LinksInv, Types, OnlyMade, Made, Desk, Goroutines, Steps
<1> QED
  BY <1>1, <1>2, <1>3, <1>4, <1>5, <1>6, <1>7, <1>8, <1>9, <1>10, <1>11, <1>12,
     <1>13, <1>14, <1>15, <1>16, <1>17, <1>18, <1>19, <1>20, <1>21, <1>22,
     <1>23, <1>24, <1>25, <1>26, <1>27
  DEF Next, LinkStep, CloseStep, DispatcherStep, PingStep

\* No set ever gains a session that NewSession has not made.
LEMMA OnlyMadeKept ==
  ASSUME LinksInv, Next
  PROVE  OnlyMade'
<1>1. CASE \/ \E l \in Links : Establish(l) \/ HangUp(l) \/ Vanish(l)
               \/ BindPeer(l) \/ OnLinkData(l)
           \/ \E s \in Sessions : Overdue(s)
           \/ SessionFor \/ File \/ OnInbound \/ HandleOther
  <2>1. UNCHANGED <<linkOf, hubSessions, welcomed, old, greeted, asked, toSort, toPing,
                    regreeting, refused, sending, todo, stage>>
    BY <1>1
    DEF Establish, HangUp, Vanish, BindPeer, OnLinkData, Overdue, SessionFor,
        File, OnInbound, HandleOther, tables, links, hub, pings, closes
  <2> QED
    BY <2>1 DEF LinksInv, Types, OnlyMade, Desk, FiledFits, ClosingFits, Made, Goroutines
<1> USE LinksAssumption
    DEF LinksInv, Types, OnlyMade, Desk, FiledFits, ClosingFits, Made, Goroutines, tables,
        links, hub, pings, closes
<1>2. ASSUME NEW l \in Links, OnLinkClosed(l) PROVE OnlyMade'
  BY <1>2 DEF OnLinkClosed, Idle
<1>3. ASSUME NEW l \in Links, Kline(l) PROVE OnlyMade'
  BY <1>3 DEF Kline, At, Idle
<1>4. ASSUME NEW s \in Sessions, Age(s) PROVE OnlyMade'
  BY <1>4 DEF Age
<1>5. ASSUME NEW t \in Goroutines, MarkClosed(t) PROVE OnlyMade'
  BY <1>5 DEF MarkClosed
<1>6. ASSUME NEW t \in Goroutines, LeaveHub(t) PROVE OnlyMade'
  BY <1>6 DEF LeaveHub
<1>7. ASSUME NEW t \in Goroutines, CutLink(t) PROVE OnlyMade'
  BY <1>7 DEF CutLink
<1>8. ASSUME NEW t \in Goroutines, DropSession(t) PROVE OnlyMade'
  BY <1>8 DEF DropSession
<1>9. ASSUME NEW s \in Sessions, NewSession(s) PROVE OnlyMade'
  BY <1>9 DEF NewSession, At, Go, Idle
<1>10. CASE HandleBanned
  BY <1>10 DEF HandleBanned, At, Rest, Resting, Idle
<1>11. CASE HandlePong
  BY <1>11 DEF HandlePong, At, Rest, Resting
<1>12. CASE HandleHello
  BY <1>12 DEF HandleHello, At, Go
<1>13. CASE Welcome
  BY <1>13 DEF Welcome, At, Rest, Resting
<1>14. CASE SweepDeadLinks
  BY <1>14 DEF SweepDeadLinks, Collect, Idle
<1>15. CASE DoIdleSweep
  BY <1>15 DEF DoIdleSweep, Collect, Stale, Idle, At
<1>16. CASE DoPingRound
  BY <1>16 DEF DoPingRound, Idle
<1>17. CASE SortByAwait
  BY <1>17 DEF SortByAwait
<1>18. CASE StartPing
  BY <1>18 DEF StartPing
<1>19. CASE SendPing
  BY <1>19 DEF SendPing
<1> HIDE DEF LinksInv, Types, OnlyMade, Desk, FiledFits, ClosingFits, Made, Goroutines
<1> QED
  BY <1>1, <1>2, <1>3, <1>4, <1>5, <1>6, <1>7, <1>8, <1>9, <1>10, <1>11, <1>12,
     <1>13, <1>14, <1>15, <1>16, <1>17, <1>18, <1>19
  DEF Next, LinkStep, CloseStep, DispatcherStep, PingStep

\* The dispatcher alone makes and files sessions, so what it has in its hands
\* stays as it is while the other goroutines run; a Close by one of them only
\* empties an entry.
LEMMA DeskKept ==
  ASSUME LinksInv, Next
  PROVE  Desk'
<1>1. CASE \/ \E l \in Links : Establish(l) \/ HangUp(l) \/ Vanish(l) \/ BindPeer(l)
           \/ \E s \in Sessions : Age(s) \/ Overdue(s)
           \/ \E t \in Goroutines : LeaveHub(t) \/ CutLink(t)
           \/ StartPing \/ SendPing
  <2>1. UNCHANGED <<dispatcher, linkOf, filed, todo, closing>>
    BY <1>1
    DEF Establish, HangUp, Vanish, BindPeer, Age, Overdue, LeaveHub, CutLink,
        StartPing, SendPing, tables, links, hub, pings, closes
  <2> QED
    BY <2>1 DEF LinksInv, Types, OnlyMade, Desk, FiledFits, Made, Goroutines, Idle
<1> USE LinksAssumption
    DEF LinksInv, Types, OnlyMade, Desk, FiledFits, Made, Goroutines, Idle, tables, links,
        hub, pings, closes
<1>2. ASSUME NEW l \in Links, OnLinkData(l) PROVE Desk'
  BY <1>2 DEF OnLinkData, At, Go
<1>3. ASSUME NEW l \in Links, OnLinkClosed(l) PROVE Desk'
  BY <1>3 DEF OnLinkClosed, Idle
<1>4. ASSUME NEW l \in Links, Kline(l) PROVE Desk'
  BY <1>4 DEF Kline, At, Idle
<1>5. ASSUME NEW t \in Goroutines, MarkClosed(t) PROVE Desk'
  BY <1>5 DEF MarkClosed
<1>6. ASSUME NEW t \in Goroutines, DropSession(t) PROVE Desk'
  BY <1>6 DEF DropSession
<1>7. CASE SessionFor
  BY <1>7 DEF SessionFor, At, Go
<1>8. ASSUME NEW s \in Sessions, NewSession(s) PROVE Desk'
  BY <1>8 DEF NewSession, At, Go, Idle
<1>9. CASE File
  BY <1>9 DEF File, At, Go
<1>10. CASE OnInbound
  BY <1>10 DEF OnInbound, At, Go, Rest, Resting
<1>11. CASE HandleOther
  BY <1>11 DEF HandleOther, At, Rest, Resting
<1>12. CASE HandleBanned
  BY <1>12 DEF HandleBanned, At, Rest, Resting, Idle
<1>13. CASE HandlePong
  BY <1>13 DEF HandlePong, At, Rest, Resting
<1>14. CASE HandleHello
  BY <1>14 DEF HandleHello, At, Go
<1>15. CASE Welcome
  BY <1>15 DEF Welcome, At, Rest, Resting
<1>16. CASE SweepDeadLinks
  BY <1>16 DEF SweepDeadLinks, Collect, Idle
<1>17. CASE DoIdleSweep
  BY <1>17 DEF DoIdleSweep, Collect, Stale, Idle, At
<1>18. CASE DoPingRound
  BY <1>18 DEF DoPingRound, Idle
<1>19. CASE SortByAwait
  BY <1>19 DEF SortByAwait
<1> HIDE DEF LinksInv, Types, OnlyMade, Desk, FiledFits, Made, Goroutines, Idle
<1> QED
  BY <1>1, <1>2, <1>3, <1>4, <1>5, <1>6, <1>7, <1>8, <1>9, <1>10, <1>11, <1>12,
     <1>13, <1>14, <1>15, <1>16, <1>17, <1>18, <1>19
  DEF Next, LinkStep, CloseStep, DispatcherStep, PingStep

\* Only File fills an entry, with a session of that link.
LEMMA FiledFitsKept ==
  ASSUME LinksInv, Next
  PROVE  FiledFits'
<1>1. CASE \/ \E l \in Links : Establish(l) \/ HangUp(l) \/ Vanish(l) \/ BindPeer(l)
               \/ OnLinkData(l) \/ OnLinkClosed(l) \/ Kline(l)
           \/ \E s \in Sessions : Age(s) \/ Overdue(s)
           \/ \E t \in Goroutines : MarkClosed(t) \/ LeaveHub(t) \/ CutLink(t)
           \/ SessionFor \/ OnInbound \/ HandleOther \/ HandleBanned \/ HandlePong \/ HandleHello
           \/ Welcome \/ SweepDeadLinks \/ DoIdleSweep \/ DoPingRound \/ PingStep
  <2>1. UNCHANGED <<filed, linkOf>>
    BY <1>1
    DEF Establish, HangUp, Vanish, BindPeer, OnLinkData, OnLinkClosed, Kline,
        Age, Overdue, MarkClosed, LeaveHub, CutLink, SessionFor, OnInbound,
        HandleOther, HandleBanned, HandlePong, HandleHello, Welcome,
        SweepDeadLinks, DoIdleSweep, DoPingRound, PingStep, SortByAwait, StartPing, SendPing, Collect,
        tables, links, hub, pings, closes
  <2> QED
    BY <2>1 DEF LinksInv, Types, OnlyMade, Desk, FiledFits, Made
<1> USE LinksAssumption
    DEF LinksInv, Types, OnlyMade, Desk, FiledFits, Made, tables, links, hub, pings,
        closes
<1>2. ASSUME NEW t \in Goroutines, DropSession(t) PROVE FiledFits'
  BY <1>2 DEF DropSession
<1>3. ASSUME NEW s \in Sessions, NewSession(s) PROVE FiledFits'
  BY <1>3 DEF NewSession, At, Go, Idle
<1>4. CASE File
  BY <1>4 DEF File, At, Go
<1> HIDE DEF LinksInv, Types, OnlyMade, Desk, FiledFits, Made
<1> QED
  BY <1>1, <1>2, <1>3, <1>4
  DEF Next, LinkStep, CloseStep, DispatcherStep, PingStep

\* MarkClosed picks a session only while it is open, so no second goroutine
\* comes to close it.
LEMMA ClosingFitsKept ==
  ASSUME LinksInv, Next
  PROVE  ClosingFits'
<1>1. CASE \/ \E l \in Links : Establish(l) \/ HangUp(l) \/ Vanish(l) \/ BindPeer(l)
               \/ OnLinkData(l) \/ OnLinkClosed(l) \/ Kline(l)
           \/ \E s \in Sessions : Age(s) \/ Overdue(s)
           \/ SessionFor \/ File \/ OnInbound \/ HandleOther \/ HandleBanned \/ HandlePong \/ HandleHello
           \/ Welcome \/ SweepDeadLinks \/ DoIdleSweep \/ DoPingRound \/ PingStep
  <2>1. UNCHANGED <<closing, stage, hubSessions, linkOf>>
    BY <1>1
    DEF Establish, HangUp, Vanish, BindPeer, OnLinkData, OnLinkClosed, Kline,
        Age, Overdue, SessionFor, File, OnInbound, HandleOther, HandleBanned,
        HandlePong, HandleHello, Welcome, SweepDeadLinks, DoIdleSweep,
        DoPingRound, PingStep, SortByAwait, StartPing, SendPing, Collect, tables, links, hub, pings,
        closes
  <2> QED
    BY <2>1 DEF LinksInv, Types, OnlyMade, Desk, ClosingFits, Made, Goroutines
<1> USE LinksAssumption
    DEF LinksInv, Types, OnlyMade, Desk, ClosingFits, Made, Goroutines, tables, links,
        hub, pings, closes
<1>2. ASSUME NEW t \in Goroutines, MarkClosed(t) PROVE ClosingFits'
  BY <1>2 DEF MarkClosed
<1>3. ASSUME NEW t \in Goroutines, LeaveHub(t) PROVE ClosingFits'
  BY <1>3 DEF LeaveHub
<1>4. ASSUME NEW t \in Goroutines, CutLink(t) PROVE ClosingFits'
  BY <1>4 DEF CutLink
<1>5. ASSUME NEW t \in Goroutines, DropSession(t) PROVE ClosingFits'
  BY <1>5 DEF DropSession
<1>6. ASSUME NEW s \in Sessions, NewSession(s) PROVE ClosingFits'
  BY <1>6 DEF NewSession, At, Go, Idle
<1> HIDE DEF LinksInv, Types, OnlyMade, Desk, ClosingFits, Made, Goroutines
<1> QED
  BY <1>1, <1>2, <1>3, <1>4, <1>5, <1>6
  DEF Next, LinkStep, CloseStep, DispatcherStep, PingStep

\* A link's entry is emptied by the Close of a session of that link, and no
\* other session of the link can be unfinished then.
LEMMA AllFiledKept ==
  ASSUME LinksInv, Next
  PROVE  AllFiled'
<1>1. CASE \/ \E l \in Links : Establish(l) \/ HangUp(l) \/ Vanish(l)
               \/ BindPeer(l) \/ OnLinkClosed(l) \/ Kline(l)
           \/ \E s \in Sessions : Age(s) \/ Overdue(s)
           \/ SweepDeadLinks \/ DoIdleSweep \/ DoPingRound \/ PingStep
  <2>1. UNCHANGED <<stage, filed, linkOf, dispatcher>>
    BY <1>1
    DEF Establish, HangUp, Vanish, BindPeer, OnLinkClosed, Kline, Age, Overdue,
        SweepDeadLinks, DoIdleSweep, DoPingRound, PingStep, SortByAwait, StartPing, SendPing, Collect,
        tables, links, hub, pings, closes
  <2> QED
    BY <2>1 DEF LinksInv, Types, OnlyMade, Desk, FiledFits, ClosingFits, AllFiled, BeingFiled,
        Made
<1> USE LinksAssumption
    DEF LinksInv, Types, OnlyMade, Desk, FiledFits, ClosingFits, AllFiled, BeingFiled,
        Made, tables, links, hub, pings, closes
<1>2. ASSUME NEW l \in Links, OnLinkData(l) PROVE AllFiled'
  BY <1>2 DEF OnLinkData, At, Go
<1>3. ASSUME NEW t \in Goroutines, MarkClosed(t) PROVE AllFiled'
  BY <1>3 DEF MarkClosed
<1>4. ASSUME NEW t \in Goroutines, LeaveHub(t) PROVE AllFiled'
  BY <1>4 DEF LeaveHub
<1>5. ASSUME NEW t \in Goroutines, CutLink(t) PROVE AllFiled'
  BY <1>5 DEF CutLink
<1>6. ASSUME NEW t \in Goroutines, DropSession(t) PROVE AllFiled'
  BY <1>6 DEF DropSession
<1>7. CASE SessionFor
  BY <1>7 DEF SessionFor, At, Go
<1>8. ASSUME NEW s \in Sessions, NewSession(s) PROVE AllFiled'
  BY <1>8 DEF NewSession, At, Go, Idle
<1>9. CASE File
  BY <1>9 DEF File, At, Go
<1>10. CASE OnInbound
  BY <1>10 DEF OnInbound, At, Go, Rest, Resting
<1>11. CASE HandleOther
  BY <1>11 DEF HandleOther, At, Rest, Resting
<1>12. CASE HandleBanned
  BY <1>12 DEF HandleBanned, At, Rest, Resting, Idle
<1>13. CASE HandlePong
  BY <1>13 DEF HandlePong, At, Rest, Resting
<1>14. CASE HandleHello
  BY <1>14 DEF HandleHello, At, Go
<1>15. CASE Welcome
  BY <1>15 DEF Welcome, At, Rest, Resting
<1> HIDE DEF LinksInv, Types, OnlyMade, Desk, FiledFits, ClosingFits, AllFiled, BeingFiled, Made
<1> QED
  BY <1>1, <1>2, <1>3, <1>4, <1>5, <1>6, <1>7, <1>8, <1>9, <1>10, <1>11, <1>12,
     <1>13, <1>14, <1>15
  DEF Next, LinkStep, CloseStep, DispatcherStep, PingStep

\* While a session waits to be filed no goroutine can find it.
LEMMA FilingIsPrivateKept ==
  ASSUME LinksInv, Next
  PROVE  FilingIsPrivate'
<1>1. CASE \/ \E l \in Links : Establish(l) \/ HangUp(l) \/ Vanish(l) \/ BindPeer(l)
           \/ \E s \in Sessions : Overdue(s)
           \/ StartPing \/ SendPing
  <2>1. /\ UNCHANGED <<dispatcher, linkOf, old, welcomed, refused, stage, todo, closing>>
        /\ toSort' = toSort
    BY <1>1
    DEF Establish, HangUp, Vanish, BindPeer, Overdue, StartPing, SendPing,
        tables, links, hub, pings, closes
  <2> QED
    BY <2>1 DEF LinksInv, Types, OnlyMade, Desk, FiledFits, ClosingFits, FilingIsPrivate,
        BeingFiled, Made, Goroutines
<1> USE LinksAssumption
    DEF LinksInv, Types, OnlyMade, Desk, FiledFits, ClosingFits, FilingIsPrivate,
        BeingFiled, Made, Goroutines, tables, links, hub, pings, closes
<1>2. ASSUME NEW l \in Links, OnLinkData(l) PROVE FilingIsPrivate'
  BY <1>2 DEF OnLinkData, At, Go
<1>3. ASSUME NEW l \in Links, OnLinkClosed(l) PROVE FilingIsPrivate'
  BY <1>3 DEF OnLinkClosed, Idle
<1>4. ASSUME NEW l \in Links, Kline(l) PROVE FilingIsPrivate'
  BY <1>4 DEF Kline, At, Idle
<1>5. ASSUME NEW s \in Sessions, Age(s) PROVE FilingIsPrivate'
  BY <1>5 DEF Age
<1>6. ASSUME NEW t \in Goroutines, MarkClosed(t) PROVE FilingIsPrivate'
  BY <1>6 DEF MarkClosed
<1>7. ASSUME NEW t \in Goroutines, LeaveHub(t) PROVE FilingIsPrivate'
  BY <1>7 DEF LeaveHub
<1>8. ASSUME NEW t \in Goroutines, CutLink(t) PROVE FilingIsPrivate'
  BY <1>8 DEF CutLink
<1>9. ASSUME NEW t \in Goroutines, DropSession(t) PROVE FilingIsPrivate'
  BY <1>9 DEF DropSession
<1>10. CASE SessionFor
  BY <1>10 DEF SessionFor, At, Go
<1>11. ASSUME NEW s \in Sessions, NewSession(s) PROVE FilingIsPrivate'
  BY <1>11 DEF NewSession, At, Go, Idle
<1>12. CASE File
  BY <1>12 DEF File, At, Go
<1>13. CASE OnInbound
  BY <1>13 DEF OnInbound, At, Go, Rest, Resting
<1>14. CASE HandleOther
  BY <1>14 DEF HandleOther, At, Rest, Resting
<1>15. CASE HandleBanned
  BY <1>15 DEF HandleBanned, At, Rest, Resting, Idle
<1>16. CASE HandlePong
  BY <1>16 DEF HandlePong, At, Rest, Resting
<1>17. CASE HandleHello
  BY <1>17 DEF HandleHello, At, Go
<1>18. CASE Welcome
  BY <1>18 DEF Welcome, At, Rest, Resting
<1>19. CASE SweepDeadLinks
  BY <1>19 DEF SweepDeadLinks, Collect, Idle
<1>20. CASE DoIdleSweep
  BY <1>20 DEF DoIdleSweep, Collect, Stale, Idle, At
<1>21. CASE DoPingRound
  BY <1>21 DEF DoPingRound, Idle
<1>22. CASE SortByAwait
  BY <1>22 DEF SortByAwait
<1> HIDE DEF LinksInv, Types, OnlyMade, Desk, FiledFits, ClosingFits, FilingIsPrivate, BeingFiled,
    Made, Goroutines
<1> QED
  BY <1>1, <1>2, <1>3, <1>4, <1>5, <1>6, <1>7, <1>8, <1>9, <1>10, <1>11, <1>12,
     <1>13, <1>14, <1>15, <1>16, <1>17, <1>18, <1>19, <1>20, <1>21, <1>22
  DEF Next, LinkStep, CloseStep, DispatcherStep, PingStep

\* The Close of a session empties its entry; only a refused one can be filed
\* after that.
LEMMA DoneAreDroppedKept ==
  ASSUME LinksInv, Next
  PROVE  DoneAreDropped'
<1>1. CASE \/ \E l \in Links : Establish(l) \/ HangUp(l) \/ Vanish(l) \/ BindPeer(l)
               \/ OnLinkData(l) \/ OnLinkClosed(l) \/ Kline(l)
           \/ \E s \in Sessions : Age(s) \/ Overdue(s)
           \/ SessionFor \/ OnInbound \/ HandleOther \/ HandleBanned \/ HandlePong \/ HandleHello
           \/ Welcome \/ SweepDeadLinks \/ DoIdleSweep \/ DoPingRound \/ PingStep
  <2>1. UNCHANGED <<filed, stage, refused, linkOf>>
    BY <1>1
    DEF Establish, HangUp, Vanish, BindPeer, OnLinkData, OnLinkClosed, Kline,
        Age, Overdue, SessionFor, OnInbound, HandleOther, HandleBanned,
        HandlePong, HandleHello, Welcome, SweepDeadLinks, DoIdleSweep,
        DoPingRound, PingStep, SortByAwait, StartPing, SendPing, Collect, tables, links, hub, pings,
        closes
  <2> QED
    BY <2>1 DEF LinksInv, Types, OnlyMade, Desk, FiledFits, ClosingFits, FilingIsPrivate,
        BeingFiled, DoneAreDropped, Made
<1> USE LinksAssumption
    DEF LinksInv, Types, OnlyMade, Desk, FiledFits, ClosingFits, FilingIsPrivate,
        BeingFiled, DoneAreDropped, Made, tables, links, hub, pings, closes
<1>2. ASSUME NEW t \in Goroutines, MarkClosed(t) PROVE DoneAreDropped'
  BY <1>2 DEF MarkClosed
<1>3. ASSUME NEW t \in Goroutines, LeaveHub(t) PROVE DoneAreDropped'
  BY <1>3 DEF LeaveHub
<1>4. ASSUME NEW t \in Goroutines, CutLink(t) PROVE DoneAreDropped'
  BY <1>4 DEF CutLink
<1>5. ASSUME NEW t \in Goroutines, DropSession(t) PROVE DoneAreDropped'
  BY <1>5 DEF DropSession
<1>6. ASSUME NEW s \in Sessions, NewSession(s) PROVE DoneAreDropped'
  BY <1>6 DEF NewSession, At, Go, Idle
<1>7. CASE File
  BY <1>7 DEF File, At, Go
<1> HIDE DEF LinksInv, Types, OnlyMade, Desk, FiledFits, ClosingFits, FilingIsPrivate, BeingFiled,
    DoneAreDropped, Made
<1> QED
  BY <1>1, <1>2, <1>3, <1>4, <1>5, <1>6, <1>7
  DEF Next, LinkStep, CloseStep, DispatcherStep, PingStep

\* The dispatcher takes a welcome back only to give it again.
LEMMA GreetedInvKept ==
  ASSUME LinksInv, Next
  PROVE  GreetedInv'
<1>1. CASE \/ \E l \in Links : Establish(l) \/ HangUp(l) \/ Vanish(l)
               \/ BindPeer(l) \/ OnLinkClosed(l) \/ Kline(l)
           \/ \E s \in Sessions : Age(s) \/ Overdue(s)
           \/ \E t \in Goroutines : MarkClosed(t) \/ LeaveHub(t) \/ CutLink(t) \/ DropSession(t)
           \/ SweepDeadLinks \/ DoIdleSweep \/ DoPingRound \/ PingStep
  <2>1. UNCHANGED <<greeted, welcomed, dispatcher>>
    BY <1>1
    DEF Establish, HangUp, Vanish, BindPeer, OnLinkClosed, Kline, Age, Overdue,
        MarkClosed, LeaveHub, CutLink, DropSession, SweepDeadLinks, DoIdleSweep,
        DoPingRound, PingStep, SortByAwait, StartPing, SendPing, Collect, tables, links, hub, pings,
        closes
  <2> QED
    BY <2>1 DEF LinksInv, Types, OnlyMade, Desk, GreetedInv, Made
<1> USE LinksAssumption
    DEF LinksInv, Types, OnlyMade, Desk, GreetedInv, Made, tables, links, hub, pings,
        closes
<1>2. ASSUME NEW l \in Links, OnLinkData(l) PROVE GreetedInv'
  BY <1>2 DEF OnLinkData, At, Go
<1>3. CASE SessionFor
  BY <1>3 DEF SessionFor, At, Go
<1>4. ASSUME NEW s \in Sessions, NewSession(s) PROVE GreetedInv'
  BY <1>4 DEF NewSession, At, Go, Idle
<1>5. CASE File
  BY <1>5 DEF File, At, Go
<1>6. CASE OnInbound
  BY <1>6 DEF OnInbound, At, Go, Rest, Resting
<1>7. CASE HandleOther
  BY <1>7 DEF HandleOther, At, Rest, Resting
<1>8. CASE HandleBanned
  BY <1>8 DEF HandleBanned, At, Rest, Resting, Idle
<1>9. CASE HandlePong
  BY <1>9 DEF HandlePong, At, Rest, Resting
<1>10. CASE HandleHello
  BY <1>10 DEF HandleHello, At, Go
<1>11. CASE Welcome
  BY <1>11 DEF Welcome, At, Rest, Resting
<1> HIDE DEF LinksInv, Types, OnlyMade, Desk, GreetedInv, Made
<1> QED
  BY <1>1, <1>2, <1>3, <1>4, <1>5, <1>6, <1>7, <1>8, <1>9, <1>10, <1>11
  DEF Next, LinkStep, CloseStep, DispatcherStep, PingStep

\* The pinger waits for a PONG before it sends the PING, and HandlePong ends
\* both.
LEMMA AwaitedWereAskedKept ==
  ASSUME LinksInv, Next
  PROVE  AwaitedWereAsked'
<1>1. CASE \/ \E l \in Links : Establish(l) \/ HangUp(l) \/ Vanish(l) \/ BindPeer(l)
               \/ OnLinkData(l) \/ OnLinkClosed(l) \/ Kline(l)
           \/ \E s \in Sessions : Age(s) \/ NewSession(s)
           \/ \E t \in Goroutines : MarkClosed(t) \/ LeaveHub(t) \/ CutLink(t) \/ DropSession(t)
           \/ SessionFor \/ File \/ OnInbound \/ HandleOther \/ HandleBanned
           \/ HandleHello \/ Welcome \/ SweepDeadLinks \/ DoIdleSweep \/ DoPingRound \/ SortByAwait
  <2>1. UNCHANGED <<await, asked, sending>>
    BY <1>1
    DEF Establish, HangUp, Vanish, BindPeer, OnLinkData, OnLinkClosed, Kline,
        Age, MarkClosed, LeaveHub, CutLink, DropSession, SessionFor, NewSession,
        File, OnInbound, HandleOther, HandleBanned, HandleHello, Welcome,
        SweepDeadLinks, DoIdleSweep, DoPingRound, SortByAwait, Collect, tables, links,
        hub, pings, closes
  <2> QED
    BY <2>1 DEF LinksInv, Types, OnlyMade, AwaitedWereAsked
<1> USE LinksAssumption
    DEF LinksInv, Types, OnlyMade, AwaitedWereAsked, tables, links, hub, pings, closes
<1>2. ASSUME NEW s \in Sessions, Overdue(s) PROVE AwaitedWereAsked'
  BY <1>2 DEF Overdue
<1>3. CASE HandlePong
  BY <1>3 DEF HandlePong, At, Rest, Resting
<1>4. CASE StartPing
  BY <1>4 DEF StartPing
<1>5. CASE SendPing
  BY <1>5 DEF SendPing
<1> HIDE DEF LinksInv, Types, OnlyMade, AwaitedWereAsked
<1> QED
  BY <1>1, <1>2, <1>3, <1>4, <1>5
  DEF Next, LinkStep, CloseStep, DispatcherStep, PingStep

\* Nothing is made, filed or closed when the hub starts.
LEMMA LinksInvInit == Init => LinksInv
<1> SUFFICES ASSUME Init PROVE LinksInv
  OBVIOUS
<1> USE LinksAssumption DEF Init, Made, Resting
<1>1. Types
  BY DEF Types, Goroutines, Steps
<1>2. OnlyMade /\ Desk /\ FiledFits
  BY DEF OnlyMade, Desk, FiledFits, Goroutines
<1>3. ClosingFits /\ AllFiled /\ FilingIsPrivate
  BY DEF ClosingFits, AllFiled, FilingIsPrivate, BeingFiled, Goroutines
<1>4. DoneAreDropped /\ GreetedInv /\ AwaitedWereAsked
  BY DEF DoneAreDropped, GreetedInv, AwaitedWereAsked
<1> QED
  BY <1>1, <1>2, <1>3, <1>4 DEF LinksInv

\* A step that changes nothing keeps it too.
LEMMA LinksInvStutters ==
  ASSUME LinksInv, UNCHANGED vars
  PROVE  LinksInv'
BY DEF LinksInv, Types, OnlyMade, Desk, FiledFits, ClosingFits, AllFiled, FilingIsPrivate,
       DoneAreDropped, GreetedInv, AwaitedWereAsked, Made, BeingFiled, Idle,
       vars, tables, links, hub, pings, closes

\* So the invariant holds for ever.
LEMMA LinksInvHolds == Spec => []LinksInv
<1>1. ASSUME LinksInv, Next PROVE LinksInv'
  BY <1>1, TypesKept, OnlyMadeKept, DeskKept, FiledFitsKept, ClosingFitsKept, AllFiledKept,
     FilingIsPrivateKept, DoneAreDroppedKept, GreetedInvKept, AwaitedWereAskedKept
  DEF LinksInv
<1>2. LinksInv /\ [Next]_vars => LinksInv'
  BY <1>1, LinksInvStutters
<1> QED
  BY LinksInvInit, <1>2, PTL DEF Spec

-----------------------------------------------------------------------------
\* What follows from it

\* The variables keep their types, nothing refers to a session that was not
\* made, and a goroutine's closing session is one it has marked.
THEOREM TypeCorrect == Spec => []TypeOK
<1>1. LinksInv => TypeOK
  BY LinksAssumption DEF LinksInv, Types, OnlyMade, ClosingFits, Made, TypeOK, Goroutines
<1> QED
  BY <1>1, LinksInvHolds, PTL

\* Whoever is in the hub can be found by its link, so that the end of the link
\* closes it, and what is closed has left the table unless NewSession refused
\* it: however the four goroutines and the dispatcher interleave their Closes.
THEOREM TableFollows == Spec => []TableFollowsHub
<1>1. LinksInv => TableFollowsHub
  <2> SUFFICES ASSUME LinksInv PROVE TableFollowsHub
    OBVIOUS
  <2>1. ASSUME NEW s \in hubSessions
        PROVE  filed[linkOf[s]] = s \/ BeingFiled(s)
    BY <2>1 DEF LinksInv, OnlyMade, ClosingFits, AllFiled
  <2>2. DoneAreDropped
    BY DEF LinksInv
  <2> QED
    BY <2>1, <2>2 DEF TableFollowsHub, BeingFiled, DoneAreDropped
<1> QED
  BY <1>1, LinksInvHolds, PTL

\* No session is waited for, and so none is closed as overdue, without an
\* unanswered PING or one that is about to be sent.
THEOREM AwaitedAsked == Spec => []AwaitedWereAsked
<1>1. LinksInv => AwaitedWereAsked
  BY DEF LinksInv
<1> QED
  BY <1>1, LinksInvHolds, PTL

\* The reaper never collects a session that completed its HELLO, except in the
\* middle of that session's second HELLO.
THEOREM SweptUnwelcomed == Spec => SweptWereNotWelcomed
<1> DEFINE Fresh == \A s \in todo["reaper"]' \ todo["reaper"] : s \in greeted => s \in regreeting'
<1>1. ASSUME LinksInv, Next PROVE Fresh
  <2>1. CASE DoIdleSweep
    <3>1. todo'["reaper"] \subseteq hubSessions \ welcomed
      BY <1>1, <2>1 DEF DoIdleSweep, Collect, Stale, LinksInv, Types, Goroutines
    <3>2. ASSUME NEW s \in greeted \ welcomed PROVE s \in regreeting'
      BY <1>1, <2>1, <3>2 DEF DoIdleSweep, At, LinksInv, GreetedInv, Desk
    <3> QED
      BY <3>1, <3>2
  <2>2. ASSUME NEW t \in Goroutines, CloseStep(t) PROVE Fresh
    <3>1. CASE MarkClosed(t)
      BY <1>1, <3>1 DEF MarkClosed, LinksInv, Types, Goroutines
    <3>2. CASE LeaveHub(t) \/ CutLink(t) \/ DropSession(t)
      BY <3>2 DEF LeaveHub, CutLink, DropSession
    <3> QED
      BY <2>2, <3>1, <3>2 DEF CloseStep
  <2>3. ASSUME NEW l \in Links, LinkStep(l) PROVE Fresh
    <3>1. CASE OnLinkClosed(l) \/ Kline(l)
      BY <1>1, <3>1 DEF OnLinkClosed, Kline, LinksInv, Types, Goroutines
    <3>2. CASE Establish(l) \/ HangUp(l) \/ Vanish(l) \/ BindPeer(l) \/ OnLinkData(l)
      BY <3>2 DEF Establish, HangUp, Vanish, BindPeer, OnLinkData, closes
    <3> QED
      BY <2>3, <3>1, <3>2 DEF LinkStep
  <2>4. ASSUME NEW s \in Sessions, Age(s) \/ Overdue(s) PROVE Fresh
    BY <2>4 DEF Age, Overdue, closes
  <2>5. CASE DispatcherStep
    <3>1. ASSUME NEW s \in Sessions, NewSession(s) PROVE Fresh
      BY <1>1, <3>1 DEF NewSession, LinksInv, Types, Goroutines
    <3>2. CASE HandleBanned
      BY <1>1, <3>2 DEF HandleBanned, LinksInv, Types, Goroutines
    <3>3. CASE \/ SessionFor \/ File \/ OnInbound \/ HandleOther
               \/ HandlePong \/ HandleHello \/ Welcome
      BY <3>3 DEF SessionFor, File, OnInbound, HandleOther, HandlePong, HandleHello, Welcome, closes
    <3> QED
      BY <2>5, <3>1, <3>2, <3>3 DEF DispatcherStep
  <2>6. CASE SweepDeadLinks \/ DoPingRound
    BY <1>1, <2>6 DEF SweepDeadLinks, Collect, DoPingRound, LinksInv, Types, Goroutines, closes
  <2>7. CASE PingStep
    <3>1. CASE SortByAwait
      BY <1>1, <3>1 DEF SortByAwait, LinksInv, Types, Goroutines
    <3>2. CASE StartPing \/ SendPing
      BY <3>2 DEF StartPing, SendPing, closes
    <3> QED
      BY <2>7, <3>1, <3>2 DEF PingStep
  <2> HIDE DEF Fresh
  <2> QED
    BY <1>1, <2>1, <2>2, <2>3, <2>4, <2>5, <2>6, <2>7 DEF Next
<1>2. LinksInv /\ [Next]_vars => [Fresh]_vars
  BY <1>1
<1> QED
  BY <1>2, LinksInvHolds, PTL DEF Spec, SweptWereNotWelcomed
=============================================================================
