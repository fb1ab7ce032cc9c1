------------------------- MODULE Membership_proofs -------------------------
(***************************************************************************)
(* Theorems about Membership, for every choice of its constants.           *)
(***************************************************************************)
EXTENDS Membership, FiniteSetTheorems, TLAPS

-----------------------------------------------------------------------------
\* Types of the expressions the actions are built from

\* A dispatcher record built from parts of the right type has the right type.
LEMMA DispType ==
  /\ Idle \in Disp /\ Idle.op = "idle"
  /\ \A op \in Ops, s \in Sessions \cup {Nil} :
       On(op, s) \in Disp /\ On(op, s).op = op /\ On(op, s).s = s
  /\ \A n \in Names, ss \in SUBSET Sessions :
       /\ Unjoining(n, ss) \in Disp
       /\ Unjoining(n, ss).op \in {"idle", "unjoining"}
       /\ Unjoining(n, ss).op = "unjoining" => Unjoining(n, ss).n = n
  BY DEF Idle, On, Doing, Disp, Ops, Unjoining

\* So has one with the fields a handler fills in.
LEMMA DoingType ==
  ASSUME NEW op \in Ops, NEW s \in Sessions, NEW n \in Names \cup {Nil},
         NEW id \in Identities \cup {Nil}, NEW os, os \subseteq Objs,
         disp' = Doing(op, s, n, id, os, {})
  PROVE  disp' \in Disp /\ disp'.op = op /\ disp'.s = s /\ disp'.n = n
  BY DEF Doing, Disp, Ops

\* The rooms a joined map leads to are room objects.
LEMMA JoinedRoomsType ==
  ASSUME TypeOK, NEW s \in Sessions
  PROVE  JoinedRooms(s) \in SUBSET Objs
  BY DEF TypeOK, JoinedRooms, JoinedNames

\* Taking sessions out of rooms keeps the types of the member sets and the table.
LEMMA RemoveType ==
  ASSUME TypeOK, NEW os, NEW ss
  PROVE  /\ Without(os, ss) \in [Objs -> SUBSET Sessions]
         /\ \A mem, reg : TableAfter(os, mem, reg) \in [Names -> Objs \cup {Nil}]
  BY DEF TypeOK, Without, TableAfter

-----------------------------------------------------------------------------
\* Every variable keeps its type, whatever the constants.
THEOREM TypeCorrect == Spec => []TypeOK
<1>1. Init => TypeOK
  BY DispType, ConstantsAssumption DEF Init, TypeOK, NothingJoined
<1>2. TypeOK /\ [Next]_vars => TypeOK'
  <2> SUFFICES ASSUME TypeOK, [Next]_vars PROVE TypeOK'
    OBVIOUS
  <2> USE DispType DEF meta
  <2>1. ASSUME NEW s \in Sessions, NewSession(s) PROVE TypeOK'
    BY <2>1 DEF NewSession, TypeOK, Ops
  <2>2. ASSUME NEW s \in Sessions, BindPeer(s) PROVE TypeOK'
    BY <2>2 DEF BindPeer, TypeOK
  <2>3. ASSUME NEW s \in Sessions, Receive(s) PROVE TypeOK'
    BY <2>3 DEF Receive, TypeOK, Ops
  <2>4. ASSUME NEW s \in Sessions, Hello(s) PROVE TypeOK'
    BY <2>4 DEF Hello, TypeOK
  <2>5. ASSUME NEW s \in Sessions, ReHello(s) PROVE TypeOK'
    <3>1. disp' \in Disp /\ disp'.op = "resetting" /\ disp'.s = s
      <4>1. JoinedRooms(s) \subseteq Objs
        BY JoinedRoomsType
      <4>2. disp' = Doing("resetting", s, Nil, Nil, JoinedRooms(s), {})
        BY <2>5 DEF ReHello
      <4> QED BY <4>1, <4>2, DoingType DEF Ops
    <3> QED BY <2>5, <3>1 DEF ReHello, TypeOK, NothingJoined
  <2>6. ASSUME NEW s \in Sessions, BackgroundClose(s) PROVE TypeOK'
    BY <2>6, JoinedRoomsType DEF BackgroundClose, MarkClosed, TypeOK, NothingJoined
  <2>7. ASSUME NEW s \in Sessions, Teardown(s) PROVE TypeOK'
    BY <2>7, RemoveType DEF Teardown, Remove, TypeOK
  <2>8. ASSUME NEW s \in Sessions, CloseLink(s) PROVE TypeOK'
    BY <2>8 DEF CloseLink, TypeOK
  <2>9. ASSUME NEW s \in Sessions, NEW n \in Names, Join(s, n) PROVE TypeOK'
    <3>1. IdentSinceGate(s) \subseteq Identities \cup {Nil}
      BY ConstantsAssumption DEF IdentSinceGate, Ident
    <3>2. disp' \in Disp /\ disp'.s = s /\ disp'.n = n
      BY <2>9, <3>1, DoingType DEF Join, Ops
    <3> QED BY <2>9, <3>2 DEF Join, TypeOK
  <2>10. ASSUME NEW s \in Sessions, NEW n \in Names, Part(s, n) PROVE TypeOK'
    <3>1. /\ joined[s][n] \in Objs
          /\ disp' = Doing("parting", s, n, Nil, {joined[s][n]}, {})
      BY <2>10 DEF Part, TypeOK
    <3>2. joined' \in [Sessions -> [Names -> Objs \cup {Nil}]]
      BY <2>10 DEF Part, TypeOK
    <3>3. disp' \in Disp /\ disp'.s = s /\ disp'.n = n
      BY <3>1 DEF Doing, Disp, Ops
    <3> QED BY <2>10, <3>2, <3>3 DEF Part, TypeOK
  <2>11. ASSUME NEW s \in Sessions, NEW n \in Names, Kick(s, n) PROVE TypeOK'
    BY <2>11, RemoveType DEF Kick, Remove, TypeOK
  <2>12. ASSUME NEW s \in Sessions, NEW n \in Names, Register(s, n) PROVE TypeOK'
    BY <2>12 DEF Register, TypeOK
  <2>13. ASSUME NEW s \in Sessions, NEW n \in Names, Unregister(s, n) PROVE TypeOK'
    BY <2>13, RemoveType DEF Unregister, TypeOK
  <2>14. ASSUME NEW s \in Sessions, NEW n \in Names, NEW i \in Identities,
                BanAdd(s, n, i)
         PROVE  TypeOK'
    BY <2>14, RemoveType DEF BanAdd, Remove, TypeOK, HashMatches
  <2>15. ASSUME NEW s \in Sessions, NEW n \in Names, NEW i \in Identities,
                BanDel(s, n, i)
         PROVE  TypeOK'
    BY <2>15 DEF BanDel, TypeOK
  <2>16. ASSUME NEW s \in Sessions, NEW i \in Identities, KlineAdd(s, i) PROVE TypeOK'
    BY <2>16 DEF KlineAdd, TypeOK, Ops, HashMatches
  <2>17. ASSUME NEW s \in Sessions, NEW i \in Identities, KlineDel(s, i) PROVE TypeOK'
    BY <2>17 DEF KlineDel, TypeOK
  <2>18. CASE Finish
    BY <2>18 DEF Finish, TypeOK
  <2>19. CASE LeaveForReHello
    BY <2>19, RemoveType DEF LeaveForReHello, Remove, TypeOK, Disp, Ops
  <2>20. CASE WelcomeAgain
    BY <2>20 DEF WelcomeAgain, TypeOK
  <2>21. CASE DispatcherClose
    <3>1. disp.s \in Sessions
      BY <2>21 DEF DispatcherClose, TypeOK
    <3>2. disp' \in Disp /\ (disp'.op # "idle" => disp'.s \in Sessions)
                        /\ disp'.op \in {"closing", "idle"}
      BY <2>21, <3>1 DEF DispatcherClose, Ops
    <3>3. JoinedRooms(disp.s) \in SUBSET Objs
      BY <3>1, JoinedRoomsType
    <3>4. CASE phase[disp.s] = "open"
      <4>1. /\ phase' = [phase EXCEPT ![disp.s] = "marked"]
            /\ held' = [held EXCEPT ![disp.s] = JoinedRooms(disp.s)]
            /\ joined' = [joined EXCEPT ![disp.s] = NothingJoined]
            /\ UNCHANGED <<rooms, meta, members, sessions, welcomed, bound, banned>>
        BY <2>21, <3>4 DEF DispatcherClose, MarkClosed
      <4> QED BY <3>1, <3>2, <3>3, <4>1 DEF TypeOK, NothingJoined
    <3>5. CASE phase[disp.s] # "open"
      BY <2>21, <3>1, <3>2, <3>5 DEF DispatcherClose, TypeOK
    <3> QED BY <3>4, <3>5
  <2>22. CASE JoinNewRoom
    <3>1. disp.s \in Sessions /\ disp.n \in Names /\ disp.id \in Identities \cup {Nil}
      BY <2>22 DEF JoinNewRoom, TypeOK, Disp
    <3>2. disp' \in Disp /\ disp'.s \in Sessions /\ disp'.n \in Names
      <4>1. PICK o \in Objs : disp' = Doing("recording", disp.s, disp.n, disp.id, {o}, {})
        BY <2>22 DEF JoinNewRoom
      <4> QED BY <3>1, <4>1 DEF Doing, Disp, Ops
    <3> QED BY <2>22, <3>1, <3>2 DEF JoinNewRoom, TypeOK
  <2>23. CASE JoinLiveRoom
    <3>1. disp.s \in Sessions /\ disp.n \in Names /\ disp.id \in Identities \cup {Nil}
      BY <2>23 DEF JoinLiveRoom, TypeOK, Disp
    <3>2. rooms[disp.n] \in Objs
      BY <2>23, <3>1 DEF JoinLiveRoom, TypeOK
    <3>3. disp' \in Disp /\ disp'.s \in Sessions /\ disp'.n \in Names
      <4>1. disp' = Doing("recording", disp.s, disp.n, disp.id, {rooms[disp.n]}, {})
        BY <2>23 DEF JoinLiveRoom
      <4> QED BY <3>1, <3>2, <4>1 DEF Doing, Disp, Ops
    <3> QED BY <2>23, <3>1, <3>2, <3>3 DEF JoinLiveRoom, TypeOK
  <2>24. CASE JoinRefused
    BY <2>24 DEF JoinRefused, TypeOK
  <2>25. CASE RecordJoin
    BY <2>25 DEF RecordJoin, TypeOK, Disp
  <2>26. CASE LeaveRoom
    BY <2>26, RemoveType DEF LeaveRoom, Remove, TypeOK, Disp
  <2>27. CASE Unjoin
    <3>1. disp.ss \in SUBSET Sessions /\ disp.n \in Names
      BY <2>27 DEF Unjoin, TypeOK, Disp
    <3>2. PICK v \in disp.ss : /\ joined' = [joined EXCEPT ![v][disp.n] = Nil]
                               /\ disp' = Unjoining(disp.n, disp.ss \ {v})
      BY <2>27 DEF Unjoin
    <3>3. joined' \in [Sessions -> [Names -> Objs \cup {Nil}]]
      BY <3>1, <3>2 DEF TypeOK
    <3> QED BY <2>27, <3>1, <3>2, <3>3 DEF Unjoin, TypeOK
  <2>28. ASSUME NEW n \in Names, Prune(n) PROVE TypeOK'
    BY <2>28 DEF Prune, TypeOK
  <2>29. ASSUME NEW s \in Sessions, ForgetSession(s) PROVE TypeOK'
    BY <2>29 DEF ForgetSession, TypeOK, NothingJoined
  <2>30. ASSUME NEW o \in Objs, ForgetRoom(o) PROVE TypeOK'
    BY <2>30 DEF ForgetRoom, TypeOK
  <2>31. CASE UNCHANGED vars
    BY <2>31 DEF vars, TypeOK
  <2> QED
    BY <2>1, <2>2, <2>3, <2>4, <2>5, <2>6, <2>7, <2>8, <2>9, <2>10, <2>11, <2>12,
       <2>13, <2>14, <2>15, <2>16, <2>17, <2>18, <2>19, <2>20, <2>21, <2>22, <2>23,
       <2>24, <2>25, <2>26, <2>27, <2>28, <2>29, <2>30, <2>31
    DEF Next, HubStep, SessionStep, RoomStep
<1> QED BY <1>1, <1>2, PTL DEF Spec

-----------------------------------------------------------------------------
\* Bans

\* Taking sessions out of rooms adds nobody to any.
LEMMA RemoveShrinks ==
  ASSUME NEW os, NEW ss, Remove(os, ss), NEW o \in Objs
  PROVE  members'[o] \subseteq members[o]
  BY DEF Remove, Without

\* A step preserves what is known about identities and bans.
LEMMA IdentityStep ==
  ASSUME TypeOK, TypeOK', IdentityInv, [Next]_vars
  PROVE  IdentityInv'
<1> USE DEF IdentityInv, RoomBansHold, HandlerOps, Ops, meta
<1>d. USE DEF Idle, On, Doing, Unjoining
<1>a. Nil \notin Sessions /\ Nil \notin Identities /\ \A s \in Sessions : IdOf[s] \in Identities
  BY ConstantsAssumption
<1>1. ASSUME NEW s \in Sessions, NewSession(s) PROVE IdentityInv'
  BY <1>1, <1>a DEF NewSession, TypeOK
<1>2. ASSUME NEW s \in Sessions, BindPeer(s) PROVE IdentityInv'
  BY <1>2, <1>a DEF BindPeer, TypeOK
<1>3. ASSUME NEW s \in Sessions, Receive(s) PROVE IdentityInv'
  BY <1>3, <1>a DEF Receive, TypeOK
<1>4. ASSUME NEW s \in Sessions, Hello(s) PROVE IdentityInv'
  BY <1>4, <1>a DEF Hello, TypeOK
<1>5. ASSUME NEW s \in Sessions, ReHello(s) PROVE IdentityInv'
  BY <1>5, <1>a DEF ReHello, Handling, TypeOK
<1>6. ASSUME NEW s \in Sessions, BackgroundClose(s) PROVE IdentityInv'
  BY <1>6, <1>a DEF BackgroundClose, MarkClosed, TypeOK
<1>7. ASSUME NEW s \in Sessions, Teardown(s) PROVE IdentityInv'
  BY <1>7, <1>a, RemoveShrinks DEF Teardown, TypeOK
<1>8. ASSUME NEW s \in Sessions, CloseLink(s) PROVE IdentityInv'
  BY <1>8, <1>a DEF CloseLink, TypeOK
<1>9. ASSUME NEW s \in Sessions, NEW n \in Names, Join(s, n) PROVE IdentityInv'
  BY <1>9, <1>a DEF Join, Handling, IdentSinceGate, Ident, TypeOK
<1>10. ASSUME NEW s \in Sessions, NEW n \in Names, Part(s, n) PROVE IdentityInv'
  BY <1>10, <1>a DEF Part, Handling, TypeOK
<1>11. ASSUME NEW s \in Sessions, NEW n \in Names, Kick(s, n) PROVE IdentityInv'
  BY <1>11, <1>a, RemoveShrinks DEF Kick, TypeOK
<1>12. ASSUME NEW s \in Sessions, NEW n \in Names, Register(s, n) PROVE IdentityInv'
  BY <1>12, <1>a DEF Register, TypeOK
<1>13. ASSUME NEW s \in Sessions, NEW n \in Names, Unregister(s, n) PROVE IdentityInv'
  BY <1>13, <1>a DEF Unregister, TypeOK
<1>14. ASSUME NEW s \in Sessions, NEW n \in Names, NEW i \in Identities,
              BanAdd(s, n, i)
       PROVE  IdentityInv'
  BY <1>14, <1>a DEF BanAdd, Remove, Without, HashMatches, Ident, TypeOK
<1>15. ASSUME NEW s \in Sessions, NEW n \in Names, NEW i \in Identities,
              BanDel(s, n, i)
       PROVE  IdentityInv'
  BY <1>15, <1>a DEF BanDel, TypeOK
<1>16. ASSUME NEW s \in Sessions, NEW i \in Identities, KlineAdd(s, i) PROVE IdentityInv'
  BY <1>16, <1>a DEF KlineAdd, HashMatches, Ident, TypeOK
<1>17. ASSUME NEW s \in Sessions, NEW i \in Identities, KlineDel(s, i) PROVE IdentityInv'
  BY <1>17, <1>a DEF KlineDel, TypeOK
<1>18. CASE Finish
  BY <1>18, <1>a DEF Finish, TypeOK
<1>19. CASE LeaveForReHello
  BY <1>19, <1>a, RemoveShrinks DEF LeaveForReHello, TypeOK
<1>20. CASE WelcomeAgain
  BY <1>20, <1>a DEF WelcomeAgain, TypeOK
<1>21. CASE DispatcherClose
  BY <1>21, <1>a DEF DispatcherClose, MarkClosed, TypeOK
<1>22. CASE JoinNewRoom
  BY <1>22, <1>a DEF JoinNewRoom, Blank, TypeOK
<1>23. CASE JoinLiveRoom
  BY <1>23, <1>a DEF JoinLiveRoom, TypeOK
<1>24. CASE JoinRefused
  BY <1>24, <1>a DEF JoinRefused, TypeOK
<1>25. CASE RecordJoin
  BY <1>25, <1>a DEF RecordJoin, TypeOK
<1>26. CASE LeaveRoom
  BY <1>26, <1>a, RemoveShrinks DEF LeaveRoom, TypeOK
<1>27. CASE Unjoin
  BY <1>27, <1>a DEF Unjoin, TypeOK
<1>28. ASSUME NEW n \in Names, Prune(n) PROVE IdentityInv'
  BY <1>28, <1>a DEF Prune, TypeOK
<1>29. ASSUME NEW s \in Sessions, ForgetSession(s) PROVE IdentityInv'
  BY <1>29, <1>a DEF ForgetSession, DeadSessions, TypeOK
<1>30. ASSUME NEW o \in Objs, ForgetRoom(o) PROVE IdentityInv'
  BY <1>30, <1>a DEF ForgetRoom, TypeOK
<1>31. CASE UNCHANGED vars
  BY <1>31 DEF vars
<1> QED
  BY <1>1, <1>2, <1>3, <1>4, <1>5, <1>6, <1>7, <1>8, <1>9, <1>10, <1>11, <1>12,
     <1>13, <1>14, <1>15, <1>16, <1>17, <1>18, <1>19, <1>20, <1>21, <1>22, <1>23,
     <1>24, <1>25, <1>26, <1>27, <1>28, <1>29, <1>30, <1>31
  DEF Next, HubStep, SessionStep, RoomStep

\* No room's ban list and member set ever overlap, and no banned identity ever
\* enters a room.
THEOREM BansHold == Spec => []RoomBansHold
<1>1. Init => IdentityInv
  BY ConstantsAssumption
  DEF Init, IdentityInv, RoomBansHold, HandlerOps, Ops, Idle, Doing
<1>2. TypeOK /\ TypeOK' /\ IdentityInv /\ [Next]_vars => IdentityInv'
  BY IdentityStep
<1>3. IdentityInv => RoomBansHold
  BY DEF IdentityInv
<1> QED BY <1>1, <1>2, <1>3, TypeCorrect, PTL DEF Spec

-----------------------------------------------------------------------------
\* The two copies of a membership

\* Leaving rooms keeps the table right: what is left empty is dropped.
LEMMA RemoveKeepsTable ==
  ASSUME TypeOK, TableInv, NEW os, NEW ss, Remove(os, ss), UNCHANGED <<name, registered>>
  PROVE  TableInv'
<1> SUFFICES ASSUME NEW n \in Names, rooms'[n] # Nil
             PROVE  /\ name[rooms'[n]] = n
                    /\ members'[rooms'[n]] # {} \/ registered[rooms'[n]]
  BY DEF TableInv, LiveRooms
<1>1. /\ rooms'[n] = rooms[n]
      /\ ~\E o \in os : name[o] = n /\ members'[o] = {} /\ ~registered[o]
  BY DEF Remove, TableAfter
<1>2. /\ rooms[n] \in Objs /\ name[rooms[n]] = n
      /\ members[rooms[n]] # {} \/ registered[rooms[n]]
  BY <1>1 DEF TableInv, LiveRooms, TypeOK
<1>3. CASE rooms[n] \in os
  BY <1>1, <1>2, <1>3
<1>4. CASE rooms[n] \notin os
  BY <1>1, <1>2, <1>4 DEF Remove, Without
<1> QED BY <1>3, <1>4

\* A step preserves how the copies of a membership may differ.
LEMMA CopiesStep ==
  ASSUME TypeOK, TypeOK', IdentityInv, CopiesInv, [Next]_vars
  PROVE  CopiesInv'
<1> USE DEF CopiesInv, TableInv, NamesInv, FreshInv, MemberInv, JoinedInv,
            HandlerInv, RecordingInv, UnjoiningInv
<1> USE DEF LiveRooms, Leaving, Unjoined, Ops, meta, NothingJoined
<1> USE DEF Idle, On, Doing, Unjoining
<1>a. /\ Nil \notin Sessions /\ Nil \notin Objs /\ Nil \notin Names
      /\ disp.s \in Sessions => phase[disp.s] # "none"
      /\ \A s \in Sessions, o \in Objs : s \in members[o] => phase[s] # "none"
  BY ConstantsAssumption DEF IdentityInv
<1>1. ASSUME NEW s \in Sessions, NewSession(s)
      PROVE  CopiesInv'
  <2>1. TableInv'
    BY <1>1, <1>a DEF NewSession, TypeOK
  <2>2. NamesInv'
    BY <1>1, <1>a DEF NewSession, TypeOK
  <2>3. FreshInv'
    BY <1>1, <1>a DEF NewSession, TypeOK
  <2>4. MemberInv'
    BY <1>1, <1>a DEF NewSession, TypeOK
  <2>5. JoinedInv'
    BY <1>1, <1>a DEF NewSession, TypeOK
  <2>6. HandlerInv'
    BY <1>1, <1>a DEF NewSession, TypeOK
  <2>7. RecordingInv'
    BY <1>1, <1>a DEF NewSession, TypeOK
  <2>8. UnjoiningInv'
    BY <1>1, <1>a DEF NewSession, TypeOK
  <2> QED BY <2>1, <2>2, <2>3, <2>4, <2>5, <2>6, <2>7, <2>8
<1>2. ASSUME NEW s \in Sessions, BindPeer(s)
      PROVE  CopiesInv'
  BY <1>2, <1>a DEF BindPeer, TypeOK
<1>3. ASSUME NEW s \in Sessions, Receive(s)
      PROVE  CopiesInv'
  BY <1>3, <1>a DEF Receive, TypeOK
<1>4. ASSUME NEW s \in Sessions, Hello(s)
      PROVE  CopiesInv'
  BY <1>4, <1>a DEF Hello, TypeOK
<1>5. ASSUME NEW s \in Sessions, ReHello(s)
      PROVE  CopiesInv'
  BY <1>5, <1>a DEF ReHello, Handling, JoinedRooms, JoinedNames, TypeOK
<1>6. ASSUME NEW s \in Sessions, BackgroundClose(s)
      PROVE  CopiesInv'
  BY <1>6, <1>a DEF BackgroundClose, MarkClosed, TypeOK
<1>7. ASSUME NEW s \in Sessions, Teardown(s)
      PROVE  CopiesInv'
  <2>1. TableInv'
    BY <1>7, <1>a, RemoveKeepsTable DEF Teardown
  <2>2. NamesInv'
    BY <1>7, <1>a DEF Teardown, Remove, Without, TableAfter, TypeOK
  <2>3. FreshInv'
    BY <1>7, <1>a DEF Teardown, Remove, Without, TableAfter, TypeOK
  <2>4. MemberInv'
    BY <1>7, <1>a DEF Teardown, Remove, Without, TableAfter, TypeOK
  <2>5. JoinedInv'
    BY <1>7, <1>a DEF Teardown, Remove, Without, TableAfter, TypeOK
  <2>6. HandlerInv'
    BY <1>7, <1>a DEF Teardown, Remove, Without, TableAfter, TypeOK
  <2>7. RecordingInv'
    BY <1>7, <1>a DEF Teardown, Remove, Without, TableAfter, TypeOK
  <2>8. UnjoiningInv'
    BY <1>7, <1>a DEF Teardown, Remove, Without, TableAfter, TypeOK
  <2> QED BY <2>1, <2>2, <2>3, <2>4, <2>5, <2>6, <2>7, <2>8
<1>8. ASSUME NEW s \in Sessions, CloseLink(s)
      PROVE  CopiesInv'
  BY <1>8, <1>a DEF CloseLink, TypeOK
<1>9. ASSUME NEW s \in Sessions, NEW n \in Names, Join(s, n)
      PROVE  CopiesInv'
  BY <1>9, <1>a DEF Join, Handling, TypeOK
<1>10. ASSUME NEW s \in Sessions, NEW n \in Names, Part(s, n)
      PROVE  CopiesInv'
  BY <1>10, <1>a DEF Part, Handling, TypeOK
<1>11. ASSUME NEW s \in Sessions, NEW n \in Names, Kick(s, n)
      PROVE  CopiesInv'
  <2>1. TableInv'
    BY <1>11, <1>a, RemoveKeepsTable DEF Kick
  <2>2. NamesInv'
    BY <1>11, <1>a DEF Kick, Handling, Remove, Without, TableAfter, TypeOK
  <2>3. FreshInv'
    BY <1>11, <1>a DEF Kick, Handling, Remove, Without, TableAfter, TypeOK
  <2>4. MemberInv'
    BY <1>11, <1>a DEF Kick, Handling, Remove, Without, TableAfter, TypeOK
  <2>5. JoinedInv'
    BY <1>11, <1>a DEF Kick, Handling, Remove, Without, TableAfter, TypeOK
  <2>6. HandlerInv'
    BY <1>11, <1>a DEF Kick, Handling, Remove, Without, TableAfter, TypeOK
  <2>7. RecordingInv'
    BY <1>11, <1>a DEF Kick, Handling, Remove, Without, TableAfter, TypeOK
  <2>8. UnjoiningInv'
    BY <1>11, <1>a DEF Kick, Handling, Remove, Without, TableAfter, TypeOK
  <2> QED BY <2>1, <2>2, <2>3, <2>4, <2>5, <2>6, <2>7, <2>8
<1>12. ASSUME NEW s \in Sessions, NEW n \in Names, Register(s, n)
      PROVE  CopiesInv'
  BY <1>12, <1>a DEF Register, Handling, TypeOK
<1>13. ASSUME NEW s \in Sessions, NEW n \in Names, Unregister(s, n)
      PROVE  CopiesInv'
  BY <1>13, <1>a DEF Unregister, Handling, TableAfter, TypeOK
<1>14. ASSUME NEW s \in Sessions, NEW n \in Names, NEW i \in Identities, BanAdd(s, n, i)
      PROVE  CopiesInv'
  <2>1. TableInv'
    <3>1. PICK victims : Remove({rooms[n]}, victims)
      BY <1>14 DEF BanAdd
    <3>2. name' = name /\ registered' = registered
      BY <1>14 DEF BanAdd
    <3>3. /\ \A m \in Names : rooms'[m] = IF name[rooms[n]] = m /\ members'[rooms[n]] = {}
                                               /\ ~registered[rooms[n]]
                                            THEN Nil ELSE rooms[m]
          /\ \A o \in Objs : o # rooms[n] => members'[o] = members[o]
      BY <3>1 DEF Remove, Without, TableAfter
    <3> SUFFICES ASSUME NEW m \in Names, rooms'[m] # Nil
                 PROVE  /\ name'[rooms'[m]] = m
                        /\ members'[rooms'[m]] # {} \/ registered'[rooms'[m]]
      BY DEF TableInv, LiveRooms
    <3>4. rooms'[m] = rooms[m] /\ rooms[m] \in Objs
      <4>1. rooms[m] \in Objs \cup {Nil}
        BY DEF TypeOK
      <4> QED
        BY <3>3, <4>1
    <3>5. name[rooms[m]] = m /\ (members[rooms[m]] # {} \/ registered[rooms[m]])
      BY <3>4 DEF TableInv, LiveRooms
    <3> QED
      BY <3>2, <3>3, <3>4, <3>5
  <2>2. NamesInv'
    BY <1>14, <1>a DEF BanAdd, Handling, Remove, Without, TableAfter, HashMatches, TypeOK
  <2>3. FreshInv'
    BY <1>14, <1>a DEF BanAdd, Handling, Remove, Without, TableAfter, HashMatches, TypeOK
  <2>4. MemberInv'
    BY <1>14, <1>a DEF BanAdd, Handling, Remove, Without, TableAfter, HashMatches, TypeOK
  <2>5. JoinedInv'
    BY <1>14, <1>a DEF BanAdd, Handling, Remove, Without, TableAfter, HashMatches, TypeOK
  <2>6. HandlerInv'
    BY <1>14, <1>a DEF BanAdd, Handling, Remove, Without, TableAfter, HashMatches, TypeOK
  <2>7. RecordingInv'
    BY <1>14, <1>a DEF BanAdd, Handling, Remove, Without, TableAfter, HashMatches, TypeOK
  <2>8. UnjoiningInv'
    BY <1>14, <1>a DEF BanAdd, Handling, Remove, Without, TableAfter, HashMatches, TypeOK
  <2> QED BY <2>1, <2>2, <2>3, <2>4, <2>5, <2>6, <2>7, <2>8
<1>15. ASSUME NEW s \in Sessions, NEW n \in Names, NEW i \in Identities, BanDel(s, n, i)
      PROVE  CopiesInv'
  BY <1>15, <1>a DEF BanDel, Handling, TypeOK
<1>16. ASSUME NEW s \in Sessions, NEW i \in Identities, KlineAdd(s, i)
      PROVE  CopiesInv'
  BY <1>16, <1>a DEF KlineAdd, Handling, TypeOK
<1>17. ASSUME NEW s \in Sessions, NEW i \in Identities, KlineDel(s, i)
      PROVE  CopiesInv'
  BY <1>17, <1>a DEF KlineDel, Handling, TypeOK
<1>18. CASE Finish
  BY <1>18, <1>a DEF Finish, TypeOK
<1>19. CASE LeaveForReHello
  <2>1. TableInv'
    BY <1>19, <1>a, RemoveKeepsTable DEF LeaveForReHello
  <2>2. NamesInv'
    BY <1>19, <1>a DEF LeaveForReHello, Remove, Without, TableAfter, TypeOK
  <2>3. FreshInv'
    BY <1>19, <1>a DEF LeaveForReHello, Remove, Without, TableAfter, TypeOK
  <2>4. MemberInv'
    BY <1>19, <1>a DEF LeaveForReHello, Remove, Without, TableAfter, TypeOK
  <2>5. JoinedInv'
    BY <1>19, <1>a DEF LeaveForReHello, Remove, Without, TableAfter, TypeOK
  <2>6. HandlerInv'
    BY <1>19, <1>a DEF LeaveForReHello, Remove, Without, TableAfter, TypeOK
  <2>7. RecordingInv'
    BY <1>19, <1>a DEF LeaveForReHello, Remove, Without, TableAfter, TypeOK
  <2>8. UnjoiningInv'
    BY <1>19, <1>a DEF LeaveForReHello, Remove, Without, TableAfter, TypeOK
  <2> QED BY <2>1, <2>2, <2>3, <2>4, <2>5, <2>6, <2>7, <2>8
<1>20. CASE WelcomeAgain
  BY <1>20, <1>a DEF WelcomeAgain, TypeOK
<1>21. CASE DispatcherClose
  <2>1. disp.s \in Sessions /\ disp.op = "close" /\ disp'.op \in {"idle", "closing"}
    BY <1>21 DEF DispatcherClose, TypeOK
  <2>2. CASE phase[disp.s] = "open"
    <3>1. /\ phase' = [phase EXCEPT ![disp.s] = "marked"]
          /\ joined' = [joined EXCEPT ![disp.s] = [n \in Names |-> Nil]]
          /\ UNCHANGED <<rooms, name, registered, members>>
      BY <1>21, <2>2 DEF DispatcherClose, MarkClosed
    <3> QED BY <2>1, <3>1, <1>a DEF TypeOK
  <2>3. CASE phase[disp.s] # "open"
    BY <1>21, <2>1, <2>3, <1>a DEF DispatcherClose, TypeOK
  <2> QED BY <2>2, <2>3
<1>22. CASE JoinNewRoom
  <2>1. TableInv'
    <3>1. PICK o \in Objs :
            /\ \A n \in Names : rooms[n] # o
            /\ name' = [name EXCEPT ![o] = disp.n]
            /\ members' = [members EXCEPT ![o] = {disp.s}]
            /\ rooms' = [rooms EXCEPT ![disp.n] = o]
      BY <1>22 DEF JoinNewRoom, Referenced
    <3>2. registered' = registered
      BY <1>22 DEF JoinNewRoom
    <3>3. disp.n \in Names
      BY <1>22 DEF JoinNewRoom, TypeOK
    <3>4. SUFFICES ASSUME NEW n \in Names, rooms'[n] # Nil
                   PROVE  /\ name'[rooms'[n]] = n
                          /\ members'[rooms'[n]] # {} \/ registered'[rooms'[n]]
      BY DEF TableInv, LiveRooms
    <3>5. CASE n = disp.n
      <4>1. rooms'[n] = o /\ name'[o] = n /\ members'[o] = {disp.s}
        BY <3>1, <3>3, <3>5 DEF TypeOK
      <4> QED BY <4>1
    <3>6. CASE n # disp.n
      <4>1. rooms'[n] = rooms[n] /\ rooms[n] # o /\ rooms[n] \in Objs
        BY <3>1, <3>4, <3>6 DEF TypeOK
      <4>2. name'[rooms[n]] = name[rooms[n]] /\ members'[rooms[n]] = members[rooms[n]]
        BY <3>1, <4>1 DEF TypeOK
      <4>3. name[rooms[n]] = n /\ (members[rooms[n]] # {} \/ registered[rooms[n]])
        BY <4>1, <3>4, <1>a DEF TableInv, LiveRooms
      <4> QED BY <3>2, <4>1, <4>2, <4>3
    <3> QED BY <3>5, <3>6
  <2>2. NamesInv'
    BY <1>22, <1>a DEF JoinNewRoom, Blank, Referenced, JoinedRooms, JoinedNames, TypeOK
  <2>3. FreshInv'
    BY <1>22, <1>a DEF JoinNewRoom, Blank, Referenced, JoinedRooms, JoinedNames, TypeOK
  <2>4. MemberInv'
    BY <1>22, <1>a DEF JoinNewRoom, Blank, Referenced, JoinedRooms, JoinedNames, TypeOK
  <2>5. JoinedInv'
    BY <1>22, <1>a DEF JoinNewRoom, Blank, Referenced, JoinedRooms, JoinedNames, TypeOK
  <2>6. HandlerInv'
    BY <1>22, <1>a DEF JoinNewRoom, Blank, Referenced, JoinedRooms, JoinedNames, TypeOK
  <2>7. RecordingInv'
    BY <1>22, <1>a DEF JoinNewRoom, Blank, Referenced, JoinedRooms, JoinedNames, TypeOK
  <2>8. UnjoiningInv'
    BY <1>22, <1>a DEF JoinNewRoom, Blank, Referenced, JoinedRooms, JoinedNames, TypeOK
  <2> QED BY <2>1, <2>2, <2>3, <2>4, <2>5, <2>6, <2>7, <2>8
<1>23. CASE JoinLiveRoom
  <2>1. TableInv'
    BY <1>23, <1>a DEF JoinLiveRoom, TypeOK
  <2>2. NamesInv'
    BY <1>23, <1>a DEF JoinLiveRoom, TypeOK
  <2>3. FreshInv'
    BY <1>23, <1>a DEF JoinLiveRoom, TypeOK
  <2>4. MemberInv'
    BY <1>23, <1>a DEF JoinLiveRoom, TypeOK
  <2>5. JoinedInv'
    BY <1>23, <1>a DEF JoinLiveRoom, TypeOK
  <2>6. HandlerInv'
    BY <1>23, <1>a DEF JoinLiveRoom, TypeOK
  <2>7. RecordingInv'
    <3>1. /\ rooms[disp.n] \in Objs /\ name[rooms[disp.n]] = disp.n
          /\ disp'.os = {rooms[disp.n]} /\ disp'.n = disp.n /\ name' = name
      BY <1>23 DEF JoinLiveRoom, TypeOK
    <3> QED BY <3>1
  <2>8. UnjoiningInv'
    BY <1>23, <1>a DEF JoinLiveRoom, TypeOK
  <2> QED BY <2>1, <2>2, <2>3, <2>4, <2>5, <2>6, <2>7, <2>8
<1>24. CASE JoinRefused
  BY <1>24, <1>a DEF JoinRefused, TypeOK
<1>25. CASE RecordJoin
  <2>1. TableInv'
    BY <1>25, <1>a DEF RecordJoin, TypeOK
  <2>2. NamesInv'
    BY <1>25, <1>a DEF RecordJoin, TypeOK
  <2>3. FreshInv'
    BY <1>25, <1>a DEF RecordJoin, TypeOK
  <2>4. MemberInv'
    BY <1>25, <1>a DEF RecordJoin, TypeOK
  <2>5. JoinedInv'
    BY <1>25, <1>a DEF RecordJoin, TypeOK
  <2>6. HandlerInv'
    BY <1>25, <1>a DEF RecordJoin, TypeOK
  <2>7. RecordingInv'
    BY <1>25, <1>a DEF RecordJoin, TypeOK
  <2>8. UnjoiningInv'
    BY <1>25, <1>a DEF RecordJoin, TypeOK
  <2> QED BY <2>1, <2>2, <2>3, <2>4, <2>5, <2>6, <2>7, <2>8
<1>26. CASE LeaveRoom
  <2>1. TableInv'
    BY <1>26, <1>a, RemoveKeepsTable DEF LeaveRoom
  <2>2. NamesInv'
    BY <1>26, <1>a DEF LeaveRoom, Remove, Without, TableAfter, TypeOK
  <2>3. FreshInv'
    BY <1>26, <1>a DEF LeaveRoom, Remove, Without, TableAfter, TypeOK
  <2>4. MemberInv'
    BY <1>26, <1>a DEF LeaveRoom, Remove, Without, TableAfter, TypeOK
  <2>5. JoinedInv'
    BY <1>26, <1>a DEF LeaveRoom, Remove, Without, TableAfter, TypeOK
  <2>6. HandlerInv'
    BY <1>26, <1>a DEF LeaveRoom, Remove, Without, TableAfter, TypeOK
  <2>7. RecordingInv'
    BY <1>26, <1>a DEF LeaveRoom, Remove, Without, TableAfter, TypeOK
  <2>8. UnjoiningInv'
    BY <1>26, <1>a DEF LeaveRoom, Remove, Without, TableAfter, TypeOK
  <2> QED BY <2>1, <2>2, <2>3, <2>4, <2>5, <2>6, <2>7, <2>8
<1>27. CASE Unjoin
  <2>1. TableInv'
    BY <1>27, <1>a DEF Unjoin, TypeOK
  <2>2. NamesInv'
    BY <1>27, <1>a DEF Unjoin, TypeOK
  <2>3. FreshInv'
    BY <1>27, <1>a DEF Unjoin, TypeOK
  <2>4. MemberInv'
    BY <1>27, <1>a DEF Unjoin, TypeOK
  <2>5. JoinedInv'
    BY <1>27, <1>a DEF Unjoin, TypeOK
  <2>6. HandlerInv'
    BY <1>27, <1>a DEF Unjoin, TypeOK
  <2>7. RecordingInv'
    BY <1>27, <1>a DEF Unjoin, TypeOK
  <2>8. UnjoiningInv'
    BY <1>27, <1>a DEF Unjoin, TypeOK
  <2> QED BY <2>1, <2>2, <2>3, <2>4, <2>5, <2>6, <2>7, <2>8
<1>28. ASSUME NEW n \in Names, Prune(n)
      PROVE  CopiesInv'
  <2>1. TableInv'
    BY <1>28, <1>a DEF Prune, TypeOK
  <2>2. NamesInv'
    BY <1>28, <1>a DEF Prune, TypeOK
  <2>3. FreshInv'
    BY <1>28, <1>a DEF Prune, TypeOK
  <2>4. MemberInv'
    BY <1>28, <1>a DEF Prune, TypeOK
  <2>5. JoinedInv'
    BY <1>28, <1>a DEF Prune, TypeOK
  <2>6. HandlerInv'
    BY <1>28, <1>a DEF Prune, TypeOK
  <2>7. RecordingInv'
    BY <1>28, <1>a DEF Prune, TypeOK
  <2>8. UnjoiningInv'
    BY <1>28, <1>a DEF Prune, TypeOK
  <2> QED BY <2>1, <2>2, <2>3, <2>4, <2>5, <2>6, <2>7, <2>8
<1>29. ASSUME NEW s \in Sessions, ForgetSession(s)
      PROVE  CopiesInv'
  BY <1>29, <1>a DEF ForgetSession, DeadSessions, TypeOK
<1>30. ASSUME NEW o \in Objs, ForgetRoom(o)
      PROVE  CopiesInv'
  <2>1. TableInv'
    BY <1>30, <1>a DEF ForgetRoom, DeadRooms, Referenced, JoinedRooms, JoinedNames, TypeOK
  <2>2. NamesInv'
    BY <1>30, <1>a DEF ForgetRoom, DeadRooms, Referenced, JoinedRooms, JoinedNames, TypeOK
  <2>3. FreshInv'
    BY <1>30, <1>a DEF ForgetRoom, DeadRooms, Referenced, JoinedRooms, JoinedNames, TypeOK
  <2>4. MemberInv'
    BY <1>30, <1>a DEF ForgetRoom, DeadRooms, Referenced, JoinedRooms, JoinedNames, TypeOK
  <2>5. JoinedInv'
    BY <1>30, <1>a DEF ForgetRoom, DeadRooms, Referenced, JoinedRooms, JoinedNames, TypeOK
  <2>6. HandlerInv'
    BY <1>30, <1>a DEF ForgetRoom, DeadRooms, Referenced, JoinedRooms, JoinedNames, TypeOK
  <2>7. RecordingInv'
    <3>1. o \notin disp.os /\ name' = [name EXCEPT ![o] = Nil] /\ disp' = disp
      BY <1>30 DEF ForgetRoom, DeadRooms, Referenced
    <3>2. SUFFICES ASSUME disp.op = "recording"
                   PROVE  \E r \in Objs : disp.os = {r} /\ name'[r] = disp.n
      BY <3>1 DEF RecordingInv
    <3>3. PICK r \in Objs : disp.os = {r} /\ name[r] = disp.n
      BY <3>2, <1>a DEF RecordingInv
    <3>4. r # o
      BY <3>1, <3>3
    <3>5. name'[r] = name[r]
      BY <3>1, <3>4 DEF TypeOK
    <3> QED BY <3>3, <3>5
  <2>8. UnjoiningInv'
    BY <1>30, <1>a DEF ForgetRoom, DeadRooms, Referenced, JoinedRooms, JoinedNames, TypeOK
  <2> QED BY <2>1, <2>2, <2>3, <2>4, <2>5, <2>6, <2>7, <2>8
<1>31. CASE UNCHANGED vars
  BY <1>31 DEF vars
<1> QED
  BY <1>1, <1>2, <1>3, <1>4, <1>5, <1>6, <1>7, <1>8, <1>9, <1>10, <1>11, <1>12, <1>13, <1>14, <1>15, <1>16, <1>17, <1>18, <1>19, <1>20, <1>21, <1>22, <1>23, <1>24, <1>25, <1>26, <1>27, <1>28, <1>29, <1>30, <1>31
  DEF Next, HubStep, SessionStep, RoomStep

\* What CopiesStep preserves holds from the start.
LEMMA CopiesHold == Spec => [](TypeOK /\ IdentityInv /\ CopiesInv)
<1>1. Init => IdentityInv
  BY ConstantsAssumption
  DEF Init, IdentityInv, RoomBansHold, HandlerOps, Ops, Idle, Doing
<1>2. Init => CopiesInv
  <2> SUFFICES ASSUME Init PROVE CopiesInv
    OBVIOUS
  <2>1. TableInv
    BY DEF Init, TableInv, LiveRooms
  <2>2. disp.op = "idle" /\ disp.s = Nil
    BY DEF Init, Idle, Doing
  <2>3. \A s \in Sessions : phase[s] = "none" /\ \A n \in Names : joined[s][n] = Nil
    BY DEF Init, NothingJoined
  <2>4. \A o \in Objs : members[o] = {}
    BY DEF Init
  <2> QED
    BY <2>1, <2>2, <2>3, <2>4
    DEF CopiesInv, NamesInv, FreshInv, MemberInv, JoinedInv, HandlerInv,
        RecordingInv, UnjoiningInv
<1>3. TypeOK /\ TypeOK' /\ IdentityInv /\ [Next]_vars => IdentityInv'
  BY IdentityStep
<1>4. TypeOK /\ TypeOK' /\ IdentityInv /\ CopiesInv /\ [Next]_vars => CopiesInv'
  BY CopiesStep
<1> QED BY <1>1, <1>2, <1>3, <1>4, TypeCorrect, PTL DEF Spec

\* Whenever the dispatcher rests, an open session is in a room's member set
\* exactly when its joined map leads there, whatever background Closes did.
THEOREM CopiesAgree == Spec => []CopiesAgreeAtRest
<1>1. TypeOK /\ CopiesInv => CopiesAgreeAtRest
  <2> SUFFICES ASSUME TypeOK, CopiesInv, disp = Idle,
                      NEW s \in Sessions, phase[s] = "open"
               PROVE  /\ \A o \in Objs : s \in members[o] => joined[s][name[o]] = o
                      /\ \A o \in JoinedRooms(s) : s \in members[o]
    BY DEF CopiesAgreeAtRest
  <2>1. disp.op = "idle"
    BY DEF Idle, Doing
  <2>2. \A o \in Objs : s \in members[o] => joined[s][name[o]] = o
    BY <2>1 DEF CopiesInv, MemberInv, Leaving
  <2>3. \A n \in Names : joined[s][n] # Nil => s \in members[joined[s][n]]
    BY <2>1 DEF CopiesInv, JoinedInv, Unjoined
  <2> QED BY <2>2, <2>3 DEF JoinedRooms, JoinedNames
<1> QED BY <1>1, CopiesHold, PTL

\* No unregistered room is ever left in the table with nobody in it, although
\* rooms are dropped by name and a name may lead to another room by then.
THEOREM LiveRoomsKept == Spec => []LiveRoomsAreKeptAlive
<1>1. CopiesInv => LiveRoomsAreKeptAlive
  BY DEF CopiesInv, TableInv, LiveRoomsAreKeptAlive
<1> QED BY <1>1, CopiesHold, PTL

\* A session enters a room only while its identity is not banned from the hub.
THEOREM BannedStayOut == Spec => BannedNeverEnter
<1> DEFINE Entering == \A o \in Objs, s \in Sessions :
                         s \in members'[o] \ members[o] => IdOf[s] \notin banned
<1>1. TypeOK /\ IdentityInv /\ [Next]_vars => [Entering]_vars
  <2> SUFFICES ASSUME TypeOK, IdentityInv, Next, NEW o \in Objs, NEW s \in Sessions,
                      s \in members'[o] \ members[o]
               PROVE  IdOf[s] \notin banned
    BY DEF vars
  <2>1. disp.op = "joining" /\ disp.s = s
    <3>1. members' # members
      OBVIOUS
    <3>2. CASE JoinNewRoom
      BY <3>2 DEF JoinNewRoom, TypeOK
    <3>3. CASE JoinLiveRoom
      BY <3>3 DEF JoinLiveRoom, TypeOK
    <3>4. ~\E os, ss : Remove(os, ss)
      BY DEF Remove, Without
    <3>5. ASSUME NEW p \in Objs, ForgetRoom(p) PROVE FALSE
      BY <3>5 DEF ForgetRoom, TypeOK
    <3>6. ASSUME NEW t \in Sessions, SessionStep(t) \/ ForgetSession(t) PROVE FALSE
      BY <3>1, <3>4, <3>6
      DEF SessionStep, NewSession, BindPeer, Receive, Hello, ReHello, BackgroundClose,
          Teardown, CloseLink, ForgetSession
    <3>7. ASSUME NEW t \in Sessions, NEW n \in Names, RoomStep(t, n) PROVE FALSE
      BY <3>1, <3>4, <3>7 DEF RoomStep, Join, Part, Kick, Register, Unregister
    <3>8. ASSUME NEW t \in Sessions, NEW n \in Names, NEW i \in Identities,
                 BanAdd(t, n, i) \/ BanDel(t, n, i) \/ KlineAdd(t, i) \/ KlineDel(t, i)
          PROVE  FALSE
      BY <3>1, <3>4, <3>8 DEF BanAdd, BanDel, KlineAdd, KlineDel
    <3>9. ~(Finish \/ LeaveForReHello \/ WelcomeAgain \/ DispatcherClose)
      BY <3>1, <3>4 DEF Finish, LeaveForReHello, WelcomeAgain, DispatcherClose
    <3>10. ~(JoinRefused \/ RecordJoin \/ LeaveRoom \/ Unjoin \/ \E n \in Names : Prune(n))
      BY <3>1, <3>4 DEF JoinRefused, RecordJoin, LeaveRoom, Unjoin, Prune
    <3> QED
      BY <3>2, <3>3, <3>5, <3>6, <3>7, <3>8, <3>9, <3>10 DEF Next, HubStep, KlineAdd, KlineDel
  <2> QED BY <2>1 DEF IdentityInv
<1> QED
  <2>1. Spec => [](TypeOK /\ IdentityInv) /\ [][Next]_vars
    BY CopiesHold, PTL DEF Spec
  <2>2. TypeOK /\ IdentityInv /\ [Next]_vars => [Entering]_vars
    BY <1>1
  <2> QED BY <2>1, <2>2, PTL DEF BannedNeverEnter

-----------------------------------------------------------------------------
\* The number of rooms of a session

\* The names a session has joined are finitely many, and fewer names count less.
LEMMA JoinedCount ==
  ASSUME NEW S \in SUBSET Names, NEW T \in SUBSET S
  PROVE  /\ Cardinality(S) \in Nat /\ Cardinality(T) \in Nat
         /\ Cardinality(T) <= Cardinality(S)
<1>1. IsFiniteSet(Names)
  BY ConstantsAssumption
<1>2. IsFiniteSet(S)
  BY <1>1, FS_Subset
<1> QED
  BY <1>2, FS_Subset, FS_CardinalityType

\* Only the last section of a JOIN adds to a joined map.
LEMMA JoinedShrinks ==
  ASSUME TypeOK, [Next]_vars, NEW s \in Sessions,
         RecordJoin => disp.s # s
  PROVE  JoinedNames(s)' \subseteq JoinedNames(s)
<1> USE DEF JoinedNames, meta
<1>1. CASE joined' = joined
  BY <1>1
<1>2. ASSUME NEW t \in Sessions, joined' = [joined EXCEPT ![t] = NothingJoined]
      PROVE  JoinedNames(s)' \subseteq JoinedNames(s)
  BY <1>2 DEF TypeOK, NothingJoined
<1>3. ASSUME NEW t \in Sessions, NEW n \in Names, joined' = [joined EXCEPT ![t][n] = Nil]
      PROVE  JoinedNames(s)' \subseteq JoinedNames(s)
  BY <1>3 DEF TypeOK
<1>4. CASE RecordJoin
  BY <1>4 DEF RecordJoin, TypeOK
<1>5. CASE Unjoin
  <2>1. disp.n \in Names /\ disp.ss \in SUBSET Sessions
    BY <1>5 DEF Unjoin, TypeOK, Disp
  <2> QED
    BY <1>3, <1>5, <2>1 DEF Unjoin
<1>6. CASE DispatcherClose
  <2>1. disp.s \in Sessions
    BY <1>6 DEF DispatcherClose, TypeOK
  <2> QED
    BY <1>1, <1>2, <1>6, <2>1 DEF DispatcherClose, MarkClosed
<1>7. ASSUME NEW t \in Sessions, SessionStep(t) PROVE JoinedNames(s)' \subseteq JoinedNames(s)
  BY <1>1, <1>2, <1>7 DEF SessionStep, NewSession, BindPeer, Receive, Hello, ReHello,
                          BackgroundClose, MarkClosed, Teardown, CloseLink
<1>8. ASSUME NEW t \in Sessions, NEW n \in Names, RoomStep(t, n)
      PROVE  JoinedNames(s)' \subseteq JoinedNames(s)
  BY <1>1, <1>3, <1>8 DEF RoomStep, Join, Part, Kick, Register, Unregister
<1>9. ASSUME NEW t \in Sessions, ForgetSession(t) PROVE JoinedNames(s)' \subseteq JoinedNames(s)
  BY <1>2, <1>9 DEF ForgetSession
<1> QED
  BY <1>1, <1>4, <1>5, <1>6, <1>7, <1>8, <1>9
  DEF Next, HubStep, vars, BanAdd, BanDel, KlineAdd, KlineDel, Finish, LeaveForReHello,
      WelcomeAgain, JoinNewRoom, JoinLiveRoom, JoinRefused, LeaveRoom, Prune, ForgetRoom

\* A JOIN under way was counted, by the step that began it or before.
LEMMA CountedJoins ==
  ASSUME TypeOK, [Next]_vars, disp'.op \in {"joining", "recording"}
  PROVE  \/ disp.op \in {"joining", "recording"} /\ disp'.s = disp.s /\ ~RecordJoin
         \/ /\ Under(MaxRoomsPerSession, Cardinality(JoinedNames(disp'.s)))
            /\ joined' = joined
<1> USE DEF Idle, On, Doing, Unjoining, meta
<1>1. ASSUME NEW s \in Sessions, NEW n \in Names, Join(s, n)
      PROVE  disp'.s = s /\ Under(MaxRoomsPerSession, Cardinality(JoinedNames(s))) /\ joined' = joined
  BY <1>1 DEF Join
<1>2. ASSUME disp' # disp
      PROVE  \/ \E s \in Sessions, n \in Names : Join(s, n)
             \/ JoinNewRoom \/ JoinLiveRoom
  <2>1. ASSUME NEW s \in Sessions, SessionStep(s) PROVE FALSE
    <3>1. ~NewSession(s) /\ ~Receive(s)
      BY <1>2 DEF NewSession, Receive
    <3>2. ~Hello(s) /\ ~ReHello(s) /\ ~CloseLink(s)
      BY <1>2 DEF Hello, ReHello, CloseLink
    <3> QED
      <4>1. ~BindPeer(s) /\ ~BackgroundClose(s)
        BY <1>2 DEF BindPeer, BackgroundClose
      <4>2. ~Teardown(s)
        BY <1>2 DEF Teardown
      <4> QED
        BY <2>1, <3>1, <3>2, <4>1, <4>2 DEF SessionStep
  <2>2. ASSUME NEW s \in Sessions, NEW n \in Names, RoomStep(s, n), ~Join(s, n) PROVE FALSE
    <3>1. ~Part(s, n) /\ ~Kick(s, n)
      <4>1. \A v : Unjoining(n, {v}).op = "unjoining"
        OBVIOUS
      <4> HIDE DEF Unjoining
      <4>2. ~Kick(s, n)
        BY <4>1 DEF Kick
      <4> QED
        BY <4>2 DEF Part
    <3>2. ~Register(s, n) /\ ~Unregister(s, n)
      BY <1>2 DEF Register, Unregister
    <3> QED
      BY <2>2, <3>1, <3>2 DEF RoomStep
  <2>3. ASSUME NEW s \in Sessions, NEW n \in Names, NEW i \in Identities,
               BanAdd(s, n, i) \/ BanDel(s, n, i) \/ KlineAdd(s, i) \/ KlineDel(s, i)
        PROVE  FALSE
    BY <1>2, <2>3 DEF BanAdd, BanDel, KlineAdd, KlineDel
  <2>4. ASSUME NEW s \in Sessions, NEW i \in Identities, KlineAdd(s, i) \/ KlineDel(s, i)
        PROVE  FALSE
    BY <1>2, <2>4 DEF KlineAdd, KlineDel
  <2>5. ~(Finish \/ LeaveForReHello \/ WelcomeAgain \/ DispatcherClose \/ JoinRefused
          \/ RecordJoin \/ LeaveRoom \/ Unjoin)
    BY <1>2 DEF Finish, LeaveForReHello, WelcomeAgain, DispatcherClose, JoinRefused,
                RecordJoin, LeaveRoom, Unjoin
  <2> QED
    BY <1>2, <2>1, <2>2, <2>3, <2>4, <2>5
    DEF Next, HubStep, vars, Prune, ForgetSession, ForgetRoom
<1>3. ~RecordJoin
  BY DEF RecordJoin
<1> QED
  BY <1>1, <1>2, <1>3 DEF JoinNewRoom, JoinLiveRoom

\* A step preserves the counts.
LEMMA CountStep == ASSUME TypeOK, CountInv, [Next]_vars PROVE CountInv'
<1> SUFFICES ASSUME MaxRoomsPerSession > 0 PROVE CountInv'
  BY DEF CountInv
<1>1. \A s \in Sessions : JoinedNames(s) \in SUBSET Names /\ JoinedNames(s)' \in SUBSET Names
  BY DEF JoinedNames
<1>2. MaxRoomsPerSession \in Nat
  BY ConstantsAssumption
<1>3. ASSUME NEW s \in Sessions, RecordJoin => disp.s # s
      PROVE  /\ Cardinality(JoinedNames(s)') <= Cardinality(JoinedNames(s))
             /\ Cardinality(JoinedNames(s)) \in Nat /\ Cardinality(JoinedNames(s)') \in Nat
  BY <1>1, <1>3, JoinedShrinks, JoinedCount
<1>4. ASSUME NEW s \in Sessions PROVE Cardinality(JoinedNames(s)') <= MaxRoomsPerSession
  <2>1. CASE RecordJoin /\ disp.s = s
    <3>1. /\ disp.n \in Names /\ joined[s] \in [Names -> Objs \cup {Nil}]
          /\ \E o \in disp.os : joined' = [joined EXCEPT ![s][disp.n] = o]
      BY <2>1 DEF RecordJoin, TypeOK
    <3>2. JoinedNames(s)' \subseteq JoinedNames(s) \cup {disp.n}
      BY <3>1 DEF JoinedNames, TypeOK
    <3>3. Cardinality(JoinedNames(s)) < MaxRoomsPerSession
      BY <2>1 DEF CountInv, RecordJoin
    <3>4. IsFiniteSet(JoinedNames(s))
      <4>1. IsFiniteSet(Names) /\ JoinedNames(s) \in SUBSET Names
        BY <1>1, ConstantsAssumption
      <4> QED
        BY <4>1, FS_Subset
    <3>5. Cardinality(JoinedNames(s) \cup {disp.n}) <= Cardinality(JoinedNames(s)) + 1
      <4>1. Cardinality(JoinedNames(s)) \in Nat
        BY <3>4, FS_CardinalityType
      <4> DEFINE one == disp.n
                 J == JoinedNames(s)
      <4> HIDE DEF one, J
      <4>2. Cardinality(J \cup {one}) = IF one \in J THEN Cardinality(J) ELSE Cardinality(J) + 1
        BY <3>4, FS_AddElement DEF J
      <4> QED
        BY <4>1, <4>2 DEF one, J
    <3>6. /\ Cardinality(JoinedNames(s)') <= Cardinality(JoinedNames(s) \cup {disp.n})
          /\ Cardinality(JoinedNames(s) \cup {disp.n}) \in Nat /\ Cardinality(JoinedNames(s)') \in Nat
      BY <1>1, <3>1, <3>2, JoinedCount
    <3>7. Cardinality(JoinedNames(s)) \in Nat
      BY <3>4, FS_CardinalityType
    <3> QED
      BY <1>2, <3>3, <3>5, <3>6, <3>7
  <2>2. CASE ~(RecordJoin /\ disp.s = s)
    BY <1>2, <1>3, <2>2 DEF CountInv
  <2> QED
    BY <2>1, <2>2
<1>5. ASSUME disp'.op \in {"joining", "recording"}
      PROVE  (Cardinality(JoinedNames(disp.s)) < MaxRoomsPerSession)'
  <2>1. CASE disp.op \in {"joining", "recording"} /\ disp'.s = disp.s /\ ~RecordJoin
    <3>1. SUFFICES ASSUME NEW s \in Sessions, s = disp.s, s = disp'.s
                   PROVE  (Cardinality(JoinedNames(disp.s)) < MaxRoomsPerSession)'
      BY <2>1 DEF TypeOK
    <3>2. Cardinality(JoinedNames(s)) < MaxRoomsPerSession
      BY <2>1, <3>1 DEF CountInv
    <3>3. Cardinality(JoinedNames(s)') < MaxRoomsPerSession
      BY <1>2, <1>3, <2>1, <3>2
    <3>4. JoinedNames(s)' = JoinedNames(disp.s)'
      BY <3>1 DEF JoinedNames
    <3> QED
      BY <3>3, <3>4
  <2>2. CASE Under(MaxRoomsPerSession, Cardinality(JoinedNames(disp'.s))) /\ joined' = joined
    BY <2>2 DEF Under, JoinedNames
  <2> QED
    BY <1>5, <2>1, <2>2, CountedJoins
<1> QED
  BY <1>4, <1>5 DEF CountInv

\* What CountStep preserves holds from the start.
LEMMA CountHolds == Spec => []CountInv
<1>1. Init => CountInv
  <2> SUFFICES ASSUME Init, MaxRoomsPerSession > 0 PROVE CountInv
    BY DEF CountInv
  <2>1. \A s \in Sessions : JoinedNames(s) = {}
    BY DEF Init, NothingJoined, JoinedNames
  <2>2. disp.op = "idle"
    BY DEF Init, Idle, Doing
  <2> QED
    BY <2>1, <2>2, FS_EmptySet, ConstantsAssumption DEF CountInv
<1> QED
  BY <1>1, CountStep, TypeCorrect, PTL DEF Spec

\* A session never has more rooms than the hub allows, although a JOIN counts
\* them in one critical section and records the room in another.
THEOREM RoomsPerSessionBounded == Spec => []RoomsPerSessionHold
<1>1. CountInv => RoomsPerSessionHold
  BY DEF CountInv, RoomsPerSessionHold
<1> QED
  BY <1>1, CountHolds, PTL

-----------------------------------------------------------------------------
\* What the people connected see

\* The rooms a session is seen in are its member sets as long as it is open.
LEMMA PresenceIs ==
  /\ PresentNow \in [Sessions -> SUBSET Names]
  /\ \A t \in Sessions : PresentNow[t] = IF phase[t] = "open" THEN PresentIn(t) ELSE {}
  /\ \A t \in Sessions, n \in Names :
       n \in PresentIn(t) <=> \E o \in Objs : name[o] = n /\ t \in members[o]
BY DEF PresentNow, PresentIn

\* The same of the state after a step.
LEMMA PresenceWillBe ==
  /\ PresentNow' \in [Sessions -> SUBSET Names]
  /\ \A t \in Sessions : PresentNow'[t] = IF phase'[t] = "open" THEN PresentIn(t)' ELSE {}
  /\ \A t \in Sessions, n \in Names :
       n \in PresentIn(t)' <=> \E o \in Objs : name'[o] = n /\ t \in members'[o]
BY DEF PresentNow, PresentIn

\* A session is seen where it was as long as its member sets keep their names.
LEMMA SeenAsBefore ==
  ASSUME NEW t \in Sessions, phase'[t] = "open" <=> phase[t] = "open",
         phase[t] = "open" =>
           \A o \in Objs : /\ t \in members'[o] <=> t \in members[o]
                           /\ t \in members[o] => name'[o] = name[o]
  PROVE  PresentNow'[t] = PresentNow[t]
<1>1. PresentIn(t) \subseteq Names /\ PresentIn(t)' \subseteq Names
  BY DEF PresentIn
<1>2. ASSUME phase[t] = "open", NEW n \in Names
      PROVE  n \in PresentIn(t)' <=> n \in PresentIn(t)
  BY <1>2, PresenceIs, PresenceWillBe
<1> QED
  BY <1>1, <1>2, PresenceIs, PresenceWillBe

\* A step that moves nobody and opens and closes no session is not seen.
LEMMA NothingSeen ==
  ASSUME \A t \in Sessions :
           /\ phase'[t] = "open" <=> phase[t] = "open"
           /\ phase[t] = "open" =>
                \A o \in Objs : /\ t \in members'[o] <=> t \in members[o]
                                /\ t \in members[o] => name'[o] = name[o]
  PROVE  Online' = Online /\ PresentNow' = PresentNow
<1>1. \A t \in Sessions : PresentNow'[t] = PresentNow[t]
  BY SeenAsBefore
<1>2. PresentNow' = PresentNow
  BY <1>1, PresenceIs, PresenceWillBe
<1> QED
  BY <1>2 DEF Online

\* The sessions ss leave the rooms os: the others stay, and of ss those that are
\* open stay in what is not in os.
LEMMA RemoveSeen ==
  ASSUME TypeOK, NEW os, NEW ss, Remove(os, ss), name' = name, phase' = phase, NEW t \in Sessions
  PROVE  /\ t \notin ss => PresentNow'[t] = PresentNow[t]
         /\ \A n \in Names : n \in PresentIn(t)' => n \in PresentIn(t)
         /\ \A n \in Names : t \in ss => (n \in PresentIn(t)' <=>
              \E o \in Objs : name[o] = n /\ t \in members[o] /\ o \notin os)
<1>1. \A o \in Objs : t \in members'[o] <=> t \in members[o] /\ ~(o \in os /\ t \in ss)
  BY DEF Remove, Without
<1>2. t \notin ss => PresentNow'[t] = PresentNow[t]
  BY <1>1, SeenAsBefore
<1> QED
  BY <1>1, <1>2, PresenceIs, PresenceWillBe

\* Nobody is closed or opened when nobody's phase changes.
LEMMA OnlineStays == ASSUME phase' = phase PROVE Online' = Online
BY DEF Online

-----------------------------------------------------------------------------
\* One step for every kind of action

\* A new session is seen to connect, and is in no room yet.
LEMMA ConnectSeen ==
  ASSUME TypeOK, IdentityInv, NEW s \in Sessions, NewSession(s)
  PROVE  People!Connect(s)
<1>1. phase[s] = "none" /\ phase' = [phase EXCEPT ![s] = "open"] /\ name' = name /\ members' = members
  BY DEF NewSession, meta
<1>2. \A o \in Objs : s \notin members[o]
  BY <1>1 DEF IdentityInv
<1>3. \A t \in Sessions \ {s} : PresentNow'[t] = PresentNow[t]
  <2> TAKE t \in Sessions \ {s}
  <2>1. phase'[t] = phase[t]
    BY <1>1 DEF TypeOK
  <2> QED
    BY <1>1, <2>1, SeenAsBefore
<1>4. PresentNow'[s] = PresentNow[s]
  <2>1. \A n \in Names : n \notin PresentIn(s)'
    BY <1>1, <1>2, PresenceWillBe
  <2>2. PresentNow[s] = {}
    BY <1>1, PresenceIs
  <2>3. PresentIn(s)' = {}
    BY <2>1 DEF PresentIn
  <2> QED
    BY <2>2, <2>3, PresenceWillBe
<1>5. PresentNow' = PresentNow
  BY <1>3, <1>4, PresenceIs, PresenceWillBe
<1>6. s \notin Online /\ Online' = Online \cup {s}
  BY <1>1 DEF Online, TypeOK
<1> QED
  BY <1>5, <1>6 DEF People!Connect

\* A session whose Close has begun is seen to disconnect.
LEMMA DisconnectSeen ==
  ASSUME TypeOK, NEW s \in Sessions, phase[s] = "open", phase' = [phase EXCEPT ![s] = "marked"],
         name' = name, members' = members
  PROVE  People!Disconnect(s)
<1>1. \A t \in Sessions \ {s} : PresentNow'[t] = PresentNow[t]
  <2> TAKE t \in Sessions \ {s}
  <2>1. phase'[t] = phase[t]
    BY DEF TypeOK
  <2> QED
    BY <2>1, SeenAsBefore
<1>2. phase'[s] = "marked"
  BY DEF TypeOK
<1>3. PresentNow'[s] = {}
  BY <1>2, PresenceWillBe
<1>4. PresentNow' = [PresentNow EXCEPT ![s] = {}]
  BY <1>1, <1>3, PresenceIs, PresenceWillBe
<1>5. s \in Online /\ Online' = Online \ {s}
  BY <1>2 DEF Online, TypeOK
<1> QED
  BY <1>4, <1>5 DEF People!Disconnect

\* Presence counts as Membership does.
LEMMA SameCount == ASSUME NEW S PROVE People!Cardinality(S) = Cardinality(S)
BY DEF People!Cardinality, Cardinality

\* An open session that is entered into a room it has not joined, while it may
\* join one more, is seen to enter.
LEMMA EnterSeen ==
  ASSUME TypeOK, NEW s \in Sessions, NEW n \in Names, NEW o \in Objs, phase[s] = "open", phase' = phase,
         name'[o] = n, members'[o] = members[o] \cup {s},
         members[o] # {} => name'[o] = name[o],
         \A p \in Objs \ {o} : members'[p] = members[p] /\ name'[p] = name[p],
         \A m \in PresentIn(s) : joined[s][m] # Nil,
         joined[s][n] = Nil,
         Under(MaxRoomsPerSession, Cardinality(JoinedNames(s)))
  PROVE  People!Enter(s, n)
<1>1. \A t \in Sessions \ {s} : PresentNow'[t] = PresentNow[t]
  BY SeenAsBefore
<1>2. \A m \in Names : m \in PresentIn(s)' <=> m \in PresentIn(s) \/ m = n
  <2> TAKE m \in Names
  <2>1. ASSUME m \in PresentIn(s)' PROVE m \in PresentIn(s) \/ m = n
    BY <2>1, PresenceIs, PresenceWillBe
  <2>2. ASSUME m \in PresentIn(s) PROVE m \in PresentIn(s)'
    <3>1. PICK p \in Objs : name[p] = m /\ s \in members[p]
      BY <2>2, PresenceIs
    <3>2. name'[p] = m /\ s \in members'[p]
      BY <3>1
    <3> QED
      BY <3>2, PresenceWillBe
  <2>3. n \in PresentIn(s)'
    BY PresenceWillBe
  <2> QED
    BY <2>1, <2>2, <2>3
<1>3. PresentNow[s] = PresentIn(s) /\ PresentNow'[s] = PresentIn(s)'
  BY PresenceIs, PresenceWillBe
<1>4. PresentNow'[s] = PresentNow[s] \cup {n}
  <2>1. PresentNow[s] \subseteq Names /\ PresentNow'[s] \subseteq Names
    BY PresenceIs, PresenceWillBe
  <2> QED
    BY <1>2, <1>3, <2>1
<1>5. PresentNow' = [PresentNow EXCEPT ![s] = @ \cup {n}]
  BY <1>1, <1>4, PresenceIs, PresenceWillBe
<1>6. n \notin PresentNow[s]
  BY <1>3
<1>7. PresentNow[s] \in SUBSET JoinedNames(s) /\ JoinedNames(s) \in SUBSET Names
  BY <1>3, PresenceIs DEF JoinedNames
<1>8. /\ Cardinality(PresentNow[s]) <= Cardinality(JoinedNames(s))
      /\ Cardinality(PresentNow[s]) \in Nat /\ Cardinality(JoinedNames(s)) \in Nat
  BY <1>7, JoinedCount
<1>9. MaxRoomsPerSession = 0 \/ People!Cardinality(PresentNow[s]) < MaxRoomsPerSession
  BY <1>8, SameCount, ConstantsAssumption DEF Under
<1>10. s \in Online /\ Online' = Online
  BY DEF Online
<1> QED
  BY <1>5, <1>6, <1>9, <1>10 DEF People!Enter

\* One session leaves the only room of a name that it is in.
LEMMA LeaveSeen ==
  ASSUME TypeOK, NEW s \in Sessions, NEW n \in Names, NEW os \in SUBSET Objs, phase[s] = "open",
         Remove(os, {s}), name' = name, phase' = phase,
         \A o \in Objs : s \in members[o] => (o \in os <=> name[o] = n)
  PROVE  PresentNow' = PresentNow \/ People!Leave(s, n)
<1>1. \A t \in Sessions \ {s} : PresentNow'[t] = PresentNow[t]
  BY RemoveSeen
<1>2. \A m \in Names : m \in PresentIn(s)' <=> m \in PresentIn(s) /\ m # n
  BY RemoveSeen, PresenceIs
<1>3. PresentNow[s] = PresentIn(s) /\ PresentNow'[s] = PresentIn(s)'
  BY PresenceIs, PresenceWillBe
<1>4. PresentNow'[s] = PresentNow[s] \ {n}
  <2>1. PresentNow[s] \subseteq Names /\ PresentNow'[s] \subseteq Names
    BY PresenceIs, PresenceWillBe
  <2> QED
    BY <1>2, <1>3, <2>1
<1>5. PresentNow' = [PresentNow EXCEPT ![s] = @ \ {n}]
  BY <1>1, <1>4, PresenceIs, PresenceWillBe
<1>6. CASE n \in PresentNow[s]
  BY <1>5, <1>6, OnlineStays DEF People!Leave
<1>7. CASE n \notin PresentNow[s]
  <2>1. PresentNow[s] \ {n} = PresentNow[s]
    BY <1>7
  <2>2. \A t \in Sessions : PresentNow'[t] = PresentNow[t]
    BY <1>1, <1>4, <2>1
  <2> QED
    BY <2>2, PresenceIs, PresenceWillBe
<1> QED
  BY <1>6, <1>7

\* Outside of a handler's two sections an open session is in one room of a name.
LEMMA OneRoomOfAName ==
  ASSUME CopiesInv, disp.op \notin {"recording", "parting", "resetting"},
         NEW s \in Sessions, phase[s] = "open", NEW o \in Objs, s \in members[o]
  PROVE  joined[s][name[o]] = o
BY DEF CopiesInv, MemberInv, Leaving

\* A kick is seen as the victim leaving.
LEMMA KickSeen ==
  ASSUME TypeOK, CopiesInv, NEW s \in Sessions, NEW n \in Names, Kick(s, n)
  PROVE  PresentNow' = PresentNow \/ \E v \in Sessions : People!Leave(v, n)
<1>1. disp.op = "gated" /\ rooms[n] # Nil /\ name' = name /\ phase' = phase
  BY DEF Kick, Handling, On, Doing, meta
<1>2. PICK v \in members[rooms[n]] : Remove({rooms[n]}, {v})
  BY DEF Kick
<1>3. rooms[n] \in Objs /\ v \in Sessions /\ name[rooms[n]] = n
  BY <1>1, <1>2 DEF TypeOK, CopiesInv, TableInv, LiveRooms
<1>4. CASE phase[v] = "open"
  <2>1. \A o \in Objs : v \in members[o] => joined[v][name[o]] = o
    BY <1>1, <1>3, <1>4, OneRoomOfAName
  <2>2. \A o \in Objs : v \in members[o] => (o \in {rooms[n]} <=> name[o] = n)
    BY <1>2, <1>3, <2>1
  <2>3. {rooms[n]} \in SUBSET Objs
    BY <1>3
  <2> QED
    BY <1>1, <1>2, <1>3, <1>4, <2>2, <2>3, LeaveSeen
<1>5. CASE phase[v] # "open"
  <2>1. PresentNow[v] = {} /\ PresentNow'[v] = {}
    BY <1>1, <1>3, <1>5, PresenceIs, PresenceWillBe
  <2>2. \A t \in Sessions \ {v} : PresentNow'[t] = PresentNow[t]
    BY <1>1, <1>2, RemoveSeen
  <2>3. \A t \in Sessions : PresentNow'[t] = PresentNow[t]
    BY <2>1, <2>2
  <2> QED
    BY <2>3, PresenceIs, PresenceWillBe
<1> QED
  BY <1>4, <1>5

\* A session that is not open is seen nowhere, whatever it leaves.
LEMMA ClosedUnseen ==
  ASSUME TypeOK, NEW s \in Sessions, phase[s] # "open", NEW os, Remove(os, {s}), name' = name,
         \A t \in Sessions : phase'[t] = "open" <=> phase[t] = "open"
  PROVE  Online' = Online /\ PresentNow' = PresentNow
<1>1. \A t \in Sessions \ {s}, o \in Objs : t \in members'[o] <=> t \in members[o]
  BY DEF Remove, Without
<1> QED
  BY <1>1, NothingSeen

\* A room ban is seen as the expulsion of one identity.
LEMMA ExpelSeen ==
  ASSUME TypeOK, CopiesInv, NEW s \in Sessions, NEW n \in Names, NEW i \in Identities, BanAdd(s, n, i)
  PROVE  People!Expel(n, i)
<1> DEFINE out == HashMatches(i, members[rooms[n]]) \cap Online
<1>1. disp.op = "gated" /\ rooms[n] # Nil /\ name' = name /\ phase' = phase
      /\ Remove({rooms[n]}, HashMatches(i, members[rooms[n]]))
  BY DEF BanAdd, Handling, On, Doing
<1>2. rooms[n] \in Objs /\ name[rooms[n]] = n
  BY <1>1 DEF TypeOK, CopiesInv, TableInv, LiveRooms
<1>3. out \in SUBSET {t \in Online : IdOf[t] = i}
  BY ConstantsAssumption DEF HashMatches, Ident
<1>4. \A t \in Sessions : PresentNow'[t] = IF t \in out THEN PresentNow[t] \ {n} ELSE PresentNow[t]
  <2> TAKE t \in Sessions
  <2>1. CASE t \in out
    <3>1. phase[t] = "open" /\ t \in members[rooms[n]] /\ t \in HashMatches(i, members[rooms[n]])
      BY <2>1 DEF Online, HashMatches
    <3>2. \A o \in Objs : t \in members[o] => joined[t][name[o]] = o
      BY <1>1, <3>1, OneRoomOfAName
    <3>3. \A o \in Objs : t \in members[o] => (o = rooms[n] <=> name[o] = n)
      BY <1>2, <3>1, <3>2
    <3>4. \A m \in Names : m \in PresentIn(t)' <=> m \in PresentIn(t) /\ m # n
      BY <1>1, <3>1, <3>3, RemoveSeen, PresenceIs
    <3>5. PresentNow[t] = PresentIn(t) /\ PresentNow'[t] = PresentIn(t)'
      BY <1>1, <3>1, PresenceIs, PresenceWillBe
    <3>6. PresentNow[t] \subseteq Names /\ PresentNow'[t] \subseteq Names
      BY PresenceIs, PresenceWillBe
    <3>7. PresentNow'[t] = PresentNow[t] \ {n}
      BY <3>4, <3>5, <3>6
    <3> QED
      BY <2>1, <3>7
  <2>2. CASE t \notin out /\ t \in HashMatches(i, members[rooms[n]])
    <3>1. phase[t] # "open"
      BY <2>2 DEF Online
    <3>2. PresentNow'[t] = {} /\ PresentNow[t] = {}
      BY <1>1, <3>1, PresenceIs, PresenceWillBe
    <3> QED
      BY <2>2, <3>2
  <2>3. CASE t \notin HashMatches(i, members[rooms[n]])
    BY <1>1, <2>3, RemoveSeen
  <2> QED
    BY <2>1, <2>2, <2>3
<1> HIDE DEF out
<1>5. PresentNow' = [t \in Sessions |-> IF t \in out THEN PresentNow[t] \ {n} ELSE PresentNow[t]]
  BY <1>4, PresenceWillBe
<1> QED
  BY <1>1, <1>3, <1>5, OnlineStays DEF People!Expel

\* Only those of one object's fields that a collected room no longer needs
\* change: nobody open is in it.
LEMMA CollectedUnseen ==
  ASSUME TypeOK, CopiesInv, NEW o \in Objs, ForgetRoom(o)
  PROVE  Online' = Online /\ PresentNow' = PresentNow
<1>1. /\ \A p \in Objs \ {o} : members'[p] = members[p] /\ name'[p] = name[p]
      /\ members'[o] = {} /\ phase' = phase
  BY DEF ForgetRoom, TypeOK
<1>2. ASSUME NEW t \in Sessions, phase[t] = "open" PROVE t \notin members[o]
  <2>1. SUFFICES ASSUME t \in members[o] PROVE FALSE
    OBVIOUS
  <2>2. name[o] \in Names /\ (joined[t][name[o]] = o \/ Leaving(t, o))
    BY <1>2, <2>1 DEF CopiesInv, NamesInv, MemberInv
  <2>3. o \notin disp.os /\ o \notin JoinedRooms(t)
    BY DEF ForgetRoom, DeadRooms, Referenced
  <2>4. o # Nil
    BY ConstantsAssumption
  <2> QED
    BY <2>2, <2>3, <2>4 DEF Leaving, JoinedRooms, JoinedNames
<1> QED
  BY <1>1, <1>2, NothingSeen

\* A JOIN that is not refused is seen, unless its session was closed meanwhile.
LEMMA JoinSeen ==
  ASSUME TypeOK, CopiesInv, CountInv, JoinNewRoom \/ JoinLiveRoom
  PROVE  \/ Online' = Online /\ PresentNow' = PresentNow
         \/ People!Enter(disp.s, disp.n)
<1> DEFINE s == disp.s
           n == disp.n
<1>1. s \in Sessions /\ n \in Names /\ disp.op = "joining" /\ phase' = phase
  BY DEF JoinNewRoom, JoinLiveRoom, TypeOK
<1>2. PICK o \in Objs :
        /\ name'[o] = n /\ members'[o] = members[o] \cup {s}
        /\ members[o] # {} => name'[o] = name[o]
        /\ \A p \in Objs \ {o} : members'[p] = members[p] /\ name'[p] = name[p]
  <2>1. CASE JoinNewRoom
    <3>1. PICK o \in Objs : /\ Blank(o)
                            /\ name' = [name EXCEPT ![o] = n] /\ members' = [members EXCEPT ![o] = {s}]
      BY <2>1 DEF JoinNewRoom
    <3>2. members[o] = {} /\ name'[o] = n /\ members'[o] = {s}
      BY <3>1 DEF Blank, TypeOK
    <3> QED
      BY <3>1, <3>2 DEF TypeOK
  <2>2. CASE JoinLiveRoom
    <3> DEFINE o == rooms[n]
    <3>1. o \in Objs /\ name[o] = n
      BY <1>1, <2>2 DEF JoinLiveRoom, TypeOK, CopiesInv, TableInv, LiveRooms
    <3>2. name' = name /\ members' = [members EXCEPT ![o] = @ \cup {s}]
      BY <2>2 DEF JoinLiveRoom, meta
    <3> QED
      BY <3>1, <3>2 DEF TypeOK
  <2> QED
    BY <2>1, <2>2
<1> HIDE DEF s, n
<1>3. CASE phase[s] = "open"
  <2>1. joined[s][n] = Nil
    BY <1>1, <1>3 DEF CopiesInv, HandlerInv, s, n
  <2>2. \A m \in PresentIn(s) : joined[s][m] # Nil
    <3> TAKE m \in PresentIn(s)
    <3>1. PICK p \in Objs : name[p] = m /\ s \in members[p]
      BY DEF PresentIn
    <3>2. joined[s][m] = p /\ p # Nil
      BY <1>1, <1>3, <3>1, OneRoomOfAName, ConstantsAssumption
    <3> QED
      BY <3>2
  <2>3. Under(MaxRoomsPerSession, Cardinality(JoinedNames(s)))
    BY <1>1, ConstantsAssumption DEF CountInv, Under, s
  <2>4. People!Enter(s, n)
    BY <1>1, <1>2, <1>3, <2>1, <2>2, <2>3, EnterSeen
  <2> QED
    BY <2>4 DEF s, n
<1>4. CASE phase[s] # "open"
  <2>1. \A t \in Sessions : phase[t] = "open" =>
          \A p \in Objs : /\ t \in members'[p] <=> t \in members[p]
                          /\ t \in members[p] => name'[p] = name[p]
    <3> SUFFICES ASSUME NEW t \in Sessions, phase[t] = "open", NEW p \in Objs
                 PROVE  /\ t \in members'[p] <=> t \in members[p]
                        /\ t \in members[p] => name'[p] = name[p]
      OBVIOUS
    <3>1. CASE p = o
      BY <1>2, <1>4, <3>1
    <3>2. CASE p # o
      BY <1>2, <3>2
    <3> QED
      BY <3>1, <3>2
  <2> QED
    BY <1>1, <2>1, NothingSeen
<1> QED
  BY <1>3, <1>4

\* So is a PART: the session is in no other room of the name.
LEMMA PartSeen ==
  ASSUME TypeOK, CopiesInv, LeaveRoom
  PROVE  \/ Online' = Online /\ PresentNow' = PresentNow
         \/ People!Leave(disp.s, disp.n)
<1>1. disp.op = "parting" /\ Remove(disp.os, {disp.s}) /\ name' = name /\ phase' = phase
  BY DEF LeaveRoom, meta
<1>2. disp.s \in Sessions /\ disp.n \in Names /\ disp.os \in SUBSET Objs
  BY <1>1 DEF TypeOK, Disp
<1>3. CASE phase[disp.s] = "open"
  <2>1. joined[disp.s][disp.n] = Nil /\ \A o \in disp.os : name[o] = disp.n
    BY <1>1, <1>2, <1>3 DEF CopiesInv, HandlerInv
  <2>2. \A o \in Objs : disp.s \in members[o] => (o \in disp.os <=> name[o] = disp.n)
    <3>1. \A o \in Objs : disp.s \in members[o] => joined[disp.s][name[o]] = o \/ o \in disp.os
      BY <1>2, <1>3 DEF CopiesInv, MemberInv, Leaving
    <3> QED
      BY <2>1, <3>1, ConstantsAssumption
  <2> QED
    BY <1>1, <1>2, <1>3, <2>2, LeaveSeen, OnlineStays
<1>4. CASE phase[disp.s] # "open"
  BY <1>1, <1>2, <1>4, ClosedUnseen
<1> QED
  BY <1>3, <1>4

\* A second HELLO takes a session out of everything.
LEMMA ReHelloSeen ==
  ASSUME TypeOK, CopiesInv, LeaveForReHello
  PROVE  \/ Online' = Online /\ PresentNow' = PresentNow
         \/ People!LeaveAll(disp.s)
<1>1. disp.op = "resetting" /\ Remove(disp.os, {disp.s}) /\ name' = name /\ phase' = phase
  BY DEF LeaveForReHello, meta
<1>2. disp.s \in Sessions
  BY <1>1 DEF TypeOK
<1>3. CASE phase[disp.s] = "open"
  <2> SUFFICES ASSUME NEW s \in Sessions, s = disp.s PROVE People!LeaveAll(s)
    BY <1>2
  <2>1. \A o \in Objs : s \in members[o] => o \in disp.os
    <3>1. \A n \in Names : joined[s][n] = Nil
      BY <1>1, <1>2, <1>3 DEF CopiesInv, HandlerInv
    <3>2. \A o \in Objs : s \in members[o] => name[o] \in Names
      BY DEF CopiesInv, NamesInv
    <3>3. \A o \in Objs : s \in members[o] => joined[s][name[o]] = o \/ o \in disp.os
      BY <1>2, <1>3 DEF CopiesInv, MemberInv, Leaving
    <3> QED
      BY <3>1, <3>2, <3>3, ConstantsAssumption
  <2>2. \A t \in Sessions \ {s} : PresentNow'[t] = PresentNow[t]
    BY <1>1, RemoveSeen
  <2>4. \A n \in Names : n \notin PresentIn(s)'
    BY <1>1, <2>1, RemoveSeen
  <2>5. PresentNow'[s] = {}
    <3>1. PresentNow'[s] = PresentIn(s)' /\ PresentNow'[s] \subseteq Names
      BY <1>1, <1>3, PresenceWillBe
    <3> QED
      BY <2>4, <3>1
  <2>6. PresentNow' = [PresentNow EXCEPT ![s] = {}]
    BY <2>2, <2>5, PresenceIs, PresenceWillBe
  <2> QED
    BY <1>1, <2>6, OnlineStays DEF People!LeaveAll
<1>4. CASE phase[disp.s] # "open"
  BY <1>1, <1>2, <1>4, ClosedUnseen
<1> QED
  BY <1>3, <1>4

\* Every step of the hub is one that the people connected may see, or none.
LEMMA PresenceStep ==
  ASSUME TypeOK, IdentityInv, CopiesInv, CountInv, [Next]_vars
  PROVE  People!Next \/ (Online' = Online /\ PresentNow' = PresentNow)
<1> DEFINE Unseen == Online' = Online /\ PresentNow' = PresentNow
<1> SUFFICES People!Next \/ Unseen
  OBVIOUS
<1> HIDE DEF Unseen
<1>1. ASSUME name' = name, members' = members, \A t \in Sessions : phase'[t] = "open" <=> phase[t] = "open"
      PROVE  Unseen
  BY <1>1, NothingSeen DEF Unseen
<1>2. ASSUME name' = name, members' = members, phase' = phase PROVE Unseen
  BY <1>1, <1>2
<1>3. ASSUME NEW s \in Sessions, SessionStep(s) PROVE People!Next \/ Unseen
  <2>1. ASSUME NewSession(s) PROVE People!Next
    BY <2>1, ConnectSeen DEF People!Next
  <2>2. ASSUME BackgroundClose(s) PROVE People!Next
    BY <2>2, DisconnectSeen DEF BackgroundClose, MarkClosed, meta, People!Next
  <2>3. ASSUME Teardown(s) PROVE Unseen
    <3>1. /\ phase[s] = "marked" /\ phase' = [phase EXCEPT ![s] = "torn"]
          /\ Remove(held[s], {s}) /\ name' = name
      BY <2>3 DEF Teardown, meta
    <3>2. phase[s] # "open" /\ \A t \in Sessions : phase'[t] = "open" <=> phase[t] = "open"
      BY <3>1 DEF TypeOK
    <3> QED
      BY <3>1, <3>2, ClosedUnseen DEF Unseen
  <2>4. ASSUME CloseLink(s) PROVE Unseen
    BY <1>1, <2>4 DEF CloseLink, meta, TypeOK
  <2> QED
    BY <1>2, <1>3, <2>1, <2>2, <2>3, <2>4
    DEF SessionStep, BindPeer, Receive, Hello, ReHello, meta
<1>4. ASSUME NEW s \in Sessions, NEW n \in Names, RoomStep(s, n) PROVE People!Next \/ Unseen
  <2>1. ASSUME Kick(s, n) PROVE People!Next \/ Unseen
    <3>1. Online' = Online
      BY <2>1, OnlineStays DEF Kick
    <3> QED
      BY <2>1, <3>1, KickSeen DEF Unseen, People!Next
  <2> QED
    BY <1>2, <1>4, <2>1 DEF RoomStep, Join, Part, Register, Unregister, meta
<1>5. ASSUME NEW s \in Sessions, NEW n \in Names, NEW i \in Identities, BanAdd(s, n, i) \/ BanDel(s, n, i)
      PROVE  People!Next \/ Unseen
  <2>1. ASSUME BanDel(s, n, i) PROVE Unseen
    BY <1>2, <2>1 DEF BanDel
  <2> QED
    BY <1>5, <2>1, ExpelSeen DEF People!Next
<1>6. ASSUME NEW s \in Sessions, NEW i \in Identities, KlineAdd(s, i) \/ KlineDel(s, i)
      PROVE  Unseen
  BY <1>2, <1>6 DEF KlineAdd, KlineDel, meta
<1>7. CASE Finish \/ WelcomeAgain \/ JoinRefused \/ RecordJoin \/ Unjoin \/ \E n \in Names : Prune(n)
  BY <1>2, <1>7 DEF Finish, WelcomeAgain, JoinRefused, RecordJoin, Unjoin, Prune, meta
<1>8. CASE LeaveForReHello
  <2>1. disp.s \in Sessions
    BY <1>8 DEF LeaveForReHello, TypeOK
  <2> QED
    BY <1>8, <2>1, ReHelloSeen DEF Unseen, People!Next
<1>9. CASE DispatcherClose
  <2>1. disp.s \in Sessions
    BY <1>9 DEF DispatcherClose, TypeOK
  <2>2. CASE phase[disp.s] = "open"
    <3>1. phase' = [phase EXCEPT ![disp.s] = "marked"] /\ name' = name /\ members' = members
      BY <1>9, <2>2 DEF DispatcherClose, MarkClosed, meta
    <3> QED
      BY <2>1, <2>2, <3>1, DisconnectSeen DEF People!Next
  <2>3. CASE phase[disp.s] # "open"
    BY <1>2, <1>9, <2>3 DEF DispatcherClose, meta
  <2> QED
    BY <2>2, <2>3
<1>10. CASE JoinNewRoom \/ JoinLiveRoom
  <2>1. disp.s \in Sessions /\ disp.n \in Names
    BY <1>10 DEF JoinNewRoom, JoinLiveRoom, TypeOK
  <2> QED
    BY <1>10, <2>1, JoinSeen DEF Unseen, People!Next
<1>11. CASE LeaveRoom
  <2>1. disp.s \in Sessions /\ disp.n \in Names
    BY <1>11 DEF LeaveRoom, TypeOK
  <2> QED
    BY <1>11, <2>1, PartSeen DEF Unseen, People!Next
<1>12. ASSUME NEW s \in Sessions, ForgetSession(s) PROVE Unseen
  BY <1>1, <1>12 DEF ForgetSession, DeadSessions, meta, TypeOK
<1>13. ASSUME NEW o \in Objs, ForgetRoom(o) PROVE Unseen
  BY <1>13, CollectedUnseen DEF Unseen
<1>14. CASE UNCHANGED vars
  BY <1>2, <1>14 DEF vars, meta
<1> QED
  BY <1>3, <1>4, <1>5, <1>6, <1>7, <1>8, <1>9, <1>10, <1>11, <1>12, <1>13, <1>14 DEF Next, HubStep

\* To the people connected the hub is Presence: nobody is ever moved by anything
\* but a step of their own, an operator's expulsion or the end of their session.
THEOREM PeopleSeePresence == Spec => PeopleSpec
<1>1. Init => People!Init
  <2> SUFFICES ASSUME Init PROVE People!Init
    OBVIOUS
  <2>1. \A s \in Sessions : phase[s] = "none"
    BY DEF Init
  <2>2. Online = {} /\ \A s \in Sessions : PresentNow[s] = {}
    BY <2>1, PresenceIs DEF Online
  <2>3. PresentNow = [s \in Sessions |-> {}]
    BY <2>2, PresenceIs
  <2> QED
    BY <2>2, <2>3 DEF People!Init
<1>2. TypeOK /\ IdentityInv /\ CopiesInv /\ CountInv /\ [Next]_vars => [People!Next]_People!pvars
  BY PresenceStep DEF People!pvars
<1> QED
  BY <1>1, <1>2, CopiesHold, CountHolds, PTL DEF Spec, PeopleSpec, People!Spec
=============================================================================
