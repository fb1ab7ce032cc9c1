----------------------------- MODULE Membership -----------------------------
(***************************************************************************)
(* Rooms, sessions and who is in what: the part of internal/hub that       *)
(* several goroutines change at once.                                      *)
(*                                                                         *)
(* One goroutine, the transport's dispatcher, runs every inbound frame of  *)
(* every session to completion (service.go, sessionFor).  Background       *)
(* goroutines (keepalive, idle sweep, janitor, link watchdog) may call     *)
(* Session.Close on any session at any moment, and the registry timer      *)
(* prunes.  A membership is stored twice: the room's member set, guarded   *)
(* by the hub mutex, and the session's joined map, guarded by the session  *)
(* mutex.  Handlers take one mutex after the other, never both, so one     *)
(* critical section is one action here and everything else interleaves     *)
(* between them.  What the dispatcher still has to do is kept in disp.     *)
(***************************************************************************)
EXTENDS Naturals, FiniteSets

CONSTANTS
  Sessions,          \* sessions, reused once nothing refers to the old one
  Identities,        \* verified Reticulum identities
  Names,             \* normalised room names
  Objs,              \* addresses of Room objects: a name may outlive a room
  Nil,               \* Go's nil, for every pointer and hash above
  IdOf,              \* the identity each session's peer can prove
  Trusted,           \* cfg.TrustedIdentities
  ConfigBanned,      \* cfg.BannedIdentities
  DefaultRooms,      \* cfg.DefaultRooms
  MaxSessions, MaxRooms, MaxRoomsPerSession,
  MaxRegisteredRooms, MaxRoomAcl

\* A configured limit of zero means no limit.
Under(limit, count) == limit = 0 \/ count < limit

ASSUME ConstantsAssumption ==
  /\ IsFiniteSet(Sessions) /\ IsFiniteSet(Names)
  /\ Nil \notin Sessions \cup Identities \cup Names \cup Objs
  /\ IdOf \in [Sessions -> Identities]
  /\ Trusted \subseteq Identities /\ ConfigBanned \subseteq Identities
  /\ DefaultRooms \subseteq Names
  /\ MaxSessions \in Nat /\ MaxRooms \in Nat /\ MaxRoomsPerSession \in Nat
  /\ MaxRegisteredRooms \in Nat /\ MaxRoomAcl \in Nat

VARIABLES
  rooms,     \* Hub.rooms: the room object each name leads to
  name, founder, registered, bans, members,  \* the fields of each Room object
  sessions,  \* Hub.sessions
  joined,    \* Session.joined: name -> room object
  phase,     \* how far a session's life and its Close have got
  held,      \* the rooms a running Close took out of joined
  welcomed,  \* Session.welcomed
  bound,     \* Service.identities still knows the session's identity
  banned,    \* Hub.banned
  disp       \* what the dispatcher is in the middle of

meta == <<name, founder, registered, bans>>
vars == <<rooms, meta, members, sessions, joined, phase, held, welcomed, bound,
          banned, disp>>

-----------------------------------------------------------------------------
\* Room objects

\* The member sets once the sessions ss have left the rooms os.
Without(os, ss) ==
  [o \in Objs |-> IF o \in os THEN members[o] \ ss ELSE members[o]]

\* dropRoomIfEmptyLocked for each of os, whose members are now mem: the entry
\* is deleted by NAME, whichever object the name leads to by then.
TableAfter(os, mem, reg) ==
  [n \in Names |-> IF \E o \in os : name[o] = n /\ mem[o] = {} /\ ~reg[o]
                     THEN Nil ELSE rooms[n]]

\* Take the sessions ss out of the rooms os and drop what that leaves empty.
Remove(os, ss) ==
  /\ members' = Without(os, ss)
  /\ rooms' = TableAfter(os, Without(os, ss), registered)

\* A room object nobody has used yet, or that has been collected.
Blank(o) == /\ name[o] = Nil /\ founder[o] = Nil /\ ~registered[o]
            /\ bans[o] = {} /\ members[o] = {}

LiveRooms == {n \in Names : rooms[n] # Nil}
JoinedNames(s) == {n \in Names : joined[s][n] # Nil}
JoinedRooms(s) == {joined[s][n] : n \in JoinedNames(s)}
NothingJoined == [n \in Names |-> Nil]

-----------------------------------------------------------------------------
\* The dispatcher's place in a handler

Ops == {"idle", "gated", "joining", "recording", "parting", "resetting",
        "welcoming", "unjoining", "close", "closing"}

Disp == [op: Ops, s: Sessions \cup {Nil}, n: Names \cup {Nil},
         id: Identities \cup {Nil}, os: SUBSET Objs, ss: SUBSET Sessions]

Doing(op, s, n, id, os, ss) ==
  [op |-> op, s |-> s, n |-> n, id |-> id, os |-> os, ss |-> ss]
Idle == Doing("idle", Nil, Nil, Nil, {}, {})
On(op, s) == Doing(op, s, Nil, Nil, {}, {})

\* A garbage collector would not take o.
Referenced(o) ==
  \/ \E n \in Names : rooms[n] = o
  \/ \E s \in Sessions : o \in held[s] \/ o \in JoinedRooms(s)
  \/ o \in disp.os

\* Session.identity(), which asks the service every time.
Ident(s) == IF bound[s] THEN IdOf[s] ELSE Nil

\* What a handler that asked at some moment since the frame was let through
\* may have got: the identity is nil once the link has been dropped.
IdentSinceGate(s) == {IdOf[s], Ident(s)}

\* Room.isOp for the caller; operators added by /op act as the founder does.
IsOp(s, o) == Ident(s) # Nil
              /\ (Ident(s) \in Trusted \/ Ident(s) = founder[o])

\* resolveTargetLocked for a full identity hash, and for a nickname (which
\* names one session, and any session that finished HELLO may have one).
HashMatches(i, pool) == {v \in pool : Ident(v) = i}
NickMatches(pool) == {v \in pool : welcomed[v]}

-----------------------------------------------------------------------------
\* Connecting and the frame gate

\* NewSession: refuse at the cap, refuse a known banned peer.  Both refusals
\* call Close.  The two hub sections are one action: only the dispatcher
\* changes the ban set.
NewSession(s) ==
  /\ disp = Idle /\ phase[s] = "none"
  /\ phase' = [phase EXCEPT ![s] = "open"]
  /\ \E known \in BOOLEAN :
       /\ bound' = [bound EXCEPT ![s] = known]
       /\ LET full == ~Under(MaxSessions, Cardinality(sessions))
              refused == full \/ (known /\ IdOf[s] \in banned)
          IN  /\ sessions' = IF full THEN sessions ELSE sessions \cup {s}
              /\ disp' = IF refused THEN On("close", s) ELSE Idle
  /\ UNCHANGED <<rooms, meta, members, joined, held, welcomed, banned>>

\* bindPeer: LINKIDENTIFY arrives on a link whose session exists already.
BindPeer(s) ==
  /\ disp = Idle /\ phase[s] \in {"open", "marked", "torn"} /\ ~bound[s]
  /\ bound' = [bound EXCEPT ![s] = TRUE]
  /\ UNCHANGED <<rooms, meta, members, sessions, joined, phase, held, welcomed, banned,
                 disp>>

\* Mutant of Receive: the frame gate forgets the ban set.
ReceiveFromAnyone(s) ==
  /\ disp = Idle /\ phase[s] = "open" /\ bound[s]
  /\ disp' = On("gated", s)
  /\ UNCHANGED <<rooms, meta, members, sessions, joined, phase, held, welcomed, bound,
                 banned>>

\* OnInbound up to the welcome gate: a closed session's frames are dropped,
\* an unidentified peer is told to identify, a banned one is closed.
Receive(s) ==
  /\ disp = Idle /\ phase[s] = "open" /\ bound[s]
  /\ disp' = On(IF IdOf[s] \in banned THEN "close" ELSE "gated", s)
  /\ UNCHANGED <<rooms, meta, members, sessions, joined, phase, held, welcomed, bound,
                 banned>>

\* Every frame and command that ends without touching a membership: refused
\* ones (each early return below), relayed messages, queries.
Finish ==
  /\ disp.op = "gated"
  /\ disp' = Idle
  /\ UNCHANGED <<rooms, meta, members, sessions, joined, phase, held, welcomed, bound,
                 banned>>

\* Past the welcome gate: what every handler but HELLO's starts from.
Handling(s) == disp = On("gated", s) /\ welcomed[s]

-----------------------------------------------------------------------------
\* HELLO

\* handleHello on a session not yet welcomed.
Hello(s) ==
  /\ disp = On("gated", s) /\ ~welcomed[s]
  /\ welcomed' = [welcomed EXCEPT ![s] = TRUE]
  /\ disp' = Idle
  /\ UNCHANGED <<rooms, meta, members, sessions, joined, phase, held, bound, banned>>

\* resetForReHello, the session's half: take the joined map.
ReHello(s) ==
  /\ Handling(s)
  /\ disp' = Doing("resetting", s, Nil, Nil, JoinedRooms(s), {})
  /\ joined' = [joined EXCEPT ![s] = NothingJoined]
  /\ welcomed' = [welcomed EXCEPT ![s] = FALSE]
  /\ UNCHANGED <<rooms, meta, members, sessions, phase, held, bound, banned>>

\* Mutant of LeaveForReHello: only the session's half of the reset is done.
StayForReHello ==
  /\ disp.op = "resetting"
  /\ disp' = On("welcoming", disp.s)
  /\ UNCHANGED <<rooms, meta, members, sessions, joined, phase, held, welcomed, bound,
                 banned>>

\* resetForReHello, the hub's half: leave every room that was taken.
LeaveForReHello ==
  /\ disp.op = "resetting"
  /\ Remove(disp.os, {disp.s})
  /\ disp' = On("welcoming", disp.s)
  /\ UNCHANGED <<meta, sessions, joined, phase, held, welcomed, bound, banned>>

\* handleHello goes on and welcomes the session again.
WelcomeAgain ==
  /\ disp.op = "welcoming"
  /\ welcomed' = [welcomed EXCEPT ![disp.s] = TRUE]
  /\ disp' = Idle
  /\ UNCHANGED <<rooms, meta, members, sessions, joined, phase, held, bound, banned>>

-----------------------------------------------------------------------------
\* JOIN and PART

\* Mutant of Join: the room count is compared with > instead of >=.
JoinOneMore(s, n) ==
  /\ Handling(s)
  /\ joined[s][n] = Nil
  /\ Under(MaxRoomsPerSession + 1, Cardinality(JoinedNames(s)))
  /\ \E id \in IdentSinceGate(s) : disp' = Doing("joining", s, n, id, {}, {})
  /\ UNCHANGED <<rooms, meta, members, sessions, joined, phase, held, welcomed, bound,
                 banned>>

\* handleJoin, first session section: a re-JOIN and a full session return.
\* The identity was read a moment earlier.
Join(s, n) ==
  /\ Handling(s)
  /\ joined[s][n] = Nil
  /\ Under(MaxRoomsPerSession, Cardinality(JoinedNames(s)))
  /\ \E id \in IdentSinceGate(s) : disp' = Doing("joining", s, n, id, {}, {})
  /\ UNCHANGED <<rooms, meta, members, sessions, joined, phase, held, welcomed, bound,
                 banned>>

\* handleJoin's hub section on a room that does not exist: create it, unless
\* the hub holds as many rooms as it may.
JoinNewRoom ==
  /\ disp.op = "joining" /\ rooms[disp.n] = Nil
  /\ Under(MaxRooms, Cardinality(LiveRooms))
  /\ \E o \in Objs :
       /\ Blank(o) /\ ~Referenced(o)
       /\ name' = [name EXCEPT ![o] = disp.n]
       /\ founder' = [founder EXCEPT ![o] = disp.id]
       /\ members' = [members EXCEPT ![o] = {disp.s}]
       /\ rooms' = [rooms EXCEPT ![disp.n] = o]
       /\ disp' = Doing("recording", disp.s, disp.n, disp.id, {o}, {})
  /\ UNCHANGED <<registered, bans, sessions, joined, phase, held, welcomed, bound, banned>>

\* Mutant of JoinLiveRoom: the room's ban list is not consulted.
JoinDespiteBan ==
  /\ disp.op = "joining" /\ rooms[disp.n] # Nil
  /\ LET o == rooms[disp.n]
     IN  /\ members' = [members EXCEPT ![o] = @ \cup {disp.s}]
         /\ disp' = Doing("recording", disp.s, disp.n, disp.id, {o}, {})
  /\ UNCHANGED <<rooms, meta, sessions, joined, phase, held, welcomed, bound, banned>>

\* handleJoin's hub section on a live room: a room ban refuses, unless the
\* identity was already gone when it was read.
JoinLiveRoom ==
  /\ disp.op = "joining" /\ rooms[disp.n] # Nil
  /\ LET o == rooms[disp.n]
     IN  /\ disp.id = Nil \/ disp.id \notin bans[o]
         /\ members' = [members EXCEPT ![o] = @ \cup {disp.s}]
         /\ disp' = Doing("recording", disp.s, disp.n, disp.id, {o}, {})
  /\ UNCHANGED <<rooms, meta, sessions, joined, phase, held, welcomed, bound, banned>>

\* handleJoin refused in the hub section: room limit, ban, +i or +k.  Whether
\* the modes refuse is left open here: anybody may be refused but an operator.
JoinRefused ==
  /\ disp.op = "joining"
  /\ IF rooms[disp.n] = Nil
       THEN ~Under(MaxRooms, Cardinality(LiveRooms))
       ELSE LET o == rooms[disp.n]
            IN  disp.id \in bans[o]
                \/ disp.id = Nil
                \/ (disp.id \notin Trusted /\ disp.id # founder[o])
  /\ disp' = Idle
  /\ UNCHANGED <<rooms, meta, members, sessions, joined, phase, held, welcomed, bound,
                 banned>>

\* handleJoin's last section: the session's own record of the room.
RecordJoin ==
  /\ disp.op = "recording"
  /\ \E o \in disp.os : joined' = [joined EXCEPT ![disp.s][disp.n] = o]
  /\ disp' = Idle
  /\ UNCHANGED <<rooms, meta, members, sessions, phase, held, welcomed, bound, banned>>

\* handlePart, the session's half, for a room it has joined.
Part(s, n) ==
  /\ Handling(s) /\ joined[s][n] # Nil
  /\ joined' = [joined EXCEPT ![s][n] = Nil]
  /\ disp' = Doing("parting", s, n, Nil, {joined[s][n]}, {})
  /\ UNCHANGED <<rooms, meta, members, sessions, phase, held, welcomed, bound, banned>>

\* Mutant of LeaveRoom: the dropRoomIfEmptyLocked call is missing.
LeaveRoomStanding ==
  /\ disp.op = "parting"
  /\ members' = Without(disp.os, {disp.s})
  /\ disp' = Idle
  /\ UNCHANGED <<rooms, meta, sessions, joined, phase, held, welcomed, bound, banned>>

\* handlePart, the hub's half.
LeaveRoom ==
  /\ disp.op = "parting"
  /\ Remove(disp.os, {disp.s})
  /\ disp' = Idle
  /\ UNCHANGED <<meta, sessions, joined, phase, held, welcomed, bound, banned>>

-----------------------------------------------------------------------------
\* Room and hub commands

\* The room entry is dropped in the member's joined map by name, one victim
\* per session section.
Unjoining(n, victims) ==
  IF victims = {} THEN Idle ELSE Doing("unjoining", Nil, n, Nil, {}, victims)

\* Mutant of Kick: the victim's joined map keeps its entry.
KickKeepingEntry(s, n) ==
  /\ Handling(s) /\ rooms[n] # Nil /\ IsOp(s, rooms[n])
  /\ \E v \in members[rooms[n]] : Remove({rooms[n]}, {v})
  /\ disp' = Idle
  /\ UNCHANGED <<meta, sessions, joined, phase, held, welcomed, bound, banned>>

\* cmdKick's hub section: an operator names exactly one member.
Kick(s, n) ==
  /\ Handling(s) /\ rooms[n] # Nil /\ IsOp(s, rooms[n])
  /\ \E v \in members[rooms[n]] :
       /\ \/ v \in NickMatches(members[rooms[n]])
          \/ HashMatches(Ident(v), members[rooms[n]]) = {v} /\ bound[v]
       /\ Remove({rooms[n]}, {v})
       /\ disp' = Unjoining(n, {v})
  /\ UNCHANGED <<meta, sessions, joined, phase, held, welcomed, bound, banned>>

\* cmdBan's target: an identity named by its hash, unless two sessions have
\* it, or by the nickname of one of its sessions.
CanName(i) == \/ Cardinality(HashMatches(i, sessions)) <= 1
              \/ HashMatches(i, NickMatches(sessions)) # {}

\* cmdBan add: every member with the identity leaves at once.
BanAdd(s, n, i) ==
  /\ Handling(s) /\ rooms[n] # Nil /\ IsOp(s, rooms[n]) /\ CanName(i)
  /\ LET o == rooms[n]
         victims == HashMatches(i, members[o])
     IN  /\ i \in bans[o] \/ Under(MaxRoomAcl, Cardinality(bans[o]))
         /\ bans' = [bans EXCEPT ![o] = @ \cup {i}]
         /\ Remove({o}, victims)
         /\ disp' = Unjoining(n, victims)
  /\ UNCHANGED <<name, founder, registered, sessions, joined, phase, held,
                 welcomed, bound, banned>>

\* cmdBan del.
BanDel(s, n, i) ==
  /\ Handling(s) /\ rooms[n] # Nil /\ IsOp(s, rooms[n]) /\ CanName(i)
  /\ bans' = [bans EXCEPT ![rooms[n]] = @ \ {i}]
  /\ disp' = Idle
  /\ UNCHANGED <<rooms, name, founder, registered, members, sessions, joined,
                 phase, held, welcomed, bound, banned>>

\* The tail of cmdKick and of cmdBan add: one victim's joined entry.
Unjoin ==
  /\ disp.op = "unjoining"
  /\ \E v \in disp.ss :
       /\ joined' = [joined EXCEPT ![v][disp.n] = Nil]
       /\ disp' = Unjoining(disp.n, disp.ss \ {v})
  /\ UNCHANGED <<rooms, meta, members, sessions, phase, held, welcomed, bound, banned>>

\* cmdKline add by a server operator (checked in a section of its own): the
\* identity is banned and the one session the token named is closed.
KlineAdd(s, i) ==
  /\ Handling(s) /\ IdOf[s] \in Trusted
  /\ banned' = banned \cup {i}
  /\ \/ /\ HashMatches(i, sessions) = {}
        /\ disp' = Idle
     \/ \E v \in HashMatches(i, sessions) :
          /\ v \in NickMatches(sessions) \/ HashMatches(i, sessions) = {v}
          /\ disp' = On("close", v)
  /\ UNCHANGED <<rooms, meta, members, sessions, joined, phase, held, welcomed, bound>>

\* cmdKline del: what the configuration bans stays banned.
KlineDel(s, i) ==
  /\ Handling(s) /\ IdOf[s] \in Trusted
  /\ banned' = banned \ ({i} \ ConfigBanned)
  /\ disp' = Idle
  /\ UNCHANGED <<rooms, meta, members, sessions, joined, phase, held, welcomed, bound>>

\* cmdRegister: by the founder, from inside the room, within the founder's
\* allowance of registered rooms.
Register(s, n) ==
  /\ Handling(s) /\ rooms[n] # Nil /\ s \in members[rooms[n]]
  /\ Ident(s) # Nil /\ founder[rooms[n]] = Ident(s)
  /\ \/ registered[rooms[n]]
     \/ Under(MaxRegisteredRooms,
              Cardinality({m \in LiveRooms : /\ registered[rooms[m]]
                                             /\ founder[rooms[m]] = Ident(s)}))
  /\ registered' = [registered EXCEPT ![rooms[n]] = TRUE]
  /\ disp' = Idle
  /\ UNCHANGED <<rooms, name, founder, bans, members, sessions, joined, phase,
                 held, welcomed, bound, banned>>

\* cmdUnregister: by the founder, from inside; an empty room is dropped.
Unregister(s, n) ==
  /\ Handling(s) /\ rooms[n] # Nil /\ s \in members[rooms[n]]
  /\ Ident(s) # Nil /\ founder[rooms[n]] = Ident(s)
  /\ registered[rooms[n]]
  /\ registered' = [registered EXCEPT ![rooms[n]] = FALSE]
  /\ rooms' = TableAfter({rooms[n]}, members, registered')
  /\ disp' = Idle
  /\ UNCHANGED <<name, founder, bans, members, sessions, joined, phase, held,
                 welcomed, bound, banned>>

-----------------------------------------------------------------------------
\* Close, from any goroutine, and the registry timer

\* Mutant of MarkClosed: the joined map is set to nil rather than emptied.
MarkClosedToNil(s) ==
  /\ phase' = [phase EXCEPT ![s] = "marked"]
  /\ held' = [held EXCEPT ![s] = JoinedRooms(s)]
  /\ joined' = [joined EXCEPT ![s] = Nil]

\* Close's session section; a second Close of the same session returns here.
MarkClosed(s) ==
  /\ phase' = [phase EXCEPT ![s] = "marked"]
  /\ held' = [held EXCEPT ![s] = JoinedRooms(s)]
  /\ joined' = [joined EXCEPT ![s] = NothingJoined]

\* Keepalive timeout, idle sweep, janitor or link watchdog.
BackgroundClose(s) ==
  /\ phase[s] = "open" /\ s \in sessions
  /\ MarkClosed(s)
  /\ UNCHANGED <<rooms, meta, members, sessions, welcomed, bound, banned, disp>>

\* The dispatcher's own Close: it returns at once when another goroutine has
\* got there first, and otherwise sees the teardown through.
DispatcherClose ==
  /\ disp.op = "close"
  /\ IF phase[disp.s] = "open"
       THEN MarkClosed(disp.s) /\ disp' = On("closing", disp.s)
       ELSE disp' = Idle /\ UNCHANGED <<phase, held, joined>>
  /\ UNCHANGED <<rooms, meta, members, sessions, welcomed, bound, banned>>

\* Close's hub section: de-register and leave every room it took.
Teardown(s) ==
  /\ phase[s] = "marked"
  /\ phase' = [phase EXCEPT ![s] = "torn"]
  /\ sessions' = sessions \ {s}
  /\ Remove(held[s], {s})
  /\ held' = [held EXCEPT ![s] = {}]
  /\ UNCHANGED <<meta, joined, welcomed, bound, banned, disp>>

\* Close's end, rnsLink.Close: the service forgets the link's identity.
CloseLink(s) ==
  /\ phase[s] = "torn"
  /\ phase' = [phase EXCEPT ![s] = "gone"]
  /\ bound' = [bound EXCEPT ![s] = FALSE]
  /\ disp' = IF disp = On("closing", s) THEN Idle ELSE disp
  /\ UNCHANGED <<rooms, meta, members, sessions, joined, held, welcomed, banned>>

\* doPrune: an idle registered room, empty and not a default one.
Prune(n) ==
  /\ n \notin DefaultRooms /\ rooms[n] # Nil
  /\ registered[rooms[n]] /\ members[rooms[n]] = {}
  /\ rooms' = [rooms EXCEPT ![n] = Nil]
  /\ UNCHANGED <<meta, members, sessions, joined, phase, held, welcomed, bound, banned,
                 disp>>

\* The garbage collector: session and room objects nothing refers to.
DeadSessions ==
  {s \in Sessions : /\ phase[s] = "gone" /\ disp.s # s /\ s \notin disp.ss
                    /\ \A o \in Objs : s \notin members[o]}
DeadRooms == {o \in Objs : ~Blank(o) /\ ~Referenced(o)}

ForgetSession(s) ==
  /\ s \in DeadSessions
  /\ phase' = [phase EXCEPT ![s] = "none"]
  /\ joined' = [joined EXCEPT ![s] = NothingJoined]
  /\ welcomed' = [welcomed EXCEPT ![s] = FALSE]
  /\ UNCHANGED <<rooms, meta, members, sessions, held, bound, banned, disp>>

ForgetRoom(o) ==
  /\ o \in DeadRooms
  /\ name' = [name EXCEPT ![o] = Nil]
  /\ founder' = [founder EXCEPT ![o] = Nil]
  /\ registered' = [registered EXCEPT ![o] = FALSE]
  /\ bans' = [bans EXCEPT ![o] = {}]
  /\ members' = [members EXCEPT ![o] = {}]
  /\ UNCHANGED <<rooms, sessions, joined, phase, held, welcomed, bound, banned,
                 disp>>

-----------------------------------------------------------------------------
\* New: rooms.toml gives some registered rooms with their founders and bans
\* (loadRegistry), the default rooms are there in any case, nobody is in them;
\* the kline file adds to the bans of the configuration (loadKlines).
Init ==
  /\ rooms \in [Names -> Objs \cup {Nil}]
  /\ DefaultRooms \subseteq LiveRooms
  /\ \A m, n \in LiveRooms : rooms[m] = rooms[n] => m = n
  /\ LET Stored(o) == \E n \in LiveRooms : rooms[n] = o
     IN  /\ name \in [Objs -> Names \cup {Nil}]
         /\ \A o \in Objs : IF Stored(o) THEN name[o] \in Names /\ rooms[name[o]] = o
                                         ELSE name[o] = Nil
         /\ founder \in [Objs -> Identities \cup {Nil}]
         /\ bans \in [Objs -> SUBSET Identities]
         /\ \A o \in Objs : ~Stored(o) => founder[o] = Nil /\ bans[o] = {}
         /\ registered = [o \in Objs |-> Stored(o)]
  /\ members = [o \in Objs |-> {}] /\ sessions = {}
  /\ banned \in SUBSET Identities /\ ConfigBanned \subseteq banned
  /\ joined = [s \in Sessions |-> NothingJoined]
  /\ phase = [s \in Sessions |-> "none"]
  /\ held = [s \in Sessions |-> {}]
  /\ welcomed = [s \in Sessions |-> FALSE]
  /\ bound = [s \in Sessions |-> FALSE]
  /\ disp = Idle

SessionStep(s) ==
  \/ NewSession(s) \/ BindPeer(s) \/ Receive(s) \/ Hello(s) \/ ReHello(s)
  \/ BackgroundClose(s) \/ Teardown(s) \/ CloseLink(s)

RoomStep(s, n) ==
  \/ Join(s, n) \/ Part(s, n) \/ Kick(s, n) \/ Register(s, n) \/ Unregister(s, n)

HubStep ==
  \/ \E s \in Sessions : SessionStep(s)
  \/ \E s \in Sessions, n \in Names : RoomStep(s, n)
  \/ \E s \in Sessions, n \in Names, i \in Identities :
       BanAdd(s, n, i) \/ BanDel(s, n, i)
  \/ \E s \in Sessions, i \in Identities : KlineAdd(s, i) \/ KlineDel(s, i)
  \/ Finish \/ LeaveForReHello \/ WelcomeAgain \/ DispatcherClose
  \/ JoinNewRoom \/ JoinLiveRoom \/ JoinRefused \/ RecordJoin \/ LeaveRoom \/ Unjoin
  \/ \E n \in Names : Prune(n)

\* Nobody can see the collector, so it may as well always go first.
Next ==
  \/ DeadSessions = {} /\ DeadRooms = {} /\ HubStep
  \/ \E s \in Sessions : ForgetSession(s)
  \/ \E o \in Objs : ForgetRoom(o)

Spec == Init /\ [][Next]_vars

-----------------------------------------------------------------------------
\* Properties

\* Every variable keeps its type.
TypeOK ==
  /\ rooms \in [Names -> Objs \cup {Nil}]
  /\ name \in [Objs -> Names \cup {Nil}]
  /\ founder \in [Objs -> Identities \cup {Nil}]
  /\ registered \in [Objs -> BOOLEAN]
  /\ bans \in [Objs -> SUBSET Identities]
  /\ members \in [Objs -> SUBSET Sessions]
  /\ sessions \subseteq Sessions
  /\ joined \in [Sessions -> [Names -> Objs \cup {Nil}]]
  /\ phase \in [Sessions -> {"none", "open", "marked", "torn", "gone"}]
  /\ held \in [Sessions -> SUBSET Objs]
  /\ welcomed \in [Sessions -> BOOLEAN]
  /\ bound \in [Sessions -> BOOLEAN]
  /\ banned \subseteq Identities
  /\ disp \in Disp
  /\ disp.op \notin {"idle", "unjoining"} => disp.s \in Sessions
  /\ disp.op \in {"joining", "recording", "parting", "unjoining"} => disp.n \in Names

\* The two copies of a membership agree whenever no handler is between its
\* two sections: an open session is in a room's member set exactly when its
\* joined map leads to that room under that room's name (handleJoin,
\* handlePart, resetForReHello, cmdKick, cmdBan each update both copies).
CopiesAgreeAtRest ==
  disp = Idle =>
    \A s \in Sessions : phase[s] = "open" =>
      /\ \A o \in Objs : s \in members[o] => joined[s][name[o]] = o
      /\ \A o \in JoinedRooms(s) : s \in members[o]

\* A room's ban list and its members never overlap, whichever of /ban and
\* JOIN came first and however many sessions the banned identity has.
RoomBansHold ==
  \A o \in Objs, s \in Sessions :
    (s \in members[o] /\ bound[s]) => IdOf[s] \notin bans[o]

\* An unregistered room in the hub's table always has somebody in it, so an
\* empty one never lingers against MaxRooms (dropRoomIfEmptyLocked).
LiveRoomsAreKeptAlive ==
  \A n \in LiveRooms : members[rooms[n]] # {} \/ registered[rooms[n]]

\* A session never counts more rooms than the hub allows, although handleJoin
\* checks the count and records the room in two separate sections.
RoomsPerSessionHold ==
  MaxRoomsPerSession > 0 =>
    \A s \in Sessions : Cardinality(JoinedNames(s)) <= MaxRoomsPerSession

\* Nobody whose identity is banned from the hub enters a room, although the
\* ban is checked at the frame gate and the room is entered two steps later.
BannedNeverEnter ==
  [][\A o \in Objs, s \in Sessions :
       s \in members'[o] \ members[o] => IdOf[s] \notin banned]_vars

\* Why the bans hold: what every reachable state knows about identities.
HandlerOps == Ops \ {"idle", "unjoining", "close", "closing"}
IdentityInv ==
  \* whoever is in a room proved an identity, and it is known until the end
  /\ \A o \in Objs, s \in Sessions :
       s \in members[o] => phase[s] # "none" /\ (bound[s] \/ phase[s] = "gone")
  /\ \A s \in Sessions : phase[s] \in {"none", "gone"} => ~bound[s]
  \* so did whoever's frame is being handled
  /\ disp.s \in Sessions => phase[disp.s] # "none"
  /\ disp.op \in HandlerOps => bound[disp.s] \/ phase[disp.s] = "gone"
  \* a JOIN carries that identity, or none because the link is gone
  /\ disp.op = "joining" =>
       disp.id = IdOf[disp.s] \/ (disp.id = Nil /\ phase[disp.s] = "gone")
  \* and the identity was not banned when the frame was let through
  /\ disp.op \in {"gated", "joining"} => IdOf[disp.s] \notin banned
  /\ RoomBansHold

\* Why the copies agree: what may differ while a handler is between its two
\* sections, and that every name in use leads to a room object of that name.
Leaving(s, o) ==   \* s is in o's member set but o is not in s's joined map
  disp.op \in {"recording", "parting", "resetting"} /\ disp.s = s /\ o \in disp.os
Unjoined(s, n) ==  \* n is in s's joined map but s is not in the room any more
  disp.op = "unjoining" /\ s \in disp.ss /\ n = disp.n

TableInv ==
  \A n \in LiveRooms : /\ name[rooms[n]] = n
                       /\ members[rooms[n]] # {} \/ registered[rooms[n]]
NamesInv == \A o \in Objs : members[o] # {} => name[o] \in Names
FreshInv == \A s \in Sessions, n \in Names : phase[s] = "none" => joined[s][n] = Nil
MemberInv ==
  \A s \in Sessions, o \in Objs : (phase[s] = "open" /\ s \in members[o]) =>
    joined[s][name[o]] = o \/ Leaving(s, o)
JoinedInv ==
  \A s \in Sessions, n \in Names : (phase[s] = "open" /\ joined[s][n] # Nil) =>
    /\ name[joined[s][n]] = n
    /\ s \in members[joined[s][n]] \/ Unjoined(s, n)
HandlerInv ==
  (disp.s \in Sessions /\ phase[disp.s] = "open") =>
    /\ disp.op \in {"joining", "recording", "parting"} => joined[disp.s][disp.n] = Nil
    /\ disp.op \in {"resetting", "welcoming"} => \A n \in Names : joined[disp.s][n] = Nil
    /\ disp.op = "recording" => \A o \in disp.os : disp.s \in members[o]
    /\ disp.op = "parting" => \A o \in disp.os : name[o] = disp.n
RecordingInv ==
  disp.op = "recording" => \E o \in Objs : disp.os = {o} /\ name[o] = disp.n
UnjoiningInv ==
  disp.op = "unjoining" => \A s \in disp.ss, o \in Objs :
    (phase[s] = "open" /\ s \in members[o]) => name[o] # disp.n
CopiesInv ==
  /\ TableInv /\ NamesInv /\ FreshInv /\ MemberInv /\ JoinedInv
  /\ HandlerInv /\ RecordingInv /\ UnjoiningInv

\* Why the count holds: nothing is added to a joined map between the section of
\* a JOIN that counts and the one that records.
CountInv ==
  MaxRoomsPerSession > 0 =>
    /\ \A s \in Sessions : Cardinality(JoinedNames(s)) <= MaxRoomsPerSession
    /\ disp.op \in {"joining", "recording"} =>
         Cardinality(JoinedNames(disp.s)) < MaxRoomsPerSession

\* Seen by the people connected, all of this is Presence.
Online == {s \in Sessions : phase[s] = "open"}
PresentIn(s) == {n \in Names : \E o \in Objs : name[o] = n
                                               /\ s \in members[o]}
PresentNow == [s \in Sessions |-> IF phase[s] = "open" THEN PresentIn(s) ELSE {}]
People == INSTANCE Presence WITH online <- Online, present <- PresentNow
PeopleSpec == People!Spec

-----------------------------------------------------------------------------
\* What comments and documents say, and the code does not keep

\* "Close tears the session down: leaves every joined room" (session.go): once
\* its Close is over and no handler runs for it, a session is in no live room.
ClosedLeaveEveryRoom ==
  \A s \in Sessions, n \in LiveRooms :
    (phase[s] = "gone" /\ disp = Idle) => s \notin members[rooms[n]]

\* "removes an UNregistered room once its last member parts.  Registered rooms
\* persist." (hub.go): a room with members stays in the table.
OccupiedRoomsPersist ==
  [][\A n \in Names : (rooms[n] # Nil /\ rooms'[n] = Nil)
                        => members'[rooms[n]] = {}]_vars

\* "a banned identity is disconnected at link-identify time"
\* (docs/client-parity.md): between two handlers, no open session is known to
\* belong to a banned identity.
BannedAreDisconnected ==
  disp = Idle => \A s \in Sessions :
    (phase[s] = "open" /\ bound[s]) => IdOf[s] \notin banned
=============================================================================
