------------------------------ MODULE RoomAcl ------------------------------
(***************************************************************************)
(* What one room allows whom: founder, operators, voices, bans, invites    *)
(* and mode flags (internal/hub/room.go, with the handlers of commands.go  *)
(* and session.go that read or change them).                               *)
(*                                                                         *)
(* Every handler reads and changes the room in one critical section of the *)
(* hub mutex, so a handler is one action.  Sessions come and go, and prove *)
(* their identity at some moment or never; what several sessions do to the *)
(* room's tables at once is Membership's subject.  An invite's expiry is   *)
(* kept as the time it has left, and Flush stands for the whole of         *)
(* flushRegistry, which Registry takes apart.                              *)
(***************************************************************************)
EXTENDS Naturals, FiniteSets

CONSTANTS
  Sessions, Identities,
  Nil,             \* no room, and the empty hash of an unidentified peer
  IdOf,            \* the identity each session's peer can prove
  Trusted,         \* cfg.TrustedIdentities
  Switched,        \* the flags /mode is used on, a subset of Flags
  MaxRoomAcl,      \* cfg.MaxRoomAclEntries, 0 for no limit
  InviteTTL        \* cfg.RoomInviteTimeout, in ticks

Flags == {"i", "k", "m", "n", "p", "t"}

ASSUME RoomAclAssumption ==
  /\ IsFiniteSet(Identities) /\ Nil \notin Identities
  /\ IdOf \in [Sessions -> Identities] /\ Trusted \subseteq Identities
  /\ Switched \subseteq Flags
  /\ MaxRoomAcl \in Nat /\ InviteTTL \in Nat \ {0}

VARIABLES
  room,      \* the Room the name leads to, or Nil
  members,   \* Room.members
  known,     \* sessions whose link has identified
  dirty,     \* Hub.registryDirty
  heard,     \* whose text the last step relayed to the room, or Nil
  pass       \* history: the time each identity's unused invitation has left

vars == <<room, members, known, dirty, heard, pass>>

Hashes == Identities \cup {Nil}

\* The persisted fields of a Room.  An expired invite stays, with no time
\* left, until somebody prunes it.
Room == [founder: Hashes, registered: BOOLEAN, modes: SUBSET Flags,
         topic: BOOLEAN, ops: SUBSET Hashes, voiced: SUBSET Hashes,
         bans: SUBSET Identities, invited: SUBSET Identities,
         left: [Identities -> 0 .. InviteTTL]]

ASSUME NilAssumption == Nil \notin Room

Ident(s) == IF s \in known THEN IdOf[s] ELSE Nil

\* isServerOp and isOp: an unidentified peer is neither.
ServerOp(s) == Ident(s) \in Trusted
IsOp(s) == Ident(s) # Nil
           /\ (ServerOp(s) \/ Ident(s) = room.founder \/ Ident(s) \in room.ops)
IsVoiced(s) == Ident(s) # Nil /\ (IsOp(s) \/ Ident(s) \in room.voiced)

\* aclHasRoom: h may be on the list already, or it has a place left.
HasPlace(list, h) == MaxRoomAcl = 0 \/ h \in list \/ Cardinality(list) < MaxRoomAcl

\* createRoomLocked: the first to join founds the room, if identified.
NewRoom(h) ==
  [founder |-> h, registered |-> FALSE, modes |-> {}, topic |-> FALSE,
   ops |-> {h} \ {Nil}, voiced |-> {}, bans |-> {}, invited |-> {},
   left |-> [i \in Identities |-> 0]]

\* pruneInvitesLocked.
Pruned(r) == [r EXCEPT !.invited = {i \in @ : r.left[i] > 0}]

\* The command changes the room to r, and marks the registry if r is in it.
Amend(r) == /\ room' = r /\ dirty' = (dirty \/ r.registered)

\* The members ss leave; dropRoomIfEmptyLocked.
Expel(r, ss) ==
  /\ members' = members \ ss
  /\ room' = IF members \subseteq ss /\ ~r.registered THEN Nil ELSE r

NoPass == [i \in Identities |-> 0]
PassesOf(r) == IF r = Nil THEN NoPass ELSE pass

-----------------------------------------------------------------------------
\* Coming, going and speaking

Identify(s) ==
  /\ s \notin known /\ known' = known \cup {s} /\ heard' = Nil
  /\ UNCHANGED <<room, members, dirty, pass>>

\* Mutant: an invitation stays after its holder has come in.
JoinOnStandingInvite(s, rightKey) ==
  /\ s \notin members
  /\ LET r == IF room = Nil THEN NewRoom(Ident(s)) ELSE Pruned(room)
         welcome == Ident(s) \in r.invited \/ room = Nil \/ IsOp(s)
         refused == \/ Ident(s) \in r.bans
                    \/ ~welcome /\ ("i" \in r.modes \/ ("k" \in r.modes /\ ~rightKey))
     IN  ~refused /\ room' = r
  /\ members' = members \cup {s} /\ heard' = Nil /\ UNCHANGED <<known, dirty>>
  /\ pass' = [i \in Identities |-> IF i = Ident(s) THEN 0 ELSE pass[i]]

\* handleJoin.  Whoever is refused has still pruned the invites.
Join(s, rightKey) ==
  /\ s \notin members
  /\ LET r == IF room = Nil THEN NewRoom(Ident(s)) ELSE Pruned(room)
         invited == Ident(s) \in r.invited
         welcome == invited \/ room = Nil \/ IsOp(s)
         refused == \/ Ident(s) \in r.bans
                    \/ ~welcome /\ ("i" \in r.modes \/ ("k" \in r.modes /\ ~rightKey))
     IN  \/ /\ refused /\ room' = r /\ UNCHANGED <<members, dirty, pass>>
         \/ /\ ~refused /\ members' = members \cup {s}
            /\ room' = [r EXCEPT !.invited = @ \ {Ident(s)}]
            /\ dirty' = (dirty \/ (invited /\ r.registered))
            /\ pass' = [i \in Identities |-> IF i = Ident(s) THEN 0 ELSE pass[i]]
  /\ heard' = Nil /\ UNCHANGED known

\* handlePart.
Part(s) ==
  /\ s \in members /\ Expel(room, {s}) /\ pass' = PassesOf(room') /\ heard' = Nil
  /\ UNCHANGED <<known, dirty>>

\* Session.Close: out of the room, and the link forgets the identity.
Close(s) ==
  /\ s \in known \cup members /\ known' = known \ {s} /\ heard' = Nil
  /\ IF s \in members THEN Expel(room, {s}) ELSE UNCHANGED <<room, members>>
  /\ pass' = PassesOf(room')
  /\ UNCHANGED dirty

\* What handleMsg asks of whoever writes to the room.
MayPost(s) ==
  /\ Ident(s) \notin room.bans
  /\ "n" \in room.modes => s \in members
  /\ "m" \in room.modes => IsVoiced(s)

\* handleMsg: a MSG, a NOTICE or an ACTION for the room.
Post(s) ==
  /\ room # Nil /\ MayPost(s) /\ heard' = s
  /\ UNCHANGED <<room, members, known, dirty, pass>>

\* Mutant: the gates were passed when the transfer was announced.
NoticeByResourceUngated(s) ==
  /\ room # Nil /\ heard' = s
  /\ UNCHANGED <<room, members, known, dirty, pass>>

\* OnResourceConcluded: the text of a NOTICE arrived as a transfer, and its
\* sender is judged by what they may do now.
NoticeByResource(s) ==
  /\ room # Nil /\ heard' = s
  /\ Ident(s) \notin room.bans /\ ("n" \in room.modes => s \in members)
  /\ "m" \in room.modes => IsVoiced(s)
  /\ UNCHANGED <<room, members, known, dirty, pass>>

-----------------------------------------------------------------------------
\* Commands

\* Somebody who may command the room does.
Command(s) == /\ room # Nil /\ IsOp(s) /\ heard' = Nil /\ UNCHANGED known

Kick(s, victim) ==
  /\ Command(s) /\ victim \in members /\ Expel(room, {victim})
  /\ pass' = PassesOf(room') /\ UNCHANGED dirty

\* Mutant: a flag is switched and the registry not marked.
ModeUnmarked(s, f) ==
  /\ Command(s)
  /\ \E set \in {{}, {f}} : room' = [room EXCEPT !.modes = (@ \ {f}) \cup set]
  /\ UNCHANGED <<members, dirty, pass>>

\* /mode +f and -f, and +k and -k.
Mode(s, f) ==
  /\ Command(s)
  /\ \E set \in {{}, {f}} : Amend([room EXCEPT !.modes = (@ \ {f}) \cup set])
  /\ UNCHANGED <<members, pass>>

\* /op, /voice, /mode +o and +v, for somebody connected.  A nickname also
\* finds a peer who never identified, whose hash is empty.
Op(s, h) ==
  /\ Command(s) /\ HasPlace(room.ops, h)
  /\ Amend([room EXCEPT !.ops = @ \cup {h}]) /\ UNCHANGED <<members, pass>>

Voice(s, h) ==
  /\ Command(s) /\ HasPlace(room.voiced, h)
  /\ Amend([room EXCEPT !.voiced = @ \cup {h}]) /\ UNCHANGED <<members, pass>>

\* Mutant: anybody may be deopped.
DeopAnybody(s, h) ==
  /\ Command(s)
  /\ Amend([room EXCEPT !.ops = @ \ {h}]) /\ UNCHANGED <<members, pass>>

\* /deop and /mode -o: not the founder.
Deop(s, h) ==
  /\ Command(s) /\ h # room.founder
  /\ Amend([room EXCEPT !.ops = @ \ {h}]) /\ UNCHANGED <<members, pass>>

Devoice(s, h) ==
  /\ Command(s)
  /\ Amend([room EXCEPT !.voiced = @ \ {h}]) /\ UNCHANGED <<members, pass>>

\* Mutant: the operators who may ban are not counted against the limit.
BanAddUncounted(s, h) ==
  /\ Command(s)
  /\ LET r == [room EXCEPT !.bans = @ \cup {h}]
     IN  /\ Expel(r, {m \in members : Ident(m) = h})
         /\ dirty' = (dirty \/ r.registered)
  /\ pass' = PassesOf(room')

\* /ban add, of anybody by their hash, which puts them out of the room.
BanAdd(s, h) ==
  /\ Command(s) /\ HasPlace(room.bans, h)
  /\ LET r == [room EXCEPT !.bans = @ \cup {h}]
     IN  /\ Expel(r, {m \in members : Ident(m) = h})
         /\ dirty' = (dirty \/ r.registered)
  /\ pass' = PassesOf(room')

BanDel(s, h) ==
  /\ Command(s)
  /\ Amend([room EXCEPT !.bans = @ \ {h}]) /\ UNCHANGED <<members, pass>>

\* /invite add, of somebody connected who identified.  It is kept only when
\* there is a gate to pass; the old ones are pruned in any case.
InviteAdd(s, h) ==
  /\ Command(s) /\ UNCHANGED members
  /\ LET r == Pruned(room)
     IN  IF room.modes \cap {"i", "k"} = {}
           THEN room' = r /\ UNCHANGED <<dirty, pass>>
           ELSE /\ Amend([r EXCEPT !.invited = @ \cup {h}, !.left[h] = InviteTTL])
                /\ pass' = [pass EXCEPT ![h] = InviteTTL]

InviteDel(s, h) ==
  /\ Command(s) /\ UNCHANGED members
  /\ Amend([Pruned(room) EXCEPT !.invited = @ \ {h}])
  /\ pass' = [pass EXCEPT ![h] = 0]

\* /topic: a member or a server operator, and an operator under +t.
Topic(s) ==
  /\ room # Nil /\ (s \in members \/ ServerOp(s))
  /\ "t" \in room.modes => IsOp(s)
  /\ \E t \in BOOLEAN : Amend([room EXCEPT !.topic = t])
  /\ heard' = Nil /\ UNCHANGED <<members, known, pass>>

\* The founder, who has to be there.
Founding(s) == /\ room # Nil /\ s \in members /\ heard' = Nil
               /\ Ident(s) # Nil /\ Ident(s) = room.founder

\* /register closes the room to outsiders and their topics; the founder
\* becomes an operator whatever the limit says.
Register(s) ==
  /\ Founding(s)
  /\ Amend([room EXCEPT !.registered = TRUE, !.modes = @ \cup {"n", "t"},
                        !.ops = @ \cup {room.founder}])
  /\ UNCHANGED <<members, known, pass>>

Unregister(s) ==
  /\ Founding(s) /\ room.registered
  /\ room' = [room EXCEPT !.registered = FALSE] /\ dirty' = TRUE
  /\ UNCHANGED <<members, known, pass>>

-----------------------------------------------------------------------------
\* Timers

\* doPrune, when nobody has used the room for long enough.
Prune ==
  /\ room # Nil /\ room.registered /\ members = {}
  /\ room' = Nil /\ dirty' = TRUE /\ pass' = NoPass /\ heard' = Nil
  /\ UNCHANGED <<members, known>>

Flush ==
  /\ dirty /\ dirty' = FALSE /\ heard' = Nil
  /\ UNCHANGED <<room, members, known, pass>>

Less(f) == [i \in Identities |-> IF f[i] = 0 THEN 0 ELSE f[i] - 1]

Tick ==
  /\ room # Nil /\ heard' = Nil /\ pass' = Less(pass)
  /\ room' = [room EXCEPT !.left = Less(@)]
  /\ UNCHANGED <<members, known, dirty>>

-----------------------------------------------------------------------------
\* A hub without the room, as a first JOIN finds it.
Init ==
  /\ room = Nil /\ members = {} /\ known = {} /\ dirty = FALSE
  /\ heard = Nil /\ pass = NoPass

\* What /op and /voice can make of a connected target.
Targets == {Ident(v) : v \in Sessions}

SessionStep(s) ==
  \/ Identify(s) \/ (\E rightKey \in BOOLEAN : Join(s, rightKey)) \/ Part(s) \/ Close(s)
  \/ Post(s) \/ NoticeByResource(s) \/ Topic(s) \/ Register(s) \/ Unregister(s)
  \/ \E f \in Switched : Mode(s, f)
  \/ \E h \in Targets : Op(s, h) \/ Voice(s, h) \/ Deop(s, h) \/ Devoice(s, h)
  \/ \E h \in Targets \ {Nil} : InviteAdd(s, h)
  \/ \E h \in Identities : BanAdd(s, h) \/ BanDel(s, h) \/ InviteDel(s, h)
  \/ \E victim \in Sessions : Kick(s, victim)

Next == (\E s \in Sessions : SessionStep(s)) \/ Prune \/ Flush \/ Tick

Spec == Init /\ [][Next]_vars

-----------------------------------------------------------------------------
\* Properties

\* Types; a room without members is in the table only when it is registered,
\* and no list of a room outgrows max_room_acl_entries (config.go), although
\* /register adds the founder without asking whether there is a place left:
\* nobody can take the founder's place first.
TypeOK ==
  /\ room \in Room \cup {Nil} /\ members \subseteq Sessions /\ known \subseteq Sessions
  /\ dirty \in BOOLEAN /\ heard \in Sessions \cup {Nil}
  /\ pass \in [Identities -> 0 .. InviteTTL]
  /\ members = {} => room = Nil \/ room.registered
  /\ MaxRoomAcl # 0 /\ room # Nil =>
       \A list \in {room.ops, room.voiced, room.bans} : Cardinality(list) <= MaxRoomAcl

\* A room with a founder keeps them among its operators, through every /deop,
\* /mode and /register, so what is written to rooms.toml always has somebody
\* who can command the room.
FounderKeepsCommand ==
  room # Nil => room.founder = Nil \/ room.founder \in room.ops

\* hub.go, markRegistryDirtyLocked: whatever step changes what rooms.toml
\* should hold leaves the registry marked for the next flush.  Time does not
\* count: a load drops the invites that have run out.
Persisted == IF room = Nil \/ ~room.registered THEN Nil
             ELSE [Pruned(room) EXCEPT !.left = [i \in Identities |-> 0]]
ChangesAreMarked == [][Persisted' # Persisted => dirty' \/ Tick]_vars

\* Into an invite-only room comes, besides operators, only the holder of an
\* invitation to this room that is in time, has not been taken back and has
\* not been used.
EntersByRight ==
  [][\A s \in members' \ members :
       room # Nil /\ "i" \in room.modes /\ ~IsOp(s) => Ident(s) # Nil /\ pass[Ident(s)] > 0]_vars

\* A text that comes as a resource transfer gets past no gate that would have
\* stopped it inline: what the room hears is from somebody who may post.
NoBackDoor == [][heard' # Nil => MayPost(heard')]_vars
=============================================================================
