--------------------------- MODULE RoomAcl_proofs ---------------------------
(***************************************************************************)
(* Theorems about RoomAcl, for every choice of its constants.              *)
(***************************************************************************)
EXTENDS RoomAcl, FiniteSetTheorems, TLAPS

-----------------------------------------------------------------------------
\* Places on a list

\* A list within the limit.
Within(list) == MaxRoomAcl # 0 => IsFiniteSet(list) /\ Cardinality(list) <= MaxRoomAcl

\* Whoever has a place may be added.
LEMMA PlaceIsEnough ==
  ASSUME NEW list, NEW h, IsFiniteSet(list), Within(list), HasPlace(list, h)
  PROVE  Within(list \cup {h})
<1>1. CASE h \in list
  <2>1. list \cup {h} = list
    BY <1>1
  <2> QED BY <2>1
<1>2. CASE h \notin list
  <2>1. IsFiniteSet(list \cup {h}) /\ Cardinality(list \cup {h}) = Cardinality(list) + 1
    BY <1>2, FS_AddElement
  <2>2. Cardinality(list) \in Nat
    BY FS_CardinalityType
  <2> QED BY <1>2, <2>1, <2>2, RoomAclAssumption DEF Within, HasPlace
<1> QED BY <1>1, <1>2

\* Taking somebody off keeps a list within the limit.
LEMMA FewerIsWithin ==
  ASSUME NEW list, NEW sub, sub \subseteq list, Within(list)
  PROVE  Within(sub)
<1> SUFFICES ASSUME MaxRoomAcl # 0 PROVE IsFiniteSet(sub) /\ Cardinality(sub) <= MaxRoomAcl
  BY DEF Within
<1>1. IsFiniteSet(list) /\ Cardinality(list) <= MaxRoomAcl
  BY DEF Within
<1>2. IsFiniteSet(sub) /\ Cardinality(sub) <= Cardinality(list)
  BY <1>1, FS_Subset
<1>3. Cardinality(sub) \in Nat /\ Cardinality(list) \in Nat
  BY <1>1, <1>2, FS_CardinalityType
<1> QED BY <1>1, <1>2, <1>3, RoomAclAssumption

\* Lists are made of hashes, so they are finite.
LEMMA ListsAreFinite ==
  ASSUME NEW list \in SUBSET Hashes
  PROVE  IsFiniteSet(list)
<1>1. IsFiniteSet(Hashes)
  BY RoomAclAssumption, FS_AddElement DEF Hashes
<1> QED BY <1>1, FS_Subset

-----------------------------------------------------------------------------
\* The invariant

\* A room is sound when its fields have their types, its lists are within the
\* limit and its founder is an operator; /register can then add the founder
\* without asking for a place.
Sound(r) ==
  /\ r \in Room
  /\ Within(r.ops) /\ Within(r.voiced) /\ Within(r.bans)
  /\ r.founder = Nil \/ r.founder \in r.ops

RoomInv ==
  /\ room # Nil => Sound(room)
  /\ members \subseteq Sessions /\ known \subseteq Sessions
  /\ dirty \in BOOLEAN /\ heard \in Sessions \cup {Nil}
  /\ pass \in [Identities -> 0 .. InviteTTL]
  /\ members = {} => room = Nil \/ room.registered
  /\ room = Nil => members = {}

\* An invitation's time is used up at the least and fresh at the most.
LEMMA TimesFit == 0 \in 0 .. InviteTTL /\ InviteTTL \in 0 .. InviteTTL
  BY RoomAclAssumption

LEMMA IdentType ==
  ASSUME NEW s \in Sessions
  PROVE  Ident(s) \in Hashes
  BY RoomAclAssumption DEF Ident, Hashes

\* A new room is sound: its founder, if any, takes the first place.
LEMMA NewRoomIsSound ==
  ASSUME NEW h \in Hashes
  PROVE  Sound(NewRoom(h)) /\ NewRoom(h).registered = FALSE /\ NewRoom(h).invited = {}
<1> DEFINE r == NewRoom(h)
<1>1. r \in Room
  BY RoomAclAssumption DEF NewRoom, Room, Hashes
<1>2. Within({})
  BY FS_EmptySet, RoomAclAssumption DEF Within
<1>3. Within({h})
  <2>1. IsFiniteSet({h}) /\ Cardinality({h}) = 1
    BY FS_Singleton
  <2>2. MaxRoomAcl # 0 => 1 <= MaxRoomAcl
    BY RoomAclAssumption
  <2> QED BY <2>1, <2>2 DEF Within
<1>4. {h} \ {Nil} = {} \/ {h} \ {Nil} = {h}
  OBVIOUS
<1>5. Within({h} \ {Nil})
  BY <1>2, <1>3, <1>4
<1>6. /\ r.ops = {h} \ {Nil} /\ r.voiced = {} /\ r.bans = {} /\ r.founder = h
      /\ r.registered = FALSE /\ r.invited = {}
  BY DEF NewRoom
<1>7. r.founder = Nil \/ r.founder \in r.ops
  BY <1>6
<1> QED BY <1>1, <1>2, <1>5, <1>6, <1>7 DEF Sound

\* Pruning the invites, or changing anything that is no list, keeps a room sound.
LEMMA PrunedIsSound ==
  ASSUME NEW r, Sound(r)
  PROVE  /\ Sound(Pruned(r)) /\ Pruned(r).registered = r.registered
         /\ Pruned(r).invited \subseteq r.invited
  BY DEF Sound, Pruned, Room

LEMMA PassesType ==
  ASSUME pass \in [Identities -> 0 .. InviteTTL], NEW r
  PROVE  PassesOf(r) \in [Identities -> 0 .. InviteTTL]
  BY RoomAclAssumption DEF PassesOf, NoPass

\* Putting members out leaves a sound room, or none.
LEMMA ExpelKeepsSound ==
  ASSUME NEW r, Sound(r), NEW ss, members \subseteq Sessions, Expel(r, ss)
  PROVE  /\ room' # Nil => Sound(room') /\ room' = r
         /\ members' \subseteq Sessions
         /\ members' = {} => room' = Nil \/ room'.registered
         /\ room' = Nil => members' = {}
<1>1. members' = members \ ss
  BY DEF Expel
<1>2. CASE members \subseteq ss /\ ~r.registered
  BY <1>1, <1>2 DEF Expel
<1>3. CASE ~(members \subseteq ss /\ ~r.registered)
  <2>1. room' = r /\ r # Nil
    BY <1>3, NilAssumption DEF Expel, Sound
  <2> QED BY <1>1, <1>3, <2>1
<1> QED BY <1>2, <1>3

-----------------------------------------------------------------------------
\* A command that amends a sound room to a sound one keeps the invariant.
LEMMA AmendKeepsInv ==
  ASSUME RoomInv, NEW r, Sound(r), Amend(r), room # Nil, r.registered = room.registered,
         members' = members, known' \subseteq Sessions, heard' \in Sessions \cup {Nil},
         pass' \in [Identities -> 0 .. InviteTTL]
  PROVE  RoomInv'
<1>1. room' = r /\ r # Nil /\ dirty' \in BOOLEAN
  BY NilAssumption DEF Amend, RoomInv, Sound, Room
<1> QED BY <1>1 DEF RoomInv, Sound, Within

\* So does a step that puts members out of a sound room.
LEMMA ExpelKeepsInv ==
  ASSUME RoomInv, NEW r, Sound(r), NEW ss, Expel(r, ss),
         known' \subseteq Sessions, heard' \in Sessions \cup {Nil}, dirty' \in BOOLEAN,
         pass' = PassesOf(room')
  PROVE  RoomInv'
<1>1. /\ room' # Nil => Sound(room')
      /\ members' \subseteq Sessions
      /\ members' = {} => room' = Nil \/ room'.registered
      /\ room' = Nil => members' = {}
  BY ExpelKeepsSound DEF RoomInv
<1>2. pass' \in [Identities -> 0 .. InviteTTL]
  BY PassesType DEF RoomInv
<1> QED BY <1>1, <1>2 DEF RoomInv, Sound, Within

\* What a JOIN does to a sound room, or makes of none.
LEMMA JoinKeepsInv ==
  ASSUME RoomInv, NEW s \in Sessions, NEW rightKey \in BOOLEAN, Join(s, rightKey)
  PROVE  RoomInv'
<1> DEFINE r == IF room = Nil THEN NewRoom(Ident(s)) ELSE Pruned(room)
<1>1. Sound(r) /\ (room # Nil => r.registered = room.registered)
  BY IdentType, NewRoomIsSound, PrunedIsSound DEF RoomInv
<1>2. room = Nil => r.bans = {}
  BY DEF NewRoom
<1>3. CASE /\ Ident(s) \in r.bans
              \/ (~(Ident(s) \in r.invited \/ room = Nil \/ IsOp(s))
                    /\ ("i" \in r.modes \/ ("k" \in r.modes /\ ~rightKey)))
           /\ room' = r /\ UNCHANGED <<members, dirty, pass>>
  <2>1. room # Nil /\ r # Nil
    BY <1>1, <1>2, <1>3, NilAssumption DEF Sound
  <2>2. known' = known /\ heard' = Nil
    BY DEF Join
  <2> QED BY <1>1, <1>3, <2>1, <2>2 DEF RoomInv, Sound, Within
<1>4. CASE /\ members' = members \cup {s}
           /\ room' = [r EXCEPT !.invited = @ \ {Ident(s)}]
           /\ dirty' = (dirty \/ (Ident(s) \in r.invited /\ r.registered))
           /\ pass' = [i \in Identities |-> IF i = Ident(s) THEN 0 ELSE pass[i]]
  <2>1. Sound(room') /\ room' # Nil
    BY <1>1, <1>4, NilAssumption DEF Sound, Room
  <2>2. known' = known /\ heard' = Nil
    BY DEF Join
  <2>3. pass' \in [Identities -> 0 .. InviteTTL]
    BY <1>4, RoomAclAssumption DEF RoomInv
  <2>4. dirty' \in BOOLEAN /\ members' \subseteq Sessions /\ members' # {}
    BY <1>4 DEF RoomInv
  <2> QED BY <2>1, <2>2, <2>3, <2>4 DEF RoomInv, Sound, Within
<1> QED BY <1>3, <1>4 DEF Join

\* Every step keeps the invariant: a list grows only by somebody who has a
\* place, and nobody takes the founder off.
LEMMA StepKeepsInv ==
  ASSUME RoomInv, Next
  PROVE  RoomInv'
<1>0. room # Nil => Sound(room) /\ room \in Room
  BY DEF RoomInv, Sound
<1>1. ASSUME NEW s \in Sessions, Identify(s) PROVE RoomInv'
  BY <1>1 DEF Identify, RoomInv, Sound, Within
<1>2. ASSUME NEW s \in Sessions, Part(s) PROVE RoomInv'
  <2>1. room # Nil
    BY <1>2 DEF Part, RoomInv
  <2> QED BY <1>0, <1>2, <2>1, ExpelKeepsInv DEF Part, RoomInv
<1>3. ASSUME NEW s \in Sessions, Close(s) PROVE RoomInv'
  <2>1. CASE s \in members
    <3>1. room # Nil
      BY <2>1 DEF RoomInv
    <3> QED BY <1>0, <1>3, <2>1, <3>1, ExpelKeepsInv DEF Close, RoomInv
  <2>2. CASE s \notin members
    <3>1. pass' \in [Identities -> 0 .. InviteTTL]
      BY <1>3, PassesType DEF Close, RoomInv
    <3> QED BY <1>3, <2>2, <3>1 DEF Close, RoomInv, Sound, Within
  <2> QED BY <2>1, <2>2
<1>4. ASSUME NEW s \in Sessions, NEW rightKey \in BOOLEAN, Join(s, rightKey) PROVE RoomInv'
  BY <1>4, JoinKeepsInv
<1>5. ASSUME NEW s \in Sessions, Post(s) \/ NoticeByResource(s) PROVE RoomInv'
  BY <1>5 DEF Post, NoticeByResource, RoomInv, Sound, Within
<1>6. ASSUME NEW s \in Sessions, Topic(s) PROVE RoomInv'
  <2>1. PICK t \in BOOLEAN : Amend([room EXCEPT !.topic = t])
    BY <1>6 DEF Topic
  <2>2. room # Nil /\ Sound([room EXCEPT !.topic = t])
    BY <1>0, <1>6 DEF Topic, Sound, Room
  <2>3. [room EXCEPT !.topic = t].registered = room.registered
    BY <1>0, <2>2 DEF Room
  <2> QED BY <1>6, <2>1, <2>2, <2>3, AmendKeepsInv DEF Topic, RoomInv
<1>7. ASSUME NEW s \in Sessions, Register(s) PROVE RoomInv'
  <2> DEFINE r == [room EXCEPT !.registered = TRUE, !.modes = @ \cup {"n", "t"},
                               !.ops = @ \cup {room.founder}]
  <2>1. room # Nil /\ room.founder \in room.ops
    BY <1>0, <1>7 DEF Register, Founding, Sound
  <2>2. room.ops \cup {room.founder} = room.ops
    BY <2>1
  <2>3. r \in Room /\ r.ops = room.ops /\ r.voiced = room.voiced /\ r.bans = room.bans
        /\ r.founder = room.founder /\ r.registered = TRUE
    BY <1>0, <2>1, <2>2 DEF Room, Flags
  <2>4. Sound(r) /\ r # Nil
    BY <1>0, <2>1, <2>3, NilAssumption DEF Sound
  <2>5. room' = r /\ dirty' \in BOOLEAN
    BY <1>7, <2>3 DEF Register, Amend, RoomInv
  <2>6. UNCHANGED <<members, known, pass>> /\ heard' = Nil
    BY <1>7 DEF Register, Founding
  <2> HIDE DEF r
  <2> QED BY <2>3, <2>4, <2>5, <2>6 DEF RoomInv, Sound, Within
<1>8. ASSUME NEW s \in Sessions, Unregister(s) PROVE RoomInv'
  <2> DEFINE r == [room EXCEPT !.registered = FALSE]
  <2>1. room # Nil /\ members # {}
    BY <1>8 DEF Unregister, Founding
  <2>2. Sound(r) /\ r # Nil
    BY <1>0, <2>1, NilAssumption DEF Sound, Room
  <2> QED BY <1>8, <2>1, <2>2 DEF Unregister, Founding, RoomInv, Sound, Within
<1>9. ASSUME NEW s \in Sessions, NEW f \in Switched, Mode(s, f) PROVE RoomInv'
  <2>1. PICK set \in {{}, {f}} : Amend([room EXCEPT !.modes = (@ \ {f}) \cup set])
    BY <1>9 DEF Mode
  <2> DEFINE r == [room EXCEPT !.modes = (@ \ {f}) \cup set]
  <2>2. room # Nil /\ Sound(r) /\ r.registered = room.registered
    BY <1>0, <1>9, RoomAclAssumption DEF Mode, Command, Sound, Room
  <2> QED BY <1>9, <2>1, <2>2, AmendKeepsInv DEF Mode, Command, RoomInv
<1>10. ASSUME NEW s \in Sessions, NEW h \in Targets, Op(s, h) PROVE RoomInv'
  <2> DEFINE r == [room EXCEPT !.ops = @ \cup {h}]
  <2>1. room # Nil /\ h \in Hashes
    BY <1>10, IdentType DEF Op, Command, Targets
  <2>2. Within(room.ops \cup {h})
    BY <1>0, <1>10, <2>1, PlaceIsEnough, ListsAreFinite DEF Op, Sound, Room
  <2>3. r \in Room /\ r.ops = room.ops \cup {h} /\ r.voiced = room.voiced
        /\ r.bans = room.bans /\ r.founder = room.founder /\ r.registered = room.registered
    BY <1>0, <2>1 DEF Room
  <2>4. Sound(r)
    BY <1>0, <2>1, <2>2, <2>3 DEF Sound
  <2> QED BY <1>10, <2>1, <2>3, <2>4, AmendKeepsInv DEF Op, Command, RoomInv
<1>11. ASSUME NEW s \in Sessions, NEW h \in Targets, Voice(s, h) PROVE RoomInv'
  <2> DEFINE r == [room EXCEPT !.voiced = @ \cup {h}]
  <2>1. room # Nil /\ h \in Hashes
    BY <1>11, IdentType DEF Voice, Command, Targets
  <2>2. Within(room.voiced \cup {h})
    BY <1>0, <1>11, <2>1, PlaceIsEnough, ListsAreFinite DEF Voice, Sound, Room
  <2>3. r \in Room /\ r.ops = room.ops /\ r.voiced = room.voiced \cup {h}
        /\ r.bans = room.bans /\ r.founder = room.founder /\ r.registered = room.registered
    BY <1>0, <2>1 DEF Room
  <2>4. Sound(r)
    BY <1>0, <2>1, <2>2, <2>3 DEF Sound
  <2> QED BY <1>11, <2>1, <2>3, <2>4, AmendKeepsInv DEF Voice, Command, RoomInv
<1>12. ASSUME NEW s \in Sessions, NEW h \in Targets, Deop(s, h) PROVE RoomInv'
  <2> DEFINE r == [room EXCEPT !.ops = @ \ {h}]
  <2>1. room # Nil /\ h # room.founder
    BY <1>12 DEF Deop, Command
  <2>2. Within(room.ops \ {h})
    BY <1>0, <2>1, FewerIsWithin DEF Sound
  <2>3. r \in Room /\ r.ops = room.ops \ {h} /\ r.voiced = room.voiced
        /\ r.bans = room.bans /\ r.founder = room.founder /\ r.registered = room.registered
    BY <1>0, <2>1 DEF Room
  <2>4. Sound(r)
    BY <1>0, <2>1, <2>2, <2>3 DEF Sound
  <2> QED BY <1>12, <2>1, <2>3, <2>4, AmendKeepsInv DEF Deop, Command, RoomInv
<1>13. ASSUME NEW s \in Sessions, NEW h \in Targets, Devoice(s, h) PROVE RoomInv'
  <2> DEFINE r == [room EXCEPT !.voiced = @ \ {h}]
  <2>1. room # Nil
    BY <1>13 DEF Devoice, Command
  <2>2. Within(room.voiced \ {h})
    BY <1>0, <2>1, FewerIsWithin DEF Sound
  <2>3. r \in Room /\ r.ops = room.ops /\ r.voiced = room.voiced \ {h}
        /\ r.bans = room.bans /\ r.founder = room.founder /\ r.registered = room.registered
    BY <1>0, <2>1 DEF Room
  <2>4. Sound(r)
    BY <1>0, <2>1, <2>2, <2>3 DEF Sound
  <2> QED BY <1>13, <2>1, <2>3, <2>4, AmendKeepsInv DEF Devoice, Command, RoomInv
<1>14. ASSUME NEW s \in Sessions, NEW h \in Identities, BanAdd(s, h) PROVE RoomInv'
  <2> DEFINE r == [room EXCEPT !.bans = @ \cup {h}]
  <2>1. room # Nil /\ h \in Hashes
    BY <1>14 DEF BanAdd, Command, Hashes
  <2>2. Within(room.bans \cup {h})
    <3>1. room.bans \in SUBSET Hashes
      BY <1>0, <2>1 DEF Room, Hashes
    <3> QED BY <1>0, <1>14, <2>1, <3>1, PlaceIsEnough, ListsAreFinite DEF BanAdd, Sound
  <2>3. r \in Room /\ r.ops = room.ops /\ r.voiced = room.voiced
        /\ r.bans = room.bans \cup {h} /\ r.founder = room.founder
        /\ r.registered = room.registered
    BY <1>0, <2>1 DEF Room
  <2>4. Sound(r)
    BY <1>0, <2>1, <2>2, <2>3 DEF Sound
  <2>5. Expel(r, {m \in members : Ident(m) = h}) /\ dirty' = (dirty \/ r.registered)
        /\ pass' = PassesOf(room') /\ known' = known /\ heard' = Nil
    BY <1>14 DEF BanAdd, Command
  <2>6. dirty' \in BOOLEAN
    BY <2>3, <2>5 DEF RoomInv, Room
  <2>7. known' \subseteq Sessions /\ heard' \in Sessions \cup {Nil}
    BY <2>5 DEF RoomInv
  <2> HIDE DEF r
  <2> QED BY <2>4, <2>5, <2>6, <2>7, ExpelKeepsInv
<1>15. ASSUME NEW s \in Sessions, NEW h \in Identities, BanDel(s, h) PROVE RoomInv'
  <2> DEFINE r == [room EXCEPT !.bans = @ \ {h}]
  <2>1. room # Nil
    BY <1>15 DEF BanDel, Command
  <2>2. Within(room.bans \ {h})
    BY <1>0, <2>1, FewerIsWithin DEF Sound
  <2>3. r \in Room /\ r.ops = room.ops /\ r.voiced = room.voiced
        /\ r.bans = room.bans \ {h} /\ r.founder = room.founder
        /\ r.registered = room.registered
    BY <1>0, <2>1 DEF Room
  <2>4. Sound(r)
    BY <1>0, <2>1, <2>2, <2>3 DEF Sound
  <2> QED BY <1>15, <2>1, <2>3, <2>4, AmendKeepsInv DEF BanDel, Command, RoomInv
<1>16. ASSUME NEW s \in Sessions, NEW h \in Targets \ {Nil}, InviteAdd(s, h) PROVE RoomInv'
  <2> DEFINE p == Pruned(room)
             r == [p EXCEPT !.invited = @ \cup {h}, !.left[h] = InviteTTL]
  <2>1. room # Nil /\ h \in Identities
    BY <1>16, IdentType DEF InviteAdd, Command, Targets, Hashes
  <2>2. Sound(p) /\ p # Nil /\ p.registered = room.registered
    BY <1>0, <2>1, PrunedIsSound, NilAssumption DEF Sound
  <2>3. Sound(r) /\ r.registered = p.registered
    <3>1. r \in Room /\ r.ops = p.ops /\ r.voiced = p.voiced /\ r.bans = p.bans
          /\ r.founder = p.founder /\ r.registered = p.registered
      <4>1. p \in Room
        BY <2>2 DEF Sound
      <4> HIDE DEF p
      <4>2. [p.left EXCEPT ![h] = InviteTTL] \in [Identities -> 0 .. InviteTTL]
        BY <4>1, TimesFit DEF Room
      <4>3. r = [p EXCEPT !.invited = p.invited \cup {h},
                          !.left = [p.left EXCEPT ![h] = InviteTTL]]
        BY <4>1 DEF Room
      <4> HIDE DEF r
      <4> QED BY <2>1, <4>1, <4>2, <4>3 DEF Room
    <3> HIDE DEF p, r
    <3> QED BY <2>2, <3>1 DEF Sound
  <2>4. members' = members /\ known' = known /\ heard' = Nil
    BY <1>16 DEF InviteAdd, Command
  <2>5. CASE room' = p /\ UNCHANGED <<dirty, pass>>
    <3> HIDE DEF p, r
    <3> QED BY <2>1, <2>2, <2>4, <2>5 DEF RoomInv, Sound, Within
  <2>6. CASE Amend(r) /\ pass' = [pass EXCEPT ![h] = InviteTTL]
    <3>1. pass' \in [Identities -> 0 .. InviteTTL]
      BY <2>6, TimesFit DEF RoomInv
    <3> HIDE DEF p, r
    <3> QED BY <2>1, <2>2, <2>3, <2>4, <2>6, <3>1, AmendKeepsInv DEF RoomInv
  <2> QED BY <1>16, <2>5, <2>6 DEF InviteAdd
<1>17. ASSUME NEW s \in Sessions, NEW h \in Identities, InviteDel(s, h) PROVE RoomInv'
  <2> DEFINE p == Pruned(room)
             r == [p EXCEPT !.invited = @ \ {h}]
  <2>1. room # Nil
    BY <1>17 DEF InviteDel, Command
  <2>2. Sound(p) /\ p.registered = room.registered
    BY <1>0, <2>1, PrunedIsSound
  <2>3. Sound(r) /\ r.registered = p.registered
    <3> HIDE DEF p
    <3> QED BY <2>2 DEF Sound, Room
  <2>4. pass' \in [Identities -> 0 .. InviteTTL]
    BY <1>17, RoomAclAssumption DEF InviteDel, RoomInv
  <2>5. Amend(r) /\ members' = members /\ known' = known /\ heard' = Nil
    BY <1>17 DEF InviteDel, Command
  <2> HIDE DEF p, r
  <2> QED BY <2>1, <2>2, <2>3, <2>4, <2>5, AmendKeepsInv DEF RoomInv
<1>18. ASSUME NEW s \in Sessions, NEW victim \in Sessions, Kick(s, victim) PROVE RoomInv'
  BY <1>0, <1>18, ExpelKeepsInv DEF Kick, Command, RoomInv
<1>19. CASE Prune
  BY <1>19, RoomAclAssumption DEF Prune, NoPass, RoomInv
<1>20. CASE Flush
  BY <1>20 DEF Flush, RoomInv, Sound, Within
<1>21. CASE Tick
  <2>1. \A f \in [Identities -> 0 .. InviteTTL] : Less(f) \in [Identities -> 0 .. InviteTTL]
    BY RoomAclAssumption DEF Less
  <2> DEFINE r == [room EXCEPT !.left = Less(@)]
  <2>2. room # Nil
    BY <1>21 DEF Tick
  <2>3. Sound(r) /\ r # Nil /\ r.registered = room.registered
    <3>1. room.left \in [Identities -> 0 .. InviteTTL]
      BY <1>0, <2>2 DEF Room
    <3>2. r \in Room /\ r.ops = room.ops /\ r.voiced = room.voiced /\ r.bans = room.bans
          /\ r.founder = room.founder /\ r.registered = room.registered
      BY <1>0, <2>1, <2>2, <3>1 DEF Room
    <3> HIDE DEF r
    <3> QED BY <1>0, <2>2, <3>2, NilAssumption DEF Sound
  <2>4. pass' \in [Identities -> 0 .. InviteTTL]
    BY <1>21, <2>1 DEF Tick, RoomInv
  <2>5. room' = r /\ heard' = Nil /\ UNCHANGED <<members, known, dirty>>
    BY <1>21 DEF Tick
  <2> HIDE DEF r
  <2> QED BY <2>2, <2>3, <2>4, <2>5 DEF RoomInv, Sound, Within
<1> QED
  BY <1>1, <1>2, <1>3, <1>4, <1>5, <1>6, <1>7, <1>8, <1>9, <1>10, <1>11, <1>12, <1>13,
     <1>14, <1>15, <1>16, <1>17, <1>18, <1>19, <1>20, <1>21 DEF Next, SessionStep

LEMMA RoomInvHolds == Spec => []RoomInv
<1>1. Init => RoomInv
  BY TimesFit DEF Init, NoPass, RoomInv
<1>2. RoomInv /\ [Next]_vars => RoomInv'
  BY StepKeepsInv DEF vars, RoomInv, Sound, Within
<1> QED BY <1>1, <1>2, PTL DEF Spec

-----------------------------------------------------------------------------
\* No list of a room outgrows max_room_acl_entries, and every variable keeps
\* its type, for every limit and every number of peers.
THEOREM TypeCorrect == Spec => []TypeOK
<1>1. RoomInv => TypeOK
  BY DEF RoomInv, TypeOK, Sound, Within
<1> QED BY <1>1, RoomInvHolds, PTL

\* A room's founder stays among its operators through every /op, /deop, /mode
\* and /register.
THEOREM FounderKept == Spec => []FounderKeepsCommand
<1>1. RoomInv => FounderKeepsCommand
  BY DEF RoomInv, FounderKeepsCommand, Sound
<1> QED BY <1>1, RoomInvHolds, PTL
-----------------------------------------------------------------------------
\* What a save would write

LEMMA AmendIsMarked ==
  ASSUME room # Nil, NEW r, r.registered \in BOOLEAN, r.registered = room.registered, Amend(r)
  PROVE  Persisted' = Persisted \/ dirty'
  BY DEF Amend, Persisted

LEMMA ExpelIsNotSaved ==
  ASSUME room # Nil, room.registered \in BOOLEAN, NEW ss, Expel(room, ss)
  PROVE  Persisted' = Persisted
  BY DEF Expel, Persisted, Pruned

\* Invites that have run out are not saved, so pruning them changes nothing.
LEMMA PrunedIsNotSaved ==
  ASSUME room \in Room, room # Nil, room' = Pruned(room)
  PROVE  Persisted' = Persisted
<1> DEFINE q == Pruned(room)
<1>1. q \in Room /\ q # Nil /\ q.registered = room.registered /\ q.left = room.left
      /\ q.invited = {i \in room.invited : room.left[i] > 0}
  BY NilAssumption DEF Pruned, Room
<1>2. Pruned(q) = q
  <2>1. {i \in q.invited : q.left[i] > 0} = q.invited
    BY <1>1
  <2> HIDE DEF q
  <2> QED BY <1>1, <2>1 DEF Pruned, Room
<1>3. Pruned(room') = q /\ room' = q
  BY <1>2
<1>4. Pruned(room) = q
  OBVIOUS
<1> HIDE DEF q
<1>5. Persisted = IF ~q.registered THEN Nil
                  ELSE [q EXCEPT !.left = [i \in Identities |-> 0]]
  BY <1>1, <1>4 DEF Persisted
<1>6. Persisted' = IF ~q.registered THEN Nil
                   ELSE [q EXCEPT !.left = [i \in Identities |-> 0]]
  BY <1>1, <1>3 DEF Persisted
<1> QED BY <1>5, <1>6

\* Whoever comes in uses up their invitation, which is a change, and otherwise
\* changes nothing that is saved.
LEMMA JoinIsMarked ==
  ASSUME RoomInv, NEW s \in Sessions, NEW rightKey \in BOOLEAN, Join(s, rightKey)
  PROVE  Persisted' = Persisted \/ dirty'
<1> DEFINE r == IF room = Nil THEN NewRoom(Ident(s)) ELSE Pruned(room)
<1>1. Sound(r) /\ r # Nil /\ (room = Nil => r.registered = FALSE /\ r.bans = {})
  <2>1. room = Nil => NewRoom(Ident(s)).bans = {}
    BY DEF NewRoom
  <2>2. Sound(r) /\ (room = Nil => r.registered = FALSE)
    BY IdentType, NewRoomIsSound, PrunedIsSound DEF RoomInv
  <2>3. r # Nil
    <3> HIDE DEF r
    <3> QED BY <2>2, NilAssumption DEF Sound
  <2> QED BY <2>1, <2>2, <2>3
<1>2. CASE room' = r /\ room # Nil
  BY <1>2, PrunedIsNotSaved DEF RoomInv, Sound
<1>3. CASE room' = [r EXCEPT !.invited = @ \ {Ident(s)}]
           /\ dirty' = (dirty \/ (Ident(s) \in r.invited /\ r.registered))
  <2>0. r \in Room
    BY <1>1 DEF Sound
  <2>1. CASE ~r.registered
    <3>1. ~room'.registered
      BY <1>3, <2>0, <2>1 DEF Room
    <3>2. room = Nil \/ ~room.registered
      BY <2>1, PrunedIsSound DEF RoomInv
    <3> QED BY <3>1, <3>2 DEF Persisted
  <2>2. CASE Ident(s) \notin r.invited /\ r.registered
    <3>1. r.invited \ {Ident(s)} = r.invited
      BY <2>2
    <3>2. room' = r
      <4> HIDE DEF r
      <4> QED BY <1>3, <2>0, <3>1 DEF Room
    <3> QED BY <1>1, <1>2, <2>2, <3>2
  <2>3. CASE Ident(s) \in r.invited /\ r.registered
    BY <1>3, <2>3
  <2> QED BY <2>0, <2>1, <2>2, <2>3 DEF Room
<1> QED BY <1>1, <1>2, <1>3 DEF Join

\* Whatever step changes what rooms.toml should hold leaves the registry
\* marked for the next flush.
THEOREM ChangesMarked == Spec => ChangesAreMarked
<1>1. ASSUME RoomInv, Next PROVE Persisted' # Persisted => dirty' \/ Tick
  <2>0. room # Nil => Sound(room) /\ room \in Room /\ room.registered \in BOOLEAN
    BY <1>1 DEF RoomInv, Sound, Room
  <2>1. CASE room' = room
    BY <2>1 DEF Persisted
  <2>2. ASSUME NEW s \in Sessions, NEW rightKey \in BOOLEAN, Join(s, rightKey)
        PROVE  Persisted' = Persisted \/ dirty'
    BY <1>1, <2>2, JoinIsMarked
  <2>3. ASSUME NEW s \in Sessions, Part(s) \/ Close(s) PROVE Persisted' = Persisted
    <3>1. CASE s \in members /\ Expel(room, {s})
      BY <1>1, <2>0, <3>1, ExpelIsNotSaved DEF RoomInv
    <3>2. CASE room' = room
      BY <3>2 DEF Persisted
    <3> QED BY <2>3, <3>1, <3>2 DEF Part, Close
  <2>4. ASSUME NEW s \in Sessions, NEW victim \in Sessions, Kick(s, victim)
        PROVE  Persisted' = Persisted
    BY <2>0, <2>4, ExpelIsNotSaved DEF Kick, Command
  <2>5. ASSUME NEW s \in Sessions, Topic(s) PROVE Persisted' = Persisted \/ dirty'
    <3>1. PICK x \in BOOLEAN : Amend([room EXCEPT !.topic = x])
      BY <2>5 DEF Topic
    <3> DEFINE r == [room EXCEPT !.topic = x]
    <3>2. room # Nil /\ r.registered = room.registered
      BY <2>0, <2>5 DEF Topic, Room
    <3>3. Amend(r)
      BY <3>1
    <3> HIDE DEF r
    <3> QED BY <2>0, <3>2, <3>3, AmendIsMarked
  <2>6. ASSUME NEW s \in Sessions, Register(s) \/ Unregister(s) PROVE dirty'
    BY <2>0, <2>6 DEF Register, Unregister, Founding, Amend, Room
  <2>7. ASSUME NEW s \in Sessions, NEW f \in Switched, Mode(s, f)
        PROVE  Persisted' = Persisted \/ dirty'
    <3>1. PICK set \in {{}, {f}} : Amend([room EXCEPT !.modes = (@ \ {f}) \cup set])
      BY <2>7 DEF Mode
    <3> DEFINE r == [room EXCEPT !.modes = (@ \ {f}) \cup set]
    <3>2. room # Nil /\ r.registered = room.registered
      BY <2>0, <2>7 DEF Mode, Command, Room
    <3>3. Amend(r)
      BY <3>1
    <3> HIDE DEF r
    <3> QED BY <2>0, <3>2, <3>3, AmendIsMarked
  <2>8. ASSUME NEW s \in Sessions, NEW h,
               Op(s, h) \/ Deop(s, h) \/ Voice(s, h) \/ Devoice(s, h) \/ BanDel(s, h)
        PROVE  Persisted' = Persisted \/ dirty'
    <3>1. room # Nil
      BY <2>8 DEF Op, Deop, Voice, Devoice, BanDel, Command
    <3>2. PICK r : Amend(r) /\ r.registered = room.registered
      <4>1. /\ [room EXCEPT !.ops = @ \cup {h}].registered = room.registered
            /\ [room EXCEPT !.ops = @ \ {h}].registered = room.registered
            /\ [room EXCEPT !.voiced = @ \cup {h}].registered = room.registered
            /\ [room EXCEPT !.voiced = @ \ {h}].registered = room.registered
            /\ [room EXCEPT !.bans = @ \ {h}].registered = room.registered
        BY <2>0, <3>1 DEF Room
      <4> QED BY <2>8, <4>1 DEF Op, Deop, Voice, Devoice, BanDel
    <3> QED BY <2>0, <3>1, <3>2, AmendIsMarked
  <2>9. ASSUME NEW s \in Sessions, NEW h \in Identities, BanAdd(s, h)
        PROVE  Persisted' = Persisted \/ dirty'
    <3> DEFINE r == [room EXCEPT !.bans = @ \cup {h}]
    <3>1. room # Nil /\ r.registered = room.registered
      BY <2>0, <2>9 DEF BanAdd, Command, Room
    <3>2. dirty' = (dirty \/ r.registered) /\ (room' = Nil \/ room' = r)
      BY <2>9 DEF BanAdd, Expel
    <3> HIDE DEF r
    <3> QED BY <2>0, <3>1, <3>2 DEF Persisted
  <2>10. ASSUME NEW s \in Sessions, NEW h \in Identities, InviteAdd(s, h) \/ InviteDel(s, h)
         PROVE  Persisted' = Persisted \/ dirty'
    <3> DEFINE q == Pruned(room)
    <3>1. room # Nil
      BY <2>10 DEF InviteAdd, InviteDel, Command
    <3>2. q.registered = room.registered /\ q \in Room
      BY <2>0, <3>1, PrunedIsSound DEF Sound
    <3>3. CASE room' = q
      BY <2>0, <3>1, <3>3, PrunedIsNotSaved
    <3>4. CASE \E r : Amend(r) /\ r.registered = q.registered
      BY <2>0, <3>1, <3>2, <3>4, AmendIsMarked
    <3>5. /\ [q EXCEPT !.invited = @ \cup {h}, !.left[h] = InviteTTL].registered = q.registered
          /\ [q EXCEPT !.invited = @ \ {h}].registered = q.registered
      <4> HIDE DEF q
      <4> QED BY <3>2 DEF Room
    <3> QED BY <2>10, <3>3, <3>4, <3>5 DEF InviteAdd, InviteDel
  <2>11. ASSUME NEW s \in Sessions, Identify(s) \/ Post(s) \/ NoticeByResource(s)
         PROVE  room' = room
    BY <2>11 DEF Identify, Post, NoticeByResource
  <2>12. Prune => dirty'
    BY DEF Prune
  <2>13. Flush => room' = room
    BY DEF Flush
  <2>14. \A h \in Targets \ {Nil} : h \in Identities
    BY IdentType DEF Targets, Hashes
  <2> QED
    BY <1>1, <2>1, <2>2, <2>3, <2>4, <2>5, <2>6, <2>7, <2>8, <2>9, <2>10, <2>11, <2>12,
       <2>13, <2>14 DEF Next, SessionStep
<1>2. RoomInv /\ [Next]_vars => [Persisted' # Persisted => dirty' \/ Tick]_vars
  BY <1>1
<1> QED BY <1>2, RoomInvHolds, PTL DEF Spec, ChangesAreMarked
-----------------------------------------------------------------------------
\* Invitations

\* What the room remembers of an invitation is what its holder is still
\* entitled to: it was not used, not taken back, and is not of an older room.
InvitesInv == room # Nil => \A i \in room.invited : pass[i] = room.left[i]

\* A step that keeps invitations and passes keeps it.
LEMMA SameInvites ==
  ASSUME InvitesInv, room # Nil,
         room' # Nil => /\ room'.invited \subseteq room.invited /\ room'.left = room.left
                        /\ \A i \in room'.invited : pass'[i] = pass[i]
  PROVE  InvitesInv'
  BY DEF InvitesInv

LEMMA ExpelKeepsInvites ==
  ASSUME InvitesInv, room # Nil, NEW r, r.invited = room.invited, r.left = room.left,
         NEW ss, Expel(r, ss), pass' = PassesOf(room')
  PROVE  InvitesInv'
  BY SameInvites DEF Expel, PassesOf

LEMMA JoinKeepsInvites ==
  ASSUME RoomInv, InvitesInv, NEW s \in Sessions, NEW rightKey \in BOOLEAN, Join(s, rightKey)
  PROVE  InvitesInv'
<1> DEFINE r == IF room = Nil THEN NewRoom(Ident(s)) ELSE Pruned(room)
<1>1. Sound(r) /\ r.invited \subseteq Identities
      /\ (room = Nil => r.invited = {} /\ r.bans = {})
      /\ (room # Nil => r.invited \subseteq room.invited /\ r.left = room.left)
  <2>1. Sound(r)
    BY IdentType, NewRoomIsSound, PrunedIsSound DEF RoomInv
  <2>2. room = Nil => r.invited = {} /\ r.bans = {}
    BY DEF NewRoom
  <2>3. room # Nil => r.invited \subseteq room.invited /\ r.left = room.left
    BY DEF RoomInv, Sound, Pruned, Room
  <2>4. r.invited \subseteq Identities
    BY <2>1 DEF Sound, Room
  <2> QED BY <2>1, <2>2, <2>3, <2>4
<1>2. CASE room' = r /\ pass' = pass /\ room # Nil
  BY <1>1, <1>2, SameInvites
<1>3. CASE room' = [r EXCEPT !.invited = @ \ {Ident(s)}]
           /\ pass' = [i \in Identities |-> IF i = Ident(s) THEN 0 ELSE pass[i]]
  <2>1. room'.invited = r.invited \ {Ident(s)} /\ room'.left = r.left
    BY <1>1, <1>3 DEF Sound, Room
  <2>2. \A i \in room'.invited : pass'[i] = pass[i]
    BY <1>1, <1>3, <2>1
  <2>3. CASE room = Nil
    BY <1>1, <2>1, <2>3 DEF InvitesInv
  <2>4. CASE room # Nil
    BY <1>1, <2>1, <2>2, <2>4, SameInvites
  <2> QED BY <2>3, <2>4
<1> QED BY <1>1, <1>2, <1>3 DEF Join

\* A command that does not touch invitations leaves them as they are.
LEMMA CommandsKeepInvites ==
  ASSUME RoomInv, InvitesInv, room # Nil, NEW r, Amend(r), pass' = pass,
         r.invited = room.invited, r.left = room.left
  PROVE  InvitesInv'
  BY SameInvites DEF Amend

LEMMA StepKeepsInvites ==
  ASSUME RoomInv, InvitesInv, Next
  PROVE  InvitesInv'
<1>0. room # Nil => room \in Room /\ room.invited \subseteq Identities
                    /\ room.left \in [Identities -> 0 .. InviteTTL]
  BY DEF RoomInv, Sound, Room
<1>1. CASE UNCHANGED <<room, pass>>
  BY <1>1 DEF InvitesInv
<1>2. ASSUME NEW s \in Sessions, NEW rightKey \in BOOLEAN, Join(s, rightKey)
      PROVE  InvitesInv'
  BY <1>2, JoinKeepsInvites
<1>3. ASSUME NEW s \in Sessions, Part(s) PROVE InvitesInv'
  BY <1>3, ExpelKeepsInvites DEF Part, RoomInv
<1>4. ASSUME NEW s \in Sessions, Close(s) PROVE InvitesInv'
  <2>1. CASE s \in members /\ Expel(room, {s})
    BY <1>4, <2>1, ExpelKeepsInvites DEF Close, RoomInv
  <2>2. CASE room' = room
    BY <1>4, <2>2 DEF Close, InvitesInv, PassesOf
  <2> QED BY <1>4, <2>1, <2>2 DEF Close
<1>5. ASSUME NEW s \in Sessions, NEW victim \in Sessions, Kick(s, victim) PROVE InvitesInv'
  BY <1>5, ExpelKeepsInvites DEF Kick, Command
<1>6. ASSUME NEW s \in Sessions, NEW h \in Identities, BanAdd(s, h) PROVE InvitesInv'
  <2> DEFINE r == [room EXCEPT !.bans = @ \cup {h}]
  <2>1. room # Nil /\ r.invited = room.invited /\ r.left = room.left
    BY <1>0, <1>6 DEF BanAdd, Command, Room
  <2>2. Expel(r, {m \in members : Ident(m) = h}) /\ pass' = PassesOf(room')
    BY <1>6 DEF BanAdd
  <2> HIDE DEF r
  <2> QED BY <2>1, <2>2, ExpelKeepsInvites
<1>7. ASSUME NEW s \in Sessions, Topic(s) PROVE InvitesInv'
  <2>1. PICK x \in BOOLEAN : Amend([room EXCEPT !.topic = x])
    BY <1>7 DEF Topic
  <2>2. /\ [room EXCEPT !.topic = x].invited = room.invited
        /\ [room EXCEPT !.topic = x].left = room.left
    BY <1>0, <1>7 DEF Topic, Room
  <2> QED BY <1>7, <2>1, <2>2, CommandsKeepInvites DEF Topic
<1>8. ASSUME NEW s \in Sessions, Register(s) PROVE InvitesInv'
  <2> DEFINE r == [room EXCEPT !.registered = TRUE, !.modes = @ \cup {"n", "t"},
                               !.ops = @ \cup {room.founder}]
  <2>1. room # Nil /\ r.invited = room.invited /\ r.left = room.left
    BY <1>0, <1>8 DEF Register, Founding, Room
  <2>2. Amend(r) /\ pass' = pass
    BY <1>8 DEF Register
  <2> HIDE DEF r
  <2> QED BY <2>1, <2>2, CommandsKeepInvites
<1>9. ASSUME NEW s \in Sessions, Unregister(s) PROVE InvitesInv'
  BY <1>0, <1>9, SameInvites DEF Unregister, Founding, Room
<1>10. ASSUME NEW s \in Sessions, NEW f \in Switched, Mode(s, f) PROVE InvitesInv'
  <2>1. PICK set \in {{}, {f}} : Amend([room EXCEPT !.modes = (@ \ {f}) \cup set])
    BY <1>10 DEF Mode
  <2> DEFINE r == [room EXCEPT !.modes = (@ \ {f}) \cup set]
  <2>2. room # Nil /\ r.invited = room.invited /\ r.left = room.left
    BY <1>0, <1>10 DEF Mode, Command, Room
  <2> QED BY <1>10, <2>1, <2>2, CommandsKeepInvites DEF Mode
<1>11. ASSUME NEW s \in Sessions, NEW h,
              Op(s, h) \/ Deop(s, h) \/ Voice(s, h) \/ Devoice(s, h) \/ BanDel(s, h)
       PROVE  InvitesInv'
  <2>1. room # Nil /\ pass' = pass
    BY <1>11 DEF Op, Deop, Voice, Devoice, BanDel, Command
  <2>2. PICK r : Amend(r) /\ r.invited = room.invited /\ r.left = room.left
    <3> DEFINE Same(r) == r.invited = room.invited /\ r.left = room.left
    <3>1. /\ Same([room EXCEPT !.ops = @ \cup {h}]) /\ Same([room EXCEPT !.ops = @ \ {h}])
          /\ Same([room EXCEPT !.voiced = @ \cup {h}])
          /\ Same([room EXCEPT !.voiced = @ \ {h}])
          /\ Same([room EXCEPT !.bans = @ \ {h}])
      BY <1>0, <2>1 DEF Room
    <3> QED BY <1>11, <3>1 DEF Op, Deop, Voice, Devoice, BanDel
  <2> QED BY <2>1, <2>2, CommandsKeepInvites
<1>12. ASSUME NEW s \in Sessions, NEW h \in Targets \ {Nil}, InviteAdd(s, h) PROVE InvitesInv'
  <2> DEFINE q == Pruned(room)
             r == [q EXCEPT !.invited = @ \cup {h}, !.left[h] = InviteTTL]
  <2>1. room # Nil /\ h \in Identities
    BY <1>12, IdentType DEF InviteAdd, Command, Targets, Hashes
  <2>2. q \in Room /\ q.invited \subseteq room.invited /\ q.left = room.left
    BY <1>0, <2>1 DEF Pruned, Room
  <2>3. CASE room' = q /\ pass' = pass
    BY <2>1, <2>2, <2>3, SameInvites
  <2>4. CASE room' = r /\ pass' = [pass EXCEPT ![h] = InviteTTL]
    <3>1. /\ room'.invited = q.invited \cup {h}
          /\ room'.left = [q.left EXCEPT ![h] = InviteTTL]
      <4> HIDE DEF q
      <4> QED BY <2>2, <2>4 DEF Room
    <3>2. q.left \in [Identities -> 0 .. InviteTTL] /\ q.invited \subseteq Identities
      BY <1>0, <2>1, <2>2
    <3>3. \A i \in q.invited : pass[i] = q.left[i]
      BY <2>1, <2>2 DEF InvitesInv
    <3>4. pass \in [Identities -> 0 .. InviteTTL]
      BY DEF RoomInv
    <3> HIDE DEF q
    <3>5. \A i \in room'.invited : pass'[i] = room'.left[i]
      BY <2>1, <2>4, <3>1, <3>2, <3>3, <3>4
    <3> QED BY <3>5 DEF InvitesInv
  <2> QED BY <1>12, <2>3, <2>4 DEF InviteAdd, Amend
<1>13. ASSUME NEW s \in Sessions, NEW h \in Identities, InviteDel(s, h) PROVE InvitesInv'
  <2> DEFINE q == Pruned(room)
  <2>1. room # Nil
    BY <1>13 DEF InviteDel, Command
  <2>2. q \in Room /\ q.invited \subseteq room.invited /\ q.left = room.left
    BY <1>0, <2>1 DEF Pruned, Room
  <2>3. room' = [q EXCEPT !.invited = @ \ {h}] /\ pass' = [pass EXCEPT ![h] = 0]
    BY <1>13 DEF InviteDel, Amend
  <2>4. room'.invited = q.invited \ {h} /\ room'.left = q.left
    <3> HIDE DEF q
    <3> QED BY <2>2, <2>3 DEF Room
  <2>5. \A i \in room'.invited : i \in Identities /\ pass'[i] = pass[i]
    BY <1>0, <2>1, <2>2, <2>3, <2>4 DEF RoomInv
  <2> QED BY <2>1, <2>2, <2>4, <2>5, SameInvites
<1>14. ASSUME NEW s \in Sessions, Identify(s) \/ Post(s) \/ NoticeByResource(s)
       PROVE  InvitesInv'
  BY <1>1, <1>14 DEF Identify, Post, NoticeByResource
<1>15. CASE Prune
  BY <1>15 DEF Prune, InvitesInv
<1>16. CASE Flush
  BY <1>1, <1>16 DEF Flush
<1>17. CASE Tick
  <2>1. room # Nil /\ room' = [room EXCEPT !.left = Less(@)] /\ pass' = Less(pass)
    BY <1>17 DEF Tick
  <2>2. room'.invited = room.invited /\ room'.left = Less(room.left)
    BY <1>0, <2>1 DEF Room
  <2>3. \A i \in room.invited : i \in Identities /\ pass[i] = room.left[i]
    BY <1>0, <2>1 DEF InvitesInv
  <2>4. \A i \in room'.invited : pass'[i] = room'.left[i]
    BY <2>1, <2>2, <2>3 DEF Less
  <2> QED BY <2>4 DEF InvitesInv
<1> QED
  BY <1>2, <1>3, <1>4, <1>5, <1>6, <1>7, <1>8, <1>9, <1>10, <1>11, <1>12, <1>13, <1>14,
     <1>15, <1>16, <1>17 DEF Next, SessionStep

\* Into an invite-only room comes, besides operators, only the holder of an
\* invitation that is in time, was not taken back and was not used.
THEOREM EntersOnlyByRight == Spec => EntersByRight
<1> DEFINE Right == \A s \in members' \ members :
                      room # Nil /\ "i" \in room.modes /\ ~IsOp(s)
                        => Ident(s) # Nil /\ pass[Ident(s)] > 0
<1>1. Init => InvitesInv
  BY DEF Init, InvitesInv
<1>2. RoomInv /\ InvitesInv /\ [Next]_vars => InvitesInv'
  BY StepKeepsInvites DEF vars, InvitesInv
<1>3. ASSUME RoomInv, InvitesInv, Next PROVE Right
  <2>1. ASSUME NEW s \in Sessions, NEW rightKey \in BOOLEAN, Join(s, rightKey) PROVE Right
    <3> SUFFICES ASSUME s \notin members, s \in members', room # Nil,
                        "i" \in room.modes, ~IsOp(s)
                 PROVE  Ident(s) # Nil /\ pass[Ident(s)] > 0
      BY <2>1 DEF Join
    <3> DEFINE q == Pruned(room)
    <3>1. room \in Room
      BY <1>3 DEF RoomInv, Sound
    <3>2. q.modes = room.modes /\ q.invited = {i \in room.invited : room.left[i] > 0}
      BY <3>1 DEF Pruned, Room
    <3>3. Ident(s) \in q.invited
      BY <2>1, <3>2 DEF Join
    <3>4. Ident(s) \in room.invited /\ room.left[Ident(s)] > 0
      BY <3>2, <3>3
    <3>5. Ident(s) \in Identities
      BY <3>1, <3>4 DEF Room
    <3> QED BY <1>3, <3>4, <3>5, RoomAclAssumption DEF InvitesInv
  <2>2. CASE members' \subseteq members
    BY <2>2
  <2>3. ASSUME NEW s \in Sessions, Part(s) \/ Close(s) PROVE members' \subseteq members
    BY <2>3 DEF Part, Close, Expel
  <2>4. ASSUME NEW s \in Sessions, NEW victim \in Sessions, Kick(s, victim)
        PROVE  members' \subseteq members
    BY <2>4 DEF Kick, Expel
  <2>5. ASSUME NEW s \in Sessions, NEW h, BanAdd(s, h) PROVE members' \subseteq members
    BY <2>5 DEF BanAdd, Expel
  <2>6. ASSUME NEW s \in Sessions, NEW h,
               Op(s, h) \/ Deop(s, h) \/ Voice(s, h) \/ Devoice(s, h) \/ BanDel(s, h)
                 \/ InviteAdd(s, h) \/ InviteDel(s, h) \/ Mode(s, h)
        PROVE  members' \subseteq members
    BY <2>6 DEF Op, Deop, Voice, Devoice, BanDel, InviteAdd, InviteDel, Mode
  <2>7. ASSUME NEW s \in Sessions,
               Identify(s) \/ Post(s) \/ NoticeByResource(s) \/ Topic(s) \/ Register(s)
                 \/ Unregister(s)
        PROVE  members' \subseteq members
    BY <2>7 DEF Identify, Post, NoticeByResource, Topic, Register, Unregister
  <2>8. Prune \/ Flush \/ Tick => members' \subseteq members
    BY DEF Prune, Flush, Tick
  <2> HIDE DEF Right
  <2> QED BY <1>3, <2>1, <2>2, <2>3, <2>4, <2>5, <2>6, <2>7, <2>8 DEF Next, SessionStep
<1>4. RoomInv /\ InvitesInv /\ [Next]_vars => [Right]_vars
  BY <1>3
<1> QED BY <1>1, <1>2, <1>4, RoomInvHolds, PTL DEF Spec, EntersByRight

-----------------------------------------------------------------------------
\* What the room hears, inline or as a transfer, is from somebody who may post
\* at that moment.
THEOREM NoBackDoorOpens == Spec => NoBackDoor
<1> DEFINE Entitled == heard' # Nil => MayPost(heard')
<1>1. ASSUME Next PROVE Entitled
  <2>1. ASSUME NEW s \in Sessions, Post(s) \/ NoticeByResource(s) PROVE MayPost(heard')
    BY <2>1 DEF Post, NoticeByResource, MayPost
  <2>2. ASSUME NEW s \in Sessions, NEW rightKey \in BOOLEAN,
               Identify(s) \/ Join(s, rightKey) \/ Part(s) \/ Close(s)
        PROVE  heard' = Nil
    BY <2>2 DEF Identify, Join, Part, Close
  <2>3. ASSUME NEW s \in Sessions, Topic(s) \/ Register(s) \/ Unregister(s) PROVE heard' = Nil
    BY <2>3 DEF Topic, Register, Unregister, Founding
  <2>4. ASSUME NEW s \in Sessions, NEW h,
               \/ Mode(s, h) \/ Op(s, h) \/ Voice(s, h) \/ Deop(s, h) \/ Devoice(s, h)
               \/ InviteAdd(s, h) \/ BanAdd(s, h) \/ BanDel(s, h) \/ InviteDel(s, h) \/ Kick(s, h)
        PROVE  heard' = Nil
    BY <2>4 DEF Mode, Op, Voice, Deop, Devoice, InviteAdd, BanAdd, BanDel, InviteDel, Kick, Command
  <2>5. Prune \/ Flush \/ Tick => heard' = Nil
    BY DEF Prune, Flush, Tick
  <2> HIDE DEF Entitled
  <2>6. \/ heard' = Nil
        \/ \E s \in Sessions : Post(s) \/ NoticeByResource(s)
    BY <1>1, <2>2, <2>3, <2>4, <2>5 DEF Next, SessionStep
  <2> QED
    BY <2>1, <2>6 DEF Entitled
<1>2. [Next]_vars => [Entitled]_vars
  BY <1>1
<1> QED
  BY <1>2, PTL DEF Spec, NoBackDoor
=============================================================================
