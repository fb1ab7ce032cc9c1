----------------------------- MODULE Transcript -----------------------------
(***************************************************************************)
(* What a room keeps of its conversation: internal/history, and the calls  *)
(* internal/hub makes to it when rooms are made, spoken in and pruned.     *)
(*                                                                         *)
(* The store is one append-only file per room and day.  The dispatcher     *)
(* relays a message and then appends it, so a background Close may end the *)
(* room in between; the prune timer deletes old files; nothing is synced,  *)
(* so a power cut takes the tail of a room's newest file and may leave     *)
(* half a record, as a full disk may.  Reading stops at the first thing in *)
(* a file that is no record.                                               *)
(***************************************************************************)
EXTENDS Integers, Sequences, FiniteSets, SequencesExt

CONSTANTS
  Names,             \* room names
  Torn,              \* half a record
  TicksPerDay,
  Retention,         \* cfg.HistoryRetention, in ticks
  MaxBytesPerRoom, MaxTotalBytes,
  ReplayCount, ReplayBytes,     \* a query's Limit and MaxBytes
  Sizes,             \* the sizes a record can have, framed or as a body alike
  Horizon, MaxRecords, MaxCuts  \* bounds: the last tick, records, power cuts

ASSUME TranscriptAssumption ==
  /\ IsFiniteSet(Names)
  /\ TicksPerDay \in Nat \ {0} /\ Retention \in Nat \ {0}
  /\ MaxBytesPerRoom \in Nat /\ MaxTotalBytes \in Nat
  /\ ReplayCount \in Nat \ {0} /\ ReplayBytes \in Nat \ {0}
  /\ Sizes \subseteq Nat \ {0} /\ IsFiniteSet(Sizes)
  /\ Horizon \in Nat /\ MaxRecords \in Nat /\ MaxCuts \in Nat

VARIABLES
  store,     \* the content of each room's file of each day, none if empty
  room,      \* "none", "open" or "registered"
  relayed,   \* the room whose message is to be recorded, if any
  clock, cuts,
  count,     \* how many records were made, which numbers them
  said       \* history: what was recorded since the room was made or purged

vars == <<store, room, relayed, clock, cuts, count, said>>

Days == 0 .. (Horizon \div TicksPerDay)
Day(t) == t \div TicksPerDay

\* Mutant: filed by the clock of another time zone.
TodayElsewhere == Day(clock + 1)
Today == Day(clock)

Record == [id: 1 .. MaxRecords, at: 0 .. Horizon, size: Sizes]

ASSUME TornAssumption == Torn \notin Record

Size(e) == IF e = Torn THEN 1 ELSE e.size
Bytes(file) == MapThenSumSet(LAMBDA i : Size(file[i]), DOMAIN file)
NoFiles == [d \in Days |-> <<>>]
HeldDays(f) == {d \in Days : f[d] # <<>>}
RoomBytes(f) == MapThenSumSet(LAMBDA d : Bytes(f[d]), Days)
TotalBytes(st) == MapThenSumSet(LAMBDA n : RoomBytes(st[n]), Names)
Without(f, ds) == [d \in Days |-> IF d \in ds THEN <<>> ELSE f[d]]

\* enforceRoomCapLocked: oldest files first, and never the newest.
CapRoom(f) ==
  LET fits(k) == \/ RoomBytes(Without(f, 0 .. (k - 1))) <= MaxBytesPerRoom
                 \/ k = Max(HeldDays(f))
  IN  IF HeldDays(f) = {} THEN f
      ELSE Without(f, 0 .. (Min({k \in Days : fits(k)}) - 1))

-----------------------------------------------------------------------------
\* Reading

\* What a sequence says before the first of these things.
Before(seq, things) ==
  SubSeq(seq, 1, Min({i \in 1 .. Len(seq) : seq[i] \in things} \cup {Len(seq) + 1}) - 1)

\* readDayFile: the records before the first thing that is none.
Readable(file) == Before(file, {Torn})

\* Mutant: the days are read newest first.
AllReadableBackwards(n) ==
  FlattenSeq([i \in 1 .. Cardinality(Days) |-> Readable(store[n][Cardinality(Days) - i])])

\* A room's records, oldest day first.
AllReadable(n) ==
  FlattenSeq([i \in 1 .. Cardinality(Days) |-> Readable(store[n][i - 1])])

\* Mutant: the byte budget counts for the newest record as well, so an
\* oversized one gives an empty replay.
TakenStrictly(recs, k) ==
  LET j == Len(recs) - k + 1
  IN  /\ recs[j].at + Retention >= clock /\ k <= ReplayCount
      /\ Bytes(SubSeq(recs, j, Len(recs))) <= ReplayBytes

\* Recent takes the k-th newest record after those that are newer: not older
\* than the window, within the count, and within the bytes or the first.
Taken(recs, k) ==
  LET j == Len(recs) - k + 1
  IN  /\ recs[j].at + Retention >= clock /\ k <= ReplayCount
      /\ k = 1 \/ Bytes(SubSeq(recs, j, Len(recs))) <= ReplayBytes

\* Recent.
Recent(n) ==
  LET recs == AllReadable(n)
      taken == {k \in 0 .. Len(recs) : \A i \in 1 .. k : Taken(recs, i)}
  IN  SubSeq(recs, Len(recs) - Max(taken) + 1, Len(recs))

\* recordEnvelope: a message keeps its id when it is shown again.
Shown(rec) == rec.id

\* replayTo.
Replayed(n) == LET recs == Recent(n) IN [i \in DOMAIN recs |-> Shown(recs[i])]

-----------------------------------------------------------------------------
\* Rooms

\* dropHistory.
Forget(n) == /\ store' = [store EXCEPT ![n] = NoFiles]
             /\ said' = [said EXCEPT ![n] = <<>>]

\* Mutant: a new room leaves what lies under its name alone.
CreateOnOldGround(n) ==
  /\ room[n] = "none" /\ relayed = {} /\ room' = [room EXCEPT ![n] = "open"]
  /\ said' = [said EXCEPT ![n] = <<>>]
  /\ UNCHANGED <<store, relayed, clock, cuts, count>>

\* A JOIN that creates the room drops what an earlier one left.
Create(n) ==
  /\ room[n] = "none" /\ relayed = {} /\ room' = [room EXCEPT ![n] = "open"]
  /\ Forget(n)
  /\ UNCHANGED <<relayed, clock, cuts, count>>

\* The last member of an unregistered room leaves or is closed.  A Close may
\* come between a relay and its record.
Die(n) ==
  /\ room[n] = "open" /\ room' = [room EXCEPT ![n] = "none"]
  /\ UNCHANGED <<store, relayed, clock, cuts, count, said>>

Register(n) ==
  /\ room[n] = "open" /\ relayed = {} /\ room' = [room EXCEPT ![n] = "registered"]
  /\ UNCHANGED <<store, relayed, clock, cuts, count, said>>

\* /unregister keeps the transcript.
Unregister(n) ==
  /\ room[n] = "registered" /\ relayed = {} /\ room' = [room EXCEPT ![n] = "open"]
  /\ UNCHANGED <<store, relayed, clock, cuts, count, said>>

\* doPrune deletes a registered room nobody uses, and not its transcript.
PruneRoom(n) ==
  /\ room[n] = "registered" /\ room' = [room EXCEPT ![n] = "none"]
  /\ UNCHANGED <<store, relayed, clock, cuts, count, said>>

\* /history purge.
Purge(n) ==
  /\ room[n] # "none" /\ relayed = {} /\ Forget(n)
  /\ UNCHANGED <<room, relayed, clock, cuts, count>>

\* handleMsg fans a MSG or an ACTION out.
Relay(n) ==
  /\ room[n] # "none" /\ relayed = {} /\ count < MaxRecords /\ relayed' = {n}
  /\ UNCHANGED <<store, room, clock, cuts, count, said>>

-----------------------------------------------------------------------------
\* The store

\* recordMessage and Append, dated and filed by the hub's clock.
RecordMessage(n) ==
  /\ n \in relayed /\ relayed' = {} /\ count' = count + 1
  /\ said' = [said EXCEPT ![n] = Append(@, count')]
  /\ \E size \in Sizes :
       LET rec == [id |-> count', at |-> clock, size |-> size]
       IN  store' = [store EXCEPT ![n] = CapRoom([store[n] EXCEPT ![Today] = Append(@, rec)])]
  /\ UNCHANGED <<room, clock, cuts>>

\* The disk is full, in the middle of a record or before it.
RecordFails(n) ==
  /\ n \in relayed /\ relayed' = {} /\ cuts < MaxCuts /\ cuts' = cuts + 1
  /\ \E part \in {<<>>, <<Torn>>} :
       store' = [store EXCEPT ![n][Today] = @ \o part]
  /\ UNCHANGED <<room, clock, count, said>>

\* Mutant: the day the window begins in is dropped with those before it.
ExpiredDaysAndOne == {d \in Days : d <= Day(clock - Retention)}

\* The days whose files are older than the window as a whole.
ExpiredDays == {d \in Days : d < Day(clock - Retention)}

Files(st) == {f \in Names \X Days : st[f[1]][f[2]] # <<>>}
After(st, fs) == [n \in Names |-> Without(st[n], {d \in Days : <<n, d>> \in fs})]

\* Mutant: the total is left alone.
NothingEvicted(st) == {st}

\* enforceTotalCapLocked: oldest days first across all rooms, those of one day
\* in any order, until the rest fits.
CapTotal(st) == IF TotalBytes(st) <= MaxTotalBytes THEN {st} ELSE
  {After(st, fs) : fs \in
    {gs \in SUBSET Files(st) :
       /\ TotalBytes(After(st, gs)) <= MaxTotalBytes
       /\ \A f \in gs, g \in Files(st) \ gs : f[2] <= g[2]
       /\ \E last \in gs : /\ \A f \in gs : f[2] <= last[2]
                          /\ TotalBytes(After(st, gs \ {last})) > MaxTotalBytes}}

\* Prune.
PruneStore ==
  /\ store' \in CapTotal([n \in Names |-> CapRoom(Without(store[n], ExpiredDays))])
  /\ UNCHANGED <<room, relayed, clock, cuts, count, said>>

\* The power goes, and the tail of one room's newest file with it; registered
\* rooms are there again when it is back.
PowerCut ==
  /\ cuts < MaxCuts /\ cuts' = cuts + 1 /\ relayed' = {}
  /\ room' = [n \in Names |-> IF room[n] = "open" THEN "none" ELSE room[n]]
  /\ \E n \in {m \in Names : HeldDays(store[m]) # {}}, part \in {<<>>, <<Torn>>} :
       LET d == Max(HeldDays(store[n]))
       IN  \E k \in 0 .. Len(store[n][d]) :
             LET lost == {store[n][d][i].id :
                            i \in {j \in k + 1 .. Len(store[n][d]) : store[n][d][j] # Torn}}
             IN  /\ store' = [store EXCEPT ![n][d] = SubSeq(@, 1, k) \o part]
                 /\ said' = [said EXCEPT ![n] = Before(@, lost)]
  /\ UNCHANGED <<clock, count>>

Tick ==
  /\ clock < Horizon /\ clock' = clock + 1
  /\ UNCHANGED <<store, room, relayed, cuts, count, said>>

-----------------------------------------------------------------------------
Init ==
  /\ store = [n \in Names |-> NoFiles] /\ room = [n \in Names |-> "none"]
  /\ relayed = {} /\ clock = 0 /\ cuts = 0 /\ count = 0
  /\ said = [n \in Names |-> <<>>]

RoomStep(n) ==
  \/ Create(n) \/ Die(n) \/ Register(n) \/ Unregister(n) \/ PruneRoom(n) \/ Purge(n)
  \/ Relay(n) \/ RecordMessage(n) \/ RecordFails(n)

Next == (\E n \in Names : RoomStep(n)) \/ PruneStore \/ PowerCut \/ Tick

Spec == Init /\ [][Next]_vars

-----------------------------------------------------------------------------
\* Properties

HasTorn(n) == \E d \in Days : Torn \in ToSet(store[n][d])
Kept(n) == {e \in UNION {ToSet(store[n][d]) : d \in Days} : e # Torn}

\* Every variable keeps its type, and a record lies in the file of its day.
TypeOK ==
  /\ \A n \in Names, d \in Days : \A e \in ToSet(store[n][d]) :
       e # Torn => e \in Record /\ Day(e.at) = d
  /\ room \in [Names -> {"none", "open", "registered"}]
  /\ relayed \subseteq Names /\ Cardinality(relayed) <= 1
  /\ clock \in 0 .. Horizon /\ cuts \in 0 .. MaxCuts /\ count \in 0 .. MaxRecords
  /\ \A n \in Names : ToSet(said[n]) \subseteq 1 .. count

\* What a member is shown is the end of the room's conversation, in order and
\* without a gap, however expiry, the two caps and lost tails took from it.  A
\* file with half a record in it is the exception that ReadableAfterCut is
\* about.
ReplayHasNoGaps ==
  \A n \in Names : ~HasTorn(n) => IsSuffix(Replayed(n), said[n])

\* history.go: "such a room dies with its last member".  Whoever is in a room
\* can be shown only what was recorded since this room was made.
NoInheritance ==
  \A n \in Names : room[n] # "none" =>
    \A e \in Kept(n) : e.id \in ToSet(said[n])

\* Records went, and not because a room was made or purged or the power cut.
FilesExpire == /\ said' = said /\ cuts' = cuts
               /\ \E n \in Names : store[n]' # store[n] /\ Kept(n)' # Kept(n)

\* history.go: "a record is never deleted before its retention has actually
\* elapsed".  When no cap is reached a prune deletes only records past the
\* window, and leaves none that is past it by more than a day.
PruneKeepsTheWindow ==
  [][FilesExpire /\ TotalBytes(store) <= MaxTotalBytes
       /\ (\A n \in Names : RoomBytes(store[n]) <= MaxBytesPerRoom) =>
     \A n \in Names :
       /\ \A e \in Kept(n) \ Kept(n)' : e.at + Retention < clock
       /\ \A e \in Kept(n)' : e.at + Retention + TicksPerDay > clock]_vars

\* history.go: "Everything is bounded".  A prune leaves no more than the store
\* may hold, and no room more than it may, except in a single file.
PruneBounds ==
  [][FilesExpire => /\ TotalBytes(store)' <= MaxTotalBytes
                    /\ \A n \in Names : \/ RoomBytes(store[n])' <= MaxBytesPerRoom
                                        \/ Cardinality(HeldDays(store[n])') = 1]_vars

ShowsNewest(n) == \E shown \in {Replayed(n)} : shown # <<>> /\ Last(shown) = count

\* A message is worth recording only if it can be shown: right after it was
\* recorded it is the last of the replay, even when it alone is over a limit.
NewestIsReplayed ==
  [][\A n \in Names : Len(said[n])' > Len(said[n]) /\ ~HasTorn(n)
       => ShowsNewest(n)']_vars

\* history.go: "losing the last few messages to a power cut".  What is recorded
\* after the power is back can be read.
ReadableAfterCut ==
  [][\A n \in Names : Len(said[n])' > Len(said[n])
       => ShowsNewest(n)']_vars
=============================================================================
