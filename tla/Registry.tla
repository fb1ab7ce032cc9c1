------------------------------ MODULE Registry ------------------------------
(***************************************************************************)
(* The registered rooms and rooms.toml: who saves what when (hub.go,       *)
(* roomreg.go, and the commands that register, remove and reload rooms).   *)
(*                                                                         *)
(* Handlers change the room table under the hub mutex and set a flag.      *)
(* reaperLoop, every few seconds, and Stop, once, take a copy under the    *)
(* mutex, clear the flag and write the copy without the mutex: encode,     *)
(* sync and rename, so the file changes at once or not at all.  The        *)
(* process may die at any moment; a new one starts from the file.          *)
(***************************************************************************)
EXTENDS Naturals, FiniteSets

CONSTANTS
  Names,         \* normalised room names
  Default,       \* cfg.DefaultRooms
  Nil,           \* no room, and no copy being saved
  PruneAfter,    \* cfg.RoomRegistryPruneAfter, in whole ticks
  Horizon,       \* bound: the last tick
  MaxEdits       \* bound: the changes made to the registry

ASSUME RegistryAssumption ==
  /\ IsFiniteSet(Names) /\ Default \subseteq Names /\ Nil \notin Names
  /\ PruneAfter \in Nat /\ Horizon \in Nat /\ MaxEdits \in Nat

VARIABLES
  table,     \* Hub.rooms: a name's room, or Nil
  here,      \* the names of the rooms somebody is in
  dirty,     \* Hub.registryDirty
  saving,    \* the copy each saver is writing, or Nil
  file,      \* rooms.toml: a name's record, or Nil
  up,        \* "down", "up", "closed" (in Stop), "flushed", "exited"
  clock,
  edits,     \* how many changes there were, which numbers them
  lastUse,   \* history: when each room was last used
  revived,   \* history: rooms /reload brought back and nobody changed since
  given      \* history: default rooms that their founder unregistered

history == <<lastUse, revived, given>>
vars == <<table, here, dirty, saving, file, up, clock, edits, history>>

Times == 0 .. Horizon
Savers == {"reaper", "stop"}

\* A room of the table.  Who the founder is never changes, only whether there
\* is one matters here; topic, flags and lists are one number, of the last
\* change to them.
Rec(registered, founded, edit, used) ==
  [registered |-> registered, founded |-> founded, edit |-> edit, used |-> used]

Rooms == [registered: BOOLEAN, founded: BOOLEAN, edit: Nat, used: Nat]
Records == [founded: BOOLEAN, edit: Nat, used: Nat]
ASSUME NilAssumption ==
  Nil \notin Rooms /\ Nil \notin Records /\ Nil \notin [Names -> Records \cup {Nil}]

\* roomFromRecord, toRecord: a file holds registered rooms only.
FromRecord(rec) == Rec(TRUE, rec.founded, rec.edit, rec.used)
ToRecord(r) == [founded |-> r.founded, edit |-> r.edit, used |-> r.used]

Registered(n) == table[n] # Nil /\ table[n].registered

\* What flushRegistry copies.
Snapshot == [n \in Names |-> IF Registered(n) THEN ToRecord(table[n]) ELSE Nil]

\* A record without its date, which no change marks.
Undated(f) == [n \in Names |-> IF f[n] = Nil THEN Nil ELSE [f[n] EXCEPT !.used = 0]]

\* The loops may be at work until the process ends.
Running == up \in {"up", "closed", "flushed"}

Numbered == edits < MaxEdits /\ edits' = edits + 1
Use(n) == lastUse' = [lastUse EXCEPT ![n] = clock]
Changed(n) == Use(n) /\ revived' = revived \ {n}

-----------------------------------------------------------------------------
\* Members

\* createRoomLocked, touchRoom.  Somebody whose link is gone has no identity,
\* and a room of theirs no founder.
Join(n) ==
  /\ up = "up" /\ here' = here \cup {n} /\ Use(n)
  /\ \/ /\ table[n] = Nil
        /\ \E founded \in BOOLEAN :
             table' = [table EXCEPT ![n] = Rec(FALSE, founded, 0, clock)]
     \/ table[n] # Nil /\ table' = [table EXCEPT ![n].used = clock]
  /\ UNCHANGED <<dirty, saving, file, up, clock, edits, revived, given>>

\* A message is relayed: touchRoom and no more.
Talk(n) ==
  /\ up = "up" /\ n \in here /\ Use(n)
  /\ table' = [table EXCEPT ![n].used = clock]
  /\ UNCHANGED <<here, dirty, saving, file, up, clock, edits, revived, given>>

\* The last member leaves; dropRoomIfEmptyLocked.
Leave(n) ==
  /\ up = "up" /\ n \in here /\ here' = here \ {n}
  /\ table' = [table EXCEPT ![n] = IF @.registered THEN @ ELSE Nil]
  /\ UNCHANGED <<dirty, saving, file, up, clock, edits, history>>

\* /register by the founder, who has to be there.
Register(n) ==
  /\ up = "up" /\ n \in here /\ table[n].founded /\ Numbered /\ Changed(n)
  /\ table' = [table EXCEPT ![n] = Rec(TRUE, TRUE, edits', clock)]
  /\ dirty' = TRUE /\ given' = given \ {n}
  /\ UNCHANGED <<here, saving, file, up, clock>>

\* A room command that changes a persisted field.
Edit(n) ==
  /\ up = "up" /\ Registered(n) /\ Numbered /\ Changed(n)
  /\ table' = [table EXCEPT ![n] = Rec(TRUE, @.founded, edits', clock)]
  /\ dirty' = TRUE
  /\ UNCHANGED <<here, saving, file, up, clock, given>>

\* /unregister by the founder, who has to be there: of a default room too, if
\* it was somebody's before it was put in the configuration.
Unregister(n) ==
  /\ up = "up" /\ n \in here /\ table[n].founded /\ Registered(n)
  /\ table' = [table EXCEPT ![n].registered = FALSE] /\ dirty' = TRUE
  /\ given' = given \cup ({n} \cap Default)
  /\ UNCHANGED <<here, saving, file, up, clock, edits, lastUse, revived>>

\* /reload: what the file has and the table has not.
Reload ==
  /\ up = "up"
  /\ LET back == {n \in Names : table[n] = Nil /\ file[n] # Nil}
     IN  /\ table' = [n \in Names |-> IF n \in back THEN FromRecord(file[n]) ELSE table[n]]
         /\ revived' = revived \cup back /\ given' = given \ back
  /\ UNCHANGED <<here, dirty, saving, file, up, clock, edits, lastUse>>

-----------------------------------------------------------------------------
\* Timers

Unused(n) == Registered(n) /\ table[n].used + PruneAfter < clock

\* Mutant: default rooms are pruned like the rest.
StaleEvenDefault == {n \in Names \ here : Unused(n)}

\* Mutant: a room is pruned for its date although somebody sits in it.
StaleEvenOccupied == {n \in Names \ Default : Unused(n)}

\* The rooms doPrune deletes.
Stale == {n \in (Names \ Default) \ here : Unused(n)}

\* Mutant: the rooms are deleted from memory only.
PruneUnmarked ==
  /\ Running /\ Stale # {}
  /\ table' = [n \in Names |-> IF n \in Stale THEN Nil ELSE table[n]]
  /\ UNCHANGED <<here, dirty, saving, file, up, clock, edits, history>>

Prune ==
  /\ Running /\ Stale # {}
  /\ table' = [n \in Names |-> IF n \in Stale THEN Nil ELSE table[n]]
  /\ dirty' = TRUE
  /\ UNCHANGED <<here, saving, file, up, clock, edits, history>>

Tick ==
  /\ clock < Horizon /\ clock' = clock + 1
  /\ UNCHANGED <<table, here, dirty, saving, file, up, edits, history>>

\* flushRegistry, the section under the mutex.
Copy(sv) ==
  /\ saving[sv] = Nil /\ dirty /\ dirty' = FALSE
  /\ saving' = [saving EXCEPT ![sv] = Snapshot]
  /\ UNCHANGED <<table, here, file, clock, edits, history>>

ReaperCopies == Running /\ Copy("reaper") /\ UNCHANGED up

\* SaveRegistry: the rename.
Write(sv) ==
  /\ saving[sv] # Nil /\ file' = saving[sv]
  /\ saving' = [saving EXCEPT ![sv] = Nil]
  /\ up' = IF sv = "stop" THEN "flushed" ELSE up
  /\ UNCHANGED <<table, here, dirty, clock, edits, history>>

\* Mutant: a save that failed is forgotten.
FailForgotten(sv) ==
  /\ saving[sv] # Nil /\ saving' = [saving EXCEPT ![sv] = Nil]
  /\ up' = IF sv = "stop" THEN "flushed" ELSE up
  /\ UNCHANGED <<table, here, dirty, file, clock, edits, history>>

\* SaveRegistry returns an error: the registry is marked again.
Fail(sv) ==
  /\ saving[sv] # Nil /\ saving' = [saving EXCEPT ![sv] = Nil] /\ dirty' = TRUE
  /\ up' = IF sv = "stop" THEN "flushed" ELSE up
  /\ UNCHANGED <<table, here, file, clock, edits, history>>

-----------------------------------------------------------------------------
\* The process

\* loadRegistry, then ensureDefaultRooms.
Loaded ==
  [n \in Names |-> IF file[n] # Nil THEN FromRecord(file[n])
                   ELSE IF n \in Default THEN Rec(TRUE, FALSE, 0, clock) ELSE Nil]

Start ==
  /\ up \in {"down", "exited"} /\ up' = "up" /\ table' = Loaded
  /\ revived' = {} /\ given' = {}
  /\ dirty' = (\E n \in Default : file[n] = Nil)
  /\ UNCHANGED <<here, saving, file, clock, edits, lastUse>>

\* Stop, once the transport has drained: no handler runs any more.
Close ==
  /\ up = "up" /\ up' = "closed"
  /\ UNCHANGED <<table, here, dirty, saving, file, clock, edits, history>>

\* Its final flush, which an unmarked registry ends at once.
StopFlush ==
  /\ up = "closed" /\ saving["stop"] = Nil
  /\ \/ Copy("stop") /\ UNCHANGED up
     \/ /\ ~dirty /\ up' = "flushed"
        /\ UNCHANGED <<table, here, dirty, saving, file, clock, edits, history>>

Gone == /\ saving' = [sv \in Savers |-> Nil] /\ here' = {}
        /\ UNCHANGED <<table, dirty, file, clock, edits, history>>

\* main returns, whatever the other goroutines are doing.
Exit == up = "flushed" /\ up' = "exited" /\ Gone

Crash == up \in {"up", "closed"} /\ up' = "down" /\ Gone

-----------------------------------------------------------------------------
\* rooms.toml may be there from before, when other rooms were configured.
Init ==
  /\ file \in [Names -> [founded: BOOLEAN, edit: {0}, used: {0}] \cup {Nil}]
  /\ table = [n \in Names |-> Nil] /\ here = {} /\ dirty = FALSE
  /\ saving = [sv \in Savers |-> Nil] /\ up = "down"
  /\ clock = 0 /\ edits = 0 /\ lastUse = [n \in Names |-> 0]
  /\ revived = {} /\ given = {}

RoomStep(n) == Join(n) \/ Talk(n) \/ Leave(n) \/ Register(n) \/ Edit(n) \/ Unregister(n)

Next ==
  \/ \E n \in Names : RoomStep(n)
  \/ Reload \/ Prune \/ Tick
  \/ ReaperCopies \/ StopFlush
  \/ \E sv \in Savers : Write(sv) \/ Fail(sv)
  \/ Start \/ Close \/ Exit \/ Crash

Spec == Init /\ [][Next]_vars

\* reaperLoop ticks, a save ends, and one tried again and again succeeds.
FairSpec == /\ Spec /\ WF_vars(ReaperCopies) /\ SF_vars(Write("reaper"))
            /\ WF_vars(Write("reaper") \/ Fail("reaper"))

-----------------------------------------------------------------------------
\* Properties

Dated == [founded: BOOLEAN, edit: 0 .. MaxEdits, used: Times] \cup {Nil}

\* Every variable keeps its type; a room somebody is in is in the table.
TypeOK ==
  /\ table \in [Names -> [registered: BOOLEAN, founded: BOOLEAN,
                         edit: 0 .. MaxEdits, used: Times] \cup {Nil}]
  /\ file \in [Names -> Dated] /\ saving \in [Savers -> [Names -> Dated] \cup {Nil}]
  /\ here \subseteq Names /\ dirty \in BOOLEAN
  /\ up \in {"down", "up", "closed", "flushed", "exited"}
  /\ clock \in Times /\ edits \in 0 .. MaxEdits /\ lastUse \in [Names -> Times]
  /\ revived \subseteq Names /\ given \subseteq Default /\ \A n \in here : table[n] # Nil

\* As long as the hub is up, the file holds what the table holds, or the
\* registry is marked, or the reaper is writing: failed saves, prunes and
\* changes made during a save included.  A room that /reload took from a file
\* about to be replaced is the exception, until somebody changes it.
FileAgreesUnlessMarked ==
  up = "up" /\ ~dirty /\ saving["reaper"] = Nil =>
    \A n \in Names \ revived : Undated(file)[n] = Undated(Snapshot)[n]

\* hub.go, ensureDefaultRooms and doPrune: "the point here is only that the
\* room EXISTS".  While the hub is up every default room is there, registered,
\* whatever file it was loaded from and whatever is pruned, saved or reloaded;
\* only a founder it had from before it was configured can give it up.
DefaultRoomsStand == up = "up" => \A n \in Default \ given : Registered(n)

SaysChange(f, n, e) == f[n] # Nil /\ f[n].edit = e

\* A change that is not undone gets to disk, although saves may fail and other
\* changes keep coming, unless the hub goes down first.
ChangesReachDisk ==
  \A n \in Names, e \in 1 .. MaxEdits :
    (up = "up" /\ n \notin revived /\ SaysChange(Snapshot, n, e))
      ~> (SaysChange(file, n, e) \/ ~SaysChange(Snapshot, n, e) \/ up # "up")

-----------------------------------------------------------------------------
\* What the code does not keep

\* hub.go, pruneLoop: "removes stale registered rooms".  A room is removed
\* only when it has not been used for PruneAfter: but Join and Talk date a room
\* in memory, and a restart takes the date of the last save.
OnlyTheUnusedArePruned ==
  [][\A n \in Names : Prune /\ table[n] # Nil /\ table'[n] = Nil
       => lastUse[n] + PruneAfter < clock]_vars

\* hub.go, Stop: it "persists the room registry".  Unless its save failed, the
\* process leaves behind what was registered when it stopped, rooms brought
\* back by /reload aside: but the reaper may hold the copy that Stop waits for.
StopSavesEverything ==
  up = "exited" /\ ~dirty =>
    \A n \in Names \ revived : Undated(file)[n] = Undated(Snapshot)[n]

\* Every default room stands, whoever its founder is: but see Unregister.
AllDefaultRoomsStand == up = "up" => \A n \in Default : Registered(n)
=============================================================================
