-------------------------- MODULE Registry_proofs --------------------------
(***************************************************************************)
(* Theorems about Registry, for every choice of its constants.             *)
(***************************************************************************)
EXTENDS Registry, TLAPS

-----------------------------------------------------------------------------
\* Types

\* What a room of the table can be, numbers and dates within their bounds.
Kept == [registered: BOOLEAN, founded: BOOLEAN, edit: 0 .. MaxEdits, used: 0 .. Horizon]

\* A process that is not there has nobody in its rooms and saves nothing, and
\* Stop does not save before the hub is closed.
ProcessInv ==
  /\ up \in {"down", "exited"} => here = {} /\ \A sv \in Savers : saving[sv] = Nil
  /\ up = "up" => saving["stop"] = Nil

\* Loading and every change put rooms into the table that are rooms.
LEMMA RecIsKept ==
  ASSUME NEW e \in 0 .. MaxEdits, NEW t \in 0 .. Horizon, NEW b \in BOOLEAN, NEW f \in BOOLEAN
  PROVE  Rec(b, f, e, t) \in Kept /\ Rec(b, f, e, t) # Nil
BY RegistryAssumption, NilAssumption DEF Rec, Kept, Rooms

\* Steps of the rooms, of the savers and of the process keep the types.
LEMMA TypesKept ==
  ASSUME TypeOK, ProcessInv, [Next]_vars
  PROVE  TypeOK'
<1> USE RegistryAssumption DEF Savers, history
<1>0. /\ table \in [Names -> Kept \cup {Nil}] /\ file \in [Names -> Dated]
      /\ saving \in [Savers -> [Names -> Dated] \cup {Nil}]
      /\ here \subseteq Names /\ dirty \in BOOLEAN /\ revived \subseteq Names
      /\ given \subseteq Default /\ Default \subseteq Names
      /\ clock \in 0 .. Horizon /\ edits \in 0 .. MaxEdits /\ 0 \in 0 .. MaxEdits
      /\ lastUse \in [Names -> 0 .. Horizon] /\ \A n \in here : table[n] # Nil
      /\ up \in {"down", "up", "closed", "flushed", "exited"}
  BY DEF TypeOK, Kept, Times
<1>a. \A r \in Kept, t \in 0 .. Horizon : [r EXCEPT !.used = t] \in Kept /\ [r EXCEPT !.used = t] # Nil
  BY NilAssumption DEF Kept, Rooms
<1>b. \A r \in Kept : [r EXCEPT !.registered = FALSE] \in Kept /\ [r EXCEPT !.registered = FALSE] # Nil
  <2>1. \A r \in Kept : [r EXCEPT !.registered = FALSE] \in Kept
    BY DEF Kept
  <2>2. Nil \notin Kept
    BY NilAssumption DEF Kept, Rooms
  <2> QED
    BY <2>1, <2>2
<1> DEFINE Goal == /\ table' \in [Names -> Kept \cup {Nil}] /\ file' \in [Names -> Dated]
                   /\ saving' \in [Savers -> [Names -> Dated] \cup {Nil}]
                   /\ here' \subseteq Names /\ dirty' \in BOOLEAN /\ revived' \subseteq Names
                   /\ given' \subseteq Default
                   /\ clock' \in 0 .. Horizon /\ edits' \in 0 .. MaxEdits
                   /\ lastUse' \in [Names -> 0 .. Horizon] /\ \A n \in here' : table'[n] # Nil
                   /\ up' \in {"down", "up", "closed", "flushed", "exited"}
<1> SUFFICES Goal
  BY DEF TypeOK, Kept, Times
<1>1. ASSUME NEW n \in Names, Join(n) PROVE Goal
  <2>1. PICK r : r \in Kept /\ r # Nil /\ table' = [table EXCEPT ![n] = r]
    <3>1. table[n] \in Kept \cup {Nil}
      BY <1>0
    <3>2. CASE table[n] = Nil
      BY <1>0, <1>1, <3>2, RecIsKept DEF Join
    <3>3. CASE table[n] # Nil
      BY <1>0, <1>1, <1>a, <3>1, <3>3 DEF Join
    <3> QED
      BY <3>2, <3>3
  <2>2. /\ table' \in [Names -> Kept \cup {Nil}]
        /\ \A m \in Names : table[m] # Nil \/ m = n => table'[m] # Nil
    BY <1>0, <2>1
  <2>3. here' \subseteq Names /\ \A m \in here' : table'[m] # Nil
    BY <1>0, <1>1, <2>2 DEF Join
  <2>4. lastUse' \in [Names -> 0 .. Horizon]
    BY <1>0, <1>1 DEF Join, Use
  <2> QED
    BY <1>0, <1>1, <2>2, <2>3, <2>4 DEF Join
<1>2. ASSUME NEW n \in Names, Talk(n) \/ Leave(n) PROVE Goal
  BY <1>0, <1>2, <1>a DEF Talk, Leave, Use
<1>3. ASSUME NEW n \in Names, Register(n) \/ Edit(n) PROVE Goal
  <2>1. Numbered /\ Changed(n)
    BY <1>3 DEF Register, Edit
  <2>2. edits' \in 0 .. MaxEdits
    BY <1>0, <2>1 DEF Numbered
  <2>3. PICK f \in BOOLEAN : table' = [table EXCEPT ![n] = Rec(TRUE, f, edits', clock)]
    <3>1. CASE Register(n)
      BY <3>1 DEF Register
    <3>2. CASE Edit(n)
      <4>1. table[n] \in Kept
        BY <1>0, <3>2 DEF Edit, Registered
      <4>2. table[n].founded \in BOOLEAN
        BY <4>1 DEF Kept
      <4> QED
        BY <1>0, <3>2, <4>2 DEF Edit
    <3> QED
      BY <1>3, <3>1, <3>2
  <2>4. Rec(TRUE, f, edits', clock) \in Kept /\ Rec(TRUE, f, edits', clock) # Nil
    BY <1>0, <2>2, RecIsKept
  <2>5. /\ dirty' = TRUE /\ given' \subseteq given
        /\ UNCHANGED <<here, saving, file, up, clock>>
    BY <1>3 DEF Register, Edit
  <2> QED
    BY <1>0, <2>1, <2>2, <2>3, <2>4, <2>5 DEF Changed, Use
<1>4. ASSUME NEW n \in Names, Unregister(n) PROVE Goal
  BY <1>0, <1>4, <1>b DEF Unregister
<1>5. CASE Reload
  <2>1. \A n \in Names : file[n] # Nil =>
          FromRecord(file[n]) \in Kept /\ FromRecord(file[n]) # Nil
    BY <1>0, RecIsKept DEF Dated, Times, FromRecord
  <2> QED
    BY <1>0, <1>5, <2>1 DEF Reload
<1>6. CASE Prune
  BY <1>0, <1>6 DEF Prune, Stale
<1>7. CASE Tick
  BY <1>0, <1>7 DEF Tick
<1>8. CASE ReaperCopies \/ StopFlush
  <2>1. Snapshot \in [Names -> Dated]
    BY <1>0 DEF Snapshot, Registered, ToRecord, Dated, Kept, Times
  <2>2. ASSUME NEW sv \in Savers, Copy(sv), UNCHANGED up PROVE Goal
    BY <1>0, <2>1, <2>2 DEF Copy
  <2>3. CASE ReaperCopies
    BY <2>2, <2>3 DEF ReaperCopies
  <2>4. CASE StopFlush
    <3>1. CASE Copy("stop") /\ UNCHANGED up
      BY <2>2, <3>1
    <3>2. CASE up' = "flushed" /\ UNCHANGED <<table, here, dirty, saving, file, clock, edits, history>>
      BY <1>0, <3>2
    <3> QED
      BY <2>4, <3>1, <3>2 DEF StopFlush
  <2> QED
    BY <1>8, <2>3, <2>4
<1>9. ASSUME NEW sv \in Savers, Write(sv) \/ Fail(sv) PROVE Goal
  <2>1. saving' = [saving EXCEPT ![sv] = Nil] /\ saving[sv] # Nil
    BY <1>9 DEF Write, Fail
  <2>2. saving' \in [Savers -> [Names -> Dated] \cup {Nil}] /\ saving[sv] \in [Names -> Dated]
    BY <1>0, <2>1
  <2> QED
    BY <1>0, <1>9, <2>2 DEF Write, Fail
<1>10. CASE Start
  <2>1. Loaded \in [Names -> Kept \cup {Nil}]
    BY <1>0, RecIsKept DEF Loaded, FromRecord, Dated, Times
  <2> QED
    BY <1>0, <1>10, <2>1 DEF Start, ProcessInv
<1>11. CASE Close \/ Exit \/ Crash
  BY <1>0, <1>11 DEF Close, Exit, Crash, Gone
<1>12. CASE UNCHANGED vars
  BY <1>0, <1>12 DEF vars
<1> QED
  BY <1>1, <1>2, <1>3, <1>4, <1>5, <1>6, <1>7, <1>8, <1>9, <1>10, <1>11, <1>12
  DEF Next, RoomStep

\* The process comes and goes as a whole.
LEMMA ProcessKept ==
  ASSUME TypeOK, ProcessInv, [Next]_vars
  PROVE  ProcessInv'
<1> USE DEF ProcessInv, Savers, history
<1>1. ASSUME NEW n \in Names, RoomStep(n) PROVE ProcessInv'
  BY <1>1 DEF RoomStep, Join, Talk, Leave, Register, Edit, Unregister
<1>2. CASE Reload \/ Prune \/ Tick
  BY <1>2 DEF Reload, Prune, Tick, Running
<1>3. CASE ReaperCopies
  BY <1>3 DEF ReaperCopies, Copy, Running, TypeOK
<1>4. CASE StopFlush
  BY <1>4 DEF StopFlush, Copy, TypeOK
<1>5. ASSUME NEW sv \in Savers, Write(sv) \/ Fail(sv) PROVE ProcessInv'
  BY <1>5 DEF Write, Fail, TypeOK
<1>6. CASE Start \/ Close
  BY <1>6 DEF Start, Close
<1>7. CASE Exit \/ Crash
  BY <1>7 DEF Exit, Crash, Gone
<1>8. CASE UNCHANGED vars
  BY <1>8 DEF vars
<1> QED
  BY <1>1, <1>2, <1>3, <1>4, <1>5, <1>6, <1>7, <1>8 DEF Next

-----------------------------------------------------------------------------
\* The file

\* What rooms.toml should say of a name.
Says(n) == IF Registered(n) THEN [ToRecord(table[n]) EXCEPT !.used = 0] ELSE Nil

\* f says so of every room, but for those that came out of an older file.
Agrees(f) == \A n \in Names \ revived : Undated(f)[n] = Says(n)

\* While the registry is unmarked the file is right, or the copy that the
\* reaper is writing is.
FileInv ==
  up = "up" /\ ~dirty =>
    Agrees(IF saving["reaper"] = Nil THEN file ELSE saving["reaper"])

\* A copy made under the mutex says what the table says.
LEMMA CopySays ==
  ASSUME TypeOK
  PROVE  \A n \in Names : Undated(Snapshot)[n] = Says(n)
<1> TAKE n \in Names
<1>1. table[n] # Nil => ToRecord(table[n]) \in Records
  BY RegistryAssumption DEF TypeOK, Records, Times, ToRecord
<1>2. Undated(Snapshot)[n] = IF Snapshot[n] = Nil THEN Nil ELSE [Snapshot[n] EXCEPT !.used = 0]
  BY DEF Undated
<1>3. CASE Registered(n)
  <2>1. Snapshot[n] = ToRecord(table[n])
    BY <1>3 DEF Snapshot
  <2> QED
    BY <1>1, <1>2, <1>3, <2>1, NilAssumption DEF Says, Registered
<1>4. CASE ~Registered(n)
  BY <1>2, <1>4 DEF Snapshot, Says
<1> QED
  BY <1>3, <1>4

\* Reading the copy or the file does not depend on whether it is a record of a
\* state before or after a step, only the table does.
LEMMA SaysTheSame ==
  ASSUME \A n \in Names \ revived' : Says(n)' = Says(n), revived \subseteq revived',
         up' = "up" => up = "up", UNCHANGED <<dirty, saving, file>>, FileInv
  PROVE  FileInv'
BY DEF FileInv, Agrees, Undated

\* Marking the registry is all that a change has to do for the file.
LEMMA FileKept ==
  ASSUME TypeOK, TypeOK', ProcessInv, FileInv, [Next]_vars
  PROVE  FileInv'
<1> USE DEF history
<1>1. ASSUME NEW n \in Names, Join(n) \/ Talk(n) \/ Leave(n) PROVE FileInv'
  <2>1. ASSUME NEW m \in Names PROVE Says(m)' = Says(m)
    <3>1. CASE m # n
      BY <1>1, <3>1 DEF Join, Talk, Leave, Says, Registered, ToRecord, TypeOK
    <3>2. CASE m = n /\ Join(n)
      BY <3>2, RecIsKept DEF Join, Says, Registered, ToRecord, TypeOK, Rec
    <3>3. CASE m = n /\ Talk(n)
      BY <3>3 DEF Talk, Says, Registered, ToRecord, TypeOK
    <3>4. CASE m = n /\ Leave(n)
      BY <3>4 DEF Leave, Says, Registered, ToRecord, TypeOK
    <3> QED
      BY <1>1, <3>1, <3>2, <3>3, <3>4
  <2>2. UNCHANGED <<dirty, saving, file, up, revived>>
    BY <1>1 DEF Join, Talk, Leave
  <2> QED
    BY <2>1, <2>2, SaysTheSame
<1>2. ASSUME dirty' PROVE FileInv'
  BY <1>2 DEF FileInv
<1>3. CASE Reload
  <2>1. \A n \in Names \ revived' : table'[n] = table[n]
    BY <1>3 DEF Reload
  <2>2. UNCHANGED <<dirty, saving, file, up>> /\ revived \subseteq revived'
    BY <1>3 DEF Reload
  <2> QED
    BY <2>1, <2>2, SaysTheSame DEF Says, Registered, ToRecord
<1>4. CASE Tick
  BY <1>4, SaysTheSame DEF Tick, Says, Registered, ToRecord
<1>5. ASSUME Copy("reaper"), UNCHANGED up PROVE FileInv'
  <2>1. saving'["reaper"] = Snapshot /\ UNCHANGED <<table, revived>>
    BY <1>5 DEF Copy, TypeOK, Savers
  <2>2. Snapshot # Nil
    BY NilAssumption, RegistryAssumption
    DEF TypeOK, Snapshot, Registered, ToRecord, Records, Times
  <2>3. \A n \in Names : Undated(saving'["reaper"])[n] = Says(n)'
    BY <2>1, CopySays DEF Undated, Says, Registered, ToRecord
  <2> QED
    BY <2>1, <2>2, <2>3 DEF FileInv, Agrees
<1>6. CASE StopFlush \/ Close \/ Exit \/ Crash
  BY <1>6 DEF StopFlush, Copy, Close, Exit, Crash, FileInv
<1>7. ASSUME Write("reaper") PROVE FileInv'
  <2>1. file' = saving["reaper"] /\ saving'["reaper"] = Nil /\ saving["reaper"] # Nil
    BY <1>7 DEF Write, TypeOK, Savers
  <2>2. UNCHANGED <<table, dirty, up, revived>>
    BY <1>7 DEF Write
  <2> QED
    BY <2>1, <2>2 DEF FileInv, Agrees, Undated, Says, Registered, ToRecord
<1>8. ASSUME Write("stop") PROVE FileInv'
  BY <1>8 DEF Write, FileInv
<1>9. CASE Start
  <2>1. saving'["reaper"] = Nil /\ UNCHANGED file /\ table' = Loaded /\ revived' = {}
    BY <1>9 DEF Start, ProcessInv, Savers
  <2>2. ASSUME ~dirty', NEW n \in Names PROVE Undated(file)[n] = Says(n)'
    <3>1. file[n] = Nil => n \notin Default
      BY <1>9, <2>2 DEF Start
    <3>2. CASE file[n] = Nil
      BY <2>1, <3>1, <3>2 DEF Loaded, Says, Registered, ToRecord, Undated
    <3>3. CASE file[n] # Nil
      <4>1. table'[n] = FromRecord(file[n])
        BY <2>1, <3>3 DEF Loaded
      <4>2. table'[n] # Nil
        BY <3>3, <4>1, RecIsKept DEF TypeOK, Dated, Times, FromRecord
      <4>3. file[n] \in [founded: BOOLEAN, edit: 0 .. MaxEdits, used: Times]
        BY <3>3 DEF TypeOK, Dated
      <4>4. ToRecord(table'[n]) = file[n]
        BY <4>1, <4>3 DEF FromRecord, ToRecord, Rec
      <4>5. Registered(n)' /\ Undated(file)[n] = [file[n] EXCEPT !.used = 0]
        BY <3>3, <4>1, <4>2 DEF Registered, FromRecord, Rec, Undated
      <4> QED
        BY <4>4, <4>5 DEF Says, ToRecord
    <3> QED
      BY <3>2, <3>3
  <2> QED
    BY <2>1, <2>2 DEF FileInv, Agrees, Undated
<1>10. CASE UNCHANGED vars
  BY <1>10, SaysTheSame DEF vars, Says, Registered, ToRecord
<1>11. ASSUME NEW n \in Names, Register(n) \/ Edit(n) \/ Unregister(n) PROVE FileInv'
  BY <1>2, <1>11 DEF Register, Edit, Unregister
<1>12. CASE Prune \/ \E sv \in Savers : Fail(sv)
  BY <1>2, <1>12 DEF Prune, Fail
<1> QED
  BY <1>1, <1>3, <1>4, <1>5, <1>6, <1>7, <1>8, <1>9, <1>10, <1>11, <1>12
  DEF Next, RoomStep, ReaperCopies, Savers

-----------------------------------------------------------------------------
\* The theorems

RegistryInv == TypeOK /\ ProcessInv /\ FileInv

\* All of it holds for ever.
LEMMA RegistryInvHolds == Spec => []RegistryInv
<1>1. Init => RegistryInv
  <2> SUFFICES ASSUME Init PROVE RegistryInv
    OBVIOUS
  <2> USE RegistryAssumption DEF Init, Savers
  <2>1. TypeOK
    <3>1. 0 \in 0 .. MaxEdits /\ 0 \in 0 .. Horizon
      OBVIOUS
    <3>2. /\ table \in [Names -> [registered: BOOLEAN, founded: BOOLEAN,
                                  edit: 0 .. MaxEdits, used: Times] \cup {Nil}]
          /\ file \in [Names -> Dated] /\ lastUse \in [Names -> Times]
      BY <3>1 DEF Dated, Times
    <3>3. saving \in [Savers -> [Names -> Dated] \cup {Nil}]
      OBVIOUS
    <3> QED
      BY <3>1, <3>2, <3>3 DEF TypeOK, Times
  <2>2. ProcessInv /\ FileInv
    BY DEF ProcessInv, FileInv
  <2> QED
    BY <2>1, <2>2 DEF RegistryInv
<1>2. RegistryInv /\ [Next]_vars => RegistryInv'
  BY TypesKept, ProcessKept, FileKept DEF RegistryInv
<1> QED
  BY <1>1, <1>2, PTL DEF Spec

\* Every variable keeps its type, and a room somebody is in is in the table,
\* through prunes, reloads, saves and crashes.
THEOREM TypeCorrect == Spec => []TypeOK
<1>1. RegistryInv => TypeOK
  BY DEF RegistryInv
<1> QED
  BY <1>1, RegistryInvHolds, PTL

\* While the hub is up, rooms.toml holds what the table holds, or the registry
\* is marked for a save, or the reaper is writing: whatever saves fail, rooms
\* are pruned or changes come while a copy is being written.
THEOREM FileAgrees == Spec => []FileAgreesUnlessMarked
<1>1. RegistryInv => FileAgreesUnlessMarked
  BY CopySays DEF RegistryInv, FileInv, Agrees, FileAgreesUnlessMarked
<1> QED
  BY <1>1, RegistryInvHolds, PTL

\* A Join or a message leaves every room as registered as it was.
LEMMA StillRegistered ==
  ASSUME TypeOK, NEW n \in Names, Join(n) \/ Talk(n), NEW d \in Names, Registered(d)
  PROVE  Registered(d)'
<1>1. CASE d # n
  BY <1>1 DEF Join, Talk, Registered, TypeOK
<1>2. CASE d = n
  <2>1. table[n] \in Kept
    BY <1>2 DEF TypeOK, Registered, Kept, Times
  <2>2. table' = [table EXCEPT ![n] = [table[n] EXCEPT !.used = clock]]
    BY <1>2 DEF Join, Talk, Registered
  <2>3. [table[n] EXCEPT !.used = clock] \in Kept
    BY <2>1 DEF Kept, TypeOK, Times
  <2>4. table'[n] \in Kept /\ table'[n].registered = table[n].registered
    BY <2>1, <2>2, <2>3 DEF TypeOK, Kept
  <2> QED
    BY <1>2, <2>4, NilAssumption, RegistryAssumption DEF Registered, Kept, Rooms
<1> QED
  BY <1>1, <1>2

\* A room that is loaded from the file is registered.
LEMMA LoadedIsRegistered ==
  ASSUME TypeOK, NEW d \in Names, file[d] # Nil
  PROVE  FromRecord(file[d]) # Nil /\ FromRecord(file[d]).registered
BY RecIsKept DEF TypeOK, Dated, Times, FromRecord, Rec

\* Every default room is in the table and registered for as long as the hub is
\* up, whatever file the hub found when it started: no prune, /reload, save or
\* command removes it, but for the /unregister of a founder it had from before.
THEOREM DefaultsStand == Spec => []DefaultRoomsStand
<1>1. Init => DefaultRoomsStand
  BY DEF Init, DefaultRoomsStand
<1>2. ASSUME RegistryInv, RegistryInv', DefaultRoomsStand, [Next]_vars
      PROVE  DefaultRoomsStand'
  <2> USE <1>2 DEF RegistryInv
  <2>1. Default \subseteq Names
    BY RegistryAssumption
  <2>2. ASSUME UNCHANGED <<table, up, given>> PROVE DefaultRoomsStand'
    BY <2>2 DEF DefaultRoomsStand, Registered
  <2>3. ASSUME up' # "up" PROVE DefaultRoomsStand'
    BY <2>3 DEF DefaultRoomsStand
  <2>4. ASSUME up = "up", \A d \in Default \ given' : Registered(d) => Registered(d)',
               \A d \in Default \ given' : d \in given => Registered(d)'
        PROVE  DefaultRoomsStand'
    BY <2>4 DEF DefaultRoomsStand
  <2>5. ASSUME NEW n \in Names, Join(n) \/ Talk(n) PROVE DefaultRoomsStand'
    <3>1. up = "up" /\ given' = given
      BY <2>5 DEF Join, Talk
    <3> QED
      BY <2>1, <2>4, <2>5, <3>1, StillRegistered
  <2>6. ASSUME NEW n \in Names, Leave(n) PROVE DefaultRoomsStand'
    <3>1. table' = [d \in Names |-> IF d = n /\ ~table[n].registered THEN Nil ELSE table[d]]
      BY <2>6 DEF Leave, TypeOK
    <3>2. \A d \in Names : Registered(d) => table'[d] = table[d]
      BY <3>1 DEF Registered
    <3>3. up = "up" /\ given' = given
      BY <2>6 DEF Leave, history
    <3> QED
      BY <2>1, <2>4, <3>2, <3>3 DEF Registered
  <2>7. ASSUME NEW n \in Names, Register(n) \/ Edit(n) PROVE DefaultRoomsStand'
    <3>1. PICK f \in BOOLEAN : table' = [table EXCEPT ![n] = Rec(TRUE, f, edits', clock)]
      <4>1. CASE Register(n)
        BY <4>1 DEF Register
      <4>2. CASE Edit(n)
        <5>1. table[n].founded \in BOOLEAN
          BY <4>2 DEF Edit, Registered, TypeOK
        <5> QED
          BY <4>2, <5>1 DEF Edit
      <4> QED
        BY <2>7, <4>1, <4>2
    <3>2. edits' \in 0 .. MaxEdits /\ clock \in 0 .. Horizon
      BY DEF TypeOK, Times
    <3>3. Rec(TRUE, f, edits', clock) # Nil /\ Rec(TRUE, f, edits', clock).registered
      BY <3>2, RecIsKept DEF Rec
    <3>4. table' = [m \in Names |-> IF m = n THEN Rec(TRUE, f, edits', clock) ELSE table[m]]
      BY <3>1 DEF TypeOK
    <3>5. Registered(n)' /\ \A d \in Names : Registered(d) => Registered(d)'
      BY <3>3, <3>4 DEF Registered
    <3>6. up = "up" /\ given \subseteq given' \cup {n}
      BY <2>7 DEF Register, Edit
    <3> QED
      BY <2>1, <2>4, <3>5, <3>6
  <2>8. ASSUME NEW n \in Names, Unregister(n) PROVE DefaultRoomsStand'
    <3>1. \A d \in Names \ {n} : table'[d] = table[d]
      BY <2>8 DEF Unregister, TypeOK
    <3>2. up = "up" /\ given' = given \cup ({n} \cap Default)
      BY <2>8 DEF Unregister
    <3> QED
      BY <2>1, <2>4, <3>1, <3>2 DEF Registered
  <2>9. CASE Reload
    <3> DEFINE back == {n \in Names : table[n] = Nil /\ file[n] # Nil}
    <3>1. /\ table' = [n \in Names |-> IF n \in back THEN FromRecord(file[n]) ELSE table[n]]
          /\ given' = given \ back
      BY <2>9 DEF Reload
    <3>2. \A d \in back : Registered(d)'
      BY <3>1, LoadedIsRegistered DEF Registered
    <3>3. \A d \in Names \ back : table'[d] = table[d]
      BY <3>1
    <3>4. up = "up" /\ given \subseteq given' \cup back
      BY <2>9, <3>1 DEF Reload
    <3> QED
      BY <2>1, <2>4, <3>2, <3>3, <3>4 DEF Registered
  <2>10. CASE Prune
    <3>1. \A d \in Default : table'[d] = table[d]
      BY <2>1, <2>10 DEF Prune, Stale
    <3>2. given' = given /\ up' = up
      BY <2>10 DEF Prune, history
    <3> QED
      BY <3>1, <3>2 DEF DefaultRoomsStand, Registered
  <2>11. CASE Start
    <3>1. ASSUME NEW d \in Default PROVE Registered(d)'
      <4>1. d \in Names /\ table' = Loaded
        BY <2>1, <2>11 DEF Start
      <4>2. CASE file[d] # Nil
        BY <4>1, <4>2, LoadedIsRegistered DEF Loaded, Registered
      <4>3. CASE file[d] = Nil
        <5>1. table'[d] = Rec(TRUE, FALSE, 0, clock)
          BY <4>1, <4>3 DEF Loaded
        <5>2. 0 \in 0 .. MaxEdits /\ clock \in 0 .. Horizon
          BY RegistryAssumption DEF TypeOK, Times
        <5>3. table'[d] # Nil
          BY <5>1, <5>2, RecIsKept
        <5> QED
          BY <5>1, <5>3 DEF Rec, Registered
      <4> QED
        BY <4>2, <4>3
    <3> QED
      BY <3>1 DEF DefaultRoomsStand
  <2>12. CASE Tick \/ ReaperCopies \/ UNCHANGED vars
    BY <2>2, <2>12 DEF Tick, ReaperCopies, Copy, vars, history
  <2>13. ASSUME NEW sv \in Savers, Write(sv) \/ Fail(sv) PROVE DefaultRoomsStand'
    BY <2>2, <2>3, <2>13 DEF Write, Fail, history
  <2>14. CASE StopFlush \/ Close \/ Exit \/ Crash
    BY <2>3, <2>14 DEF StopFlush, Copy, Close, Exit, Crash
  <2> QED
    BY <2>5, <2>6, <2>7, <2>8, <2>9, <2>10, <2>11, <2>12, <2>13, <2>14 DEF Next, RoomStep
<1> QED
  BY <1>1, <1>2, RegistryInvHolds, PTL DEF Spec
=============================================================================
