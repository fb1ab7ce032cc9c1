-------------------------- MODULE Transcript_proofs --------------------------
(***************************************************************************)
(* Proofs about Transcript for any rooms, sizes, window and caps.          *)
(*                                                                         *)
(* SoundInv carries them: the records a room's files hold ascend by day    *)
(* and in each file, and their ids are the end of what was recorded since  *)
(* the room was made (Ends).  A record comes last and with a higher id     *)
(* than all others (AppendIsSound); whatever expiry and the two caps take  *)
(* is older than what stays (WithoutIsSound); a power cut takes the end of *)
(* the newest file and of the conversation alike (CutIsSound).  The same   *)
(* invariant shows that a new room or a purge has no records to drop when  *)
(* nothing was said, so that only a prune expires any (OnlyPruneExpires).  *)
(*                                                                         *)
(* Folds and FlattenSeq are functions defined by CHOOSE; that the function *)
(* exists is shown by induction on a set of numbers (SetInduction), which  *)
(* rests on Nat being well-founded and takes no operator.                  *)
(***************************************************************************)
EXTENDS Transcript, FiniteSetTheorems, SequenceTheorems, WellFoundedInduction, TLAPS

-----------------------------------------------------------------------------
\* Least and greatest numbers

\* A set of natural numbers has a least element.
LEMMA NatMin ==
  ASSUME NEW T, T \subseteq Nat, T # {}
  PROVE  \E x \in T : \A y \in T : x <= y
<1> DEFINE R == OpToRel(<, Nat)
<1>1. IsWellFoundedOn(R, Nat)
  BY NatLessThanWellFounded
<1>2. PICK x \in T : \A y \in T : ~ (<<y, x>> \in R)
  <2> HIDE DEF R
  <2> QED BY <1>1, WFMin
<1>3. \A y, z \in Nat : y < z => <<y, z>> \in R
  BY Zenon DEF OpToRel
<1> HIDE DEF R
<1>4. \A y \in T : ~ (y < x)
  BY <1>2, <1>3
<1> QED
  BY <1>4

\* What holds of 0 and of the successor of each number it holds of, holds of all.
LEMMA SetInduction ==
  ASSUME NEW S, 0 \in S, \A n \in Nat : n \in S => n + 1 \in S
  PROVE  Nat \subseteq S
<1> SUFFICES ASSUME Nat \ S # {} PROVE FALSE
  OBVIOUS
<1>1. PICK x \in Nat \ S : \A y \in Nat \ S : x <= y
  BY NatMin
<1>2. x # 0 /\ x - 1 \in Nat /\ x - 1 \in S
  BY <1>1
<1> QED
  BY <1>1, <1>2

\* What Min and Max choose.
LEMMA MinIs ==
  ASSUME NEW S, S \subseteq Nat, S # {}
  PROVE  Min(S) \in S /\ \A y \in S : Min(S) <= y
BY NatMin DEF Min

LEMMA MaxIs ==
  ASSUME NEW S, NEW b \in Nat, S \subseteq 0 .. b, S # {}
  PROVE  Max(S) \in S /\ \A y \in S : y <= Max(S)
<1> DEFINE T == {y \in Nat : \E x \in S : y = b - x}
<1>1. T \subseteq Nat /\ T # {}
  <2>1. PICK x \in S : TRUE
    OBVIOUS
  <2>2. b - x \in T
    BY <2>1
  <2> QED
    BY <2>2
<1>2. PICK t \in T : \A y \in T : t <= y
  BY <1>1, NatMin
<1>3. PICK m \in S : t = b - m
  BY <1>2
<1>4. ASSUME NEW y \in S PROVE m >= y
  <2>1. b - y \in T
    OBVIOUS
  <2>2. t <= b - y
    BY <1>2, <2>1
  <2> QED
    BY <1>3, <2>2
<1>5. \E x \in S : \A y \in S : x >= y
  BY <1>4
<1>6. Max(S) \in S /\ \A y \in S : Max(S) >= y
  BY <1>5 DEF Max
<1> QED
  BY <1>6

-----------------------------------------------------------------------------
\* The invariant

\* What a file may hold, and a room's files.
Entries == Record \cup {Torn}
Dirs == [Days -> Seq(Entries)]

\* The ids of the records a room's files hold.
Ids(f) == {x \in Nat : \E d \in Days : \E i \in DOMAIN f[d] : f[d][i] # Torn /\ f[d][i].id = x}

Ascends(q) == \A i, j \in DOMAIN q : i < j => q[i] < q[j]

\* The records of a room's files are in order, by day and in each file.
Ordered(f) ==
  \A d, e \in Days : \A i \in DOMAIN f[d], j \in DOMAIN f[e] :
    (d < e \/ (d = e /\ i < j)) /\ f[d][i] # Torn /\ f[e][j] # Torn => f[d][i].id < f[e][j].id

\* They are the end of what was recorded: each was, and so was all that follows.
Ends(f, q) ==
  /\ \A x \in Ids(f) : \E k \in DOMAIN q : q[k] = x
  /\ \A k, l \in DOMAIN q : k < l /\ q[k] \in Ids(f) => q[l] \in Ids(f)

Sound(f, q) == Ascends(q) /\ Ordered(f) /\ Ends(f, q)

Types ==
  /\ store \in [Names -> Dirs] /\ said \in [Names -> Seq(1 .. count)]
  /\ room \in [Names -> {"none", "open", "registered"}]
  /\ relayed \subseteq Names /\ Cardinality(relayed) <= 1
  /\ (relayed # {} => count < MaxRecords)
  /\ clock \in 0 .. Horizon /\ cuts \in 0 .. MaxCuts /\ count \in 0 .. MaxRecords

\* A record lies in the file of its day, and no file is of a day to come.
FiledByDay ==
  \A n \in Names, d \in Days :
    /\ \A i \in DOMAIN store[n][d] : store[n][d][i] # Torn => Day(store[n][d][i].at) = d
    /\ store[n][d] # <<>> => d <= Today

SoundInv == \A n \in Names : Sound(store[n], said[n])

-----------------------------------------------------------------------------
\* Days

\* Days are counted in order, and a day lasts TicksPerDay.
LEMMA DayOrder ==
  ASSUME NEW a \in Int, NEW b \in Int
  PROVE  /\ Day(a) \in Int
         /\ a <= b => Day(a) <= Day(b)
         /\ Day(a) >= Day(b) => a + TicksPerDay > b
BY TranscriptAssumption DEF Day

\* Days are the numbers up to the last, and every date has its day.
LEMMA DaysAre ==
  /\ \E last \in Nat : Days = 0 .. last
  /\ \A t \in 0 .. Horizon : Day(t) \in Days
<1>1. 0 \in Int /\ Horizon \in Int
  BY TranscriptAssumption
<1>2. Day(0) = 0
  BY TranscriptAssumption DEF Day
<1>3. ASSUME NEW t \in 0 .. Horizon PROVE Day(t) \in Int /\ 0 <= Day(t) /\ Day(t) <= Day(Horizon)
  BY <1>1, <1>2, DayOrder, TranscriptAssumption
<1>4. Day(Horizon) \in Nat
  BY <1>3, TranscriptAssumption
<1>5. Days = 0 .. Day(Horizon)
  BY DEF Days, Day
<1> QED
  BY <1>3, <1>4, <1>5

-----------------------------------------------------------------------------
\* Parts of a sequence

\* The first n of a sequence.
LEMMA FrontIs ==
  ASSUME NEW X, NEW q \in Seq(X), NEW n \in 0 .. Len(q)
  PROVE  /\ SubSeq(q, 1, n) \in Seq(X) /\ Len(SubSeq(q, 1, n)) = n
         /\ DOMAIN SubSeq(q, 1, n) = 1 .. n
         /\ \A i \in 1 .. n : SubSeq(q, 1, n)[i] = q[i]
OBVIOUS

\* Before takes a sequence up to the first of the things.
LEMMA BeforeIs ==
  ASSUME NEW X, NEW q \in Seq(X), NEW things
  PROVE  \E m \in Nat \ {0} :
           /\ m <= Len(q) + 1 /\ Before(q, things) = SubSeq(q, 1, m - 1)
           /\ Before(q, things) \in Seq(X) /\ DOMAIN Before(q, things) = 1 .. m - 1
           /\ \A i \in 1 .. m - 1 : i \in DOMAIN q /\ Before(q, things)[i] = q[i]
           /\ \A i \in 1 .. m - 1 : q[i] \notin things
           /\ m <= Len(q) => q[m] \in things
<1> DEFINE S == {i \in 1 .. Len(q) : q[i] \in things} \cup {Len(q) + 1}
<1>1. S \subseteq Nat /\ S # {} /\ Len(q) \in Nat
  OBVIOUS
<1>2. Min(S) \in S /\ \A y \in S : Min(S) <= y
  BY <1>1, MinIs
<1>3. Before(q, things) = SubSeq(q, 1, Min(S) - 1)
  BY DEF Before
<1> DEFINE m == Min(S)
<1>4. m \in Nat \ {0} /\ m <= Len(q) + 1 /\ (m <= Len(q) => q[m] \in things)
  BY <1>1, <1>2
<1>5. ASSUME NEW i \in 1 .. m - 1 PROVE q[i] \notin things
  <2>1. i \in 1 .. Len(q) /\ ~ (m <= i)
    BY <1>1, <1>4
  <2> QED
    BY <1>2, <2>1
<1> HIDE DEF m
<1>6. m - 1 \in 0 .. Len(q) /\ DOMAIN q = 1 .. Len(q)
  BY <1>1, <1>4
<1> DEFINE p == SubSeq(q, 1, m - 1)
<1>7. /\ p \in Seq(X) /\ DOMAIN p = 1 .. m - 1
      /\ \A i \in 1 .. m - 1 : p[i] = q[i]
  BY <1>6, FrontIs
<1>8. \A i \in 1 .. m - 1 : i \in DOMAIN q
  BY <1>4, <1>6
<1>9. Before(q, things) = p
  BY <1>3 DEF m
<1> HIDE DEF p
<1>10. p = SubSeq(q, 1, m - 1)
  BY DEF p
<1> QED
  BY <1>4, <1>5, <1>7, <1>8, <1>9, <1>10

-----------------------------------------------------------------------------
\* What keeps a room's files the end of what was recorded

\* What a step does to the file of a day.
Added(f, d, rec) == [f EXCEPT ![d] = Append(@, rec)]
Extended(f, d, part) == [f EXCEPT ![d] = @ \o part]
CutOff(f, d, k) == [f EXCEPT ![d] = SubSeq(@, 1, k)]

\* A record in a file has an id.
LEMMA HeldIsRecord ==
  ASSUME NEW f \in Dirs, NEW d \in Days, NEW i \in DOMAIN f[d], f[d][i] # Torn
  PROVE  f[d][i] \in Record /\ f[d][i].id \in Nat /\ f[d][i].id \in Ids(f)
<1>1. f[d] \in Seq(Entries)
  BY DEF Dirs
<1>2. f[d][i] \in Entries
  BY <1>1
<1>3. f[d][i] \in Record
  BY <1>2 DEF Entries
<1>4. f[d][i].id \in Nat
  BY <1>3, TranscriptAssumption DEF Record
<1> QED
  BY <1>3, <1>4 DEF Ids

\* A room without files holds the end of anything, so of nothing.
LEMMA EmptyIsSound == NoFiles \in Dirs /\ Sound(NoFiles, <<>>)
BY DEF NoFiles, Dirs, Sound, Ascends, Ordered, Ends, Ids

\* Files may go that are older than those that stay.
LEMMA WithoutIsSound ==
  ASSUME NEW f \in Dirs, NEW q \in Seq(Nat), Sound(f, q), NEW ds,
         \A d \in Days, e \in Days : d \in ds /\ e \notin ds /\ f[d] # <<>> /\ f[e] # <<>> => d < e
  PROVE  Sound(Without(f, ds), q)
<1> DEFINE g == Without(f, ds)
<1>1. \A d \in Days : /\ g[d] = IF d \in ds THEN <<>> ELSE f[d]
                      /\ \A i \in DOMAIN g[d] : d \notin ds
  BY DEF Without
<1> HIDE DEF g
<1>2. Ordered(g)
  BY <1>1 DEF Sound, Ordered
<1>3. Ids(g) \subseteq Ids(f)
  BY <1>1 DEF Ids
<1>4. ASSUME NEW k \in DOMAIN q, NEW l \in DOMAIN q, k < l, q[k] \in Ids(g)
      PROVE  q[l] \in Ids(g)
  <2>1. PICK d \in Days : \E i \in DOMAIN g[d] : g[d][i] # Torn /\ g[d][i].id = q[k]
    BY <1>4 DEF Ids
  <2>2. PICK i \in DOMAIN g[d] : g[d][i] # Torn /\ g[d][i].id = q[k]
    BY <2>1
  <2>3. d \notin ds /\ g[d] = f[d]
    BY <1>1, <2>2
  <2>4. q[l] \in Ids(f)
    BY <1>3, <1>4 DEF Sound, Ends
  <2>5. PICK e \in Days : \E j \in DOMAIN f[e] : f[e][j] # Torn /\ f[e][j].id = q[l]
    BY <2>4 DEF Ids
  <2>6. PICK j \in DOMAIN f[e] : f[e][j] # Torn /\ f[e][j].id = q[l]
    BY <2>5
  <2>7. q[k] < q[l] /\ q[k] \in Nat /\ q[l] \in Nat
    BY <1>4 DEF Sound, Ascends
  <2>8. e \notin ds
    <3> SUFFICES ASSUME e \in ds PROVE FALSE
      OBVIOUS
    <3>1. f[d] # <<>> /\ f[e] # <<>>
      BY <2>2, <2>3, <2>6
    <3>2. e < d
      BY <2>3, <3>1
    <3>3. f[e][j].id < f[d][i].id
      BY <2>2, <2>3, <2>6, <3>2 DEF Sound, Ordered
    <3> QED
      BY <2>2, <2>3, <2>6, <2>7, <3>3
  <2>9. g[e] = f[e]
    BY <1>1, <2>8
  <2> QED
    BY <2>4, <2>6, <2>9 DEF Ids
<1>5. Ends(g, q)
  BY <1>3, <1>4 DEF Sound, Ends
<1> QED
  BY <1>2, <1>5 DEF Sound, g

\* Files without some of them are files.
LEMMA WithoutType ==
  ASSUME NEW f \in Dirs, NEW ds
  PROVE  Without(f, ds) \in Dirs
BY DEF Without, Dirs

\* What is added at the end of the newest file, or to a file of a later day, is
\* a record with a higher id than all others, or half a record.
LEMMA AppendIsSound ==
  ASSUME NEW f \in Dirs, NEW q \in Seq(Nat), Sound(f, q), NEW t \in Days,
         \A d \in Days : f[d] # <<>> => d <= t,
         NEW rec \in Record, \A k \in DOMAIN q : q[k] < rec.id
  PROVE  /\ Added(f, t, rec) \in Dirs /\ Sound(Added(f, t, rec), Append(q, rec.id))
         /\ \A d \in Days : \A i \in DOMAIN Added(f, t, rec)[d] :
              \/ i \in DOMAIN f[d] /\ Added(f, t, rec)[d][i] = f[d][i]
              \/ d = t /\ Added(f, t, rec)[d][i] = rec
<1> DEFINE g == Added(f, t, rec)
           p == Append(q, rec.id)
<1>1. /\ rec \in Entries /\ rec # Torn /\ rec.id \in Nat /\ f[t] \in Seq(Entries)
      /\ \A d \in Days : f[d] \in Seq(Entries)
  BY TornAssumption, TranscriptAssumption DEF Entries, Record, Dirs
<1>2. g \in Dirs
  BY <1>1 DEF Dirs, Added
<1>3. /\ \A d \in Days \ {t} : g[d] = f[d]
      /\ g[t] = Append(f[t], rec)
  BY DEF Dirs, Added
<1>4. /\ Len(f[t]) \in Nat /\ DOMAIN f[t] = 1 .. Len(f[t]) /\ DOMAIN g[t] = 1 .. Len(f[t]) + 1
      /\ \A i \in DOMAIN f[t] : g[t][i] = f[t][i]
      /\ g[t][Len(f[t]) + 1] = rec
  BY <1>1, <1>3
<1>5. /\ Len(q) \in Nat /\ DOMAIN q = 1 .. Len(q) /\ DOMAIN p = 1 .. Len(q) + 1
      /\ \A k \in DOMAIN q : p[k] = q[k] /\ q[k] \in Nat
      /\ p[Len(q) + 1] = rec.id
  OBVIOUS
<1> HIDE DEF g, p
<1>6. ASSUME NEW d \in Days
       PROVE  /\ \A i \in DOMAIN f[d] : i \in DOMAIN g[d] /\ g[d][i] = f[d][i]
              /\ \A i \in DOMAIN g[d] : \/ i \in DOMAIN f[d] /\ g[d][i] = f[d][i]
                                        \/ d = t /\ i = Len(f[t]) + 1
  <2>1. CASE d = t
    <3>1. \A i \in DOMAIN f[t] : i \in DOMAIN g[t] /\ g[t][i] = f[t][i]
      BY <1>4
    <3>2. \A i \in DOMAIN g[t] : i \in DOMAIN f[t] \/ i = Len(f[t]) + 1
      BY <1>4
    <3> QED
      BY <2>1, <3>1, <3>2
  <2>2. CASE d # t
    <3>1. g[d] = f[d]
      BY <1>3, <2>2
    <3> QED
      BY <3>1
  <2> QED
    BY <2>1, <2>2
<1>7. Ascends(p)
  BY <1>1, <1>5 DEF Sound, Ascends
<1>8. ASSUME NEW d \in Days, NEW i \in DOMAIN f[d], f[d][i] # Torn PROVE f[d][i].id < rec.id
  <2>1. f[d][i].id \in Ids(f)
    BY <1>8, HeldIsRecord
  <2>2. PICK k \in DOMAIN q : q[k] = f[d][i].id
    BY <2>1 DEF Sound, Ends
  <2> QED
    BY <2>2
<1>9. Ordered(g)
  <2> SUFFICES ASSUME NEW d \in Days, NEW e \in Days, NEW i \in DOMAIN g[d], NEW j \in DOMAIN g[e],
                      d < e \/ (d = e /\ i < j), g[d][i] # Torn, g[e][j] # Torn
               PROVE  g[d][i].id < g[e][j].id
    BY DEF Ordered
  <2>1. i \in DOMAIN f[d] /\ g[d][i] = f[d][i]
    <3> SUFFICES ASSUME d = t, i = Len(f[t]) + 1 PROVE FALSE
      BY <1>6
    <3>1. CASE d = e
      <4>1. j \in DOMAIN g[t] /\ i < j
        BY <3>1, DaysAre
      <4>2. j \in 1 .. Len(f[t]) + 1
        BY <1>4, <4>1
      <4> QED
        BY <1>4, <4>1, <4>2
    <3>2. CASE d < e
      <4>1. e # t
        BY <3>2, DaysAre
      <4>2. j \in DOMAIN f[e]
        BY <1>6, <4>1
      <4>3. e <= t
        BY <4>2
      <4> QED
        BY <3>2, <4>3, DaysAre
    <3> QED
      BY <3>1, <3>2
  <2>2. CASE e = t /\ j = Len(f[t]) + 1
    BY <1>4, <1>8, <2>1, <2>2
  <2>3. CASE ~ (e = t /\ j = Len(f[t]) + 1)
    <3>1. j \in DOMAIN f[e] /\ g[e][j] = f[e][j]
      BY <1>6, <2>3
    <3> QED
      BY <2>1, <3>1 DEF Sound, Ordered
  <2> QED
    BY <2>2, <2>3
<1>10. Ids(g) = Ids(f) \cup {rec.id}
  <2>1. Ids(f) \subseteq Ids(g)
    BY <1>6 DEF Ids
  <2>2. rec.id \in Ids(g)
    <3>1. Len(f[t]) + 1 \in DOMAIN g[t]
      BY <1>4
    <3> QED
      BY <1>1, <1>4, <3>1 DEF Ids
  <2>3. ASSUME NEW x \in Ids(g) PROVE x \in Ids(f) \cup {rec.id}
    <3>1. PICK d \in Days : \E i \in DOMAIN g[d] : g[d][i] # Torn /\ g[d][i].id = x
      BY DEF Ids
    <3>2. PICK i \in DOMAIN g[d] : g[d][i] # Torn /\ g[d][i].id = x
      BY <3>1
    <3>3. CASE d = t /\ i = Len(f[t]) + 1
      BY <1>4, <3>2, <3>3
    <3>4. CASE ~ (d = t /\ i = Len(f[t]) + 1)
      <4>1. i \in DOMAIN f[d] /\ g[d][i] = f[d][i]
        BY <1>6, <3>4
      <4> QED
        BY <3>2, <4>1 DEF Ids
    <3> QED
      BY <3>3, <3>4
  <2> QED
    BY <2>1, <2>2, <2>3
<1>11. Ends(g, p)
  <2>1. ASSUME NEW x \in Ids(g) PROVE \E k \in DOMAIN p : p[k] = x
    <3>1. CASE x = rec.id
      <4>1. Len(q) + 1 \in DOMAIN p
        BY <1>5
      <4> QED
        BY <1>5, <3>1, <4>1
    <3>2. CASE x \in Ids(f)
      <4>1. PICK k \in DOMAIN q : q[k] = x
        BY <3>2 DEF Sound, Ends
      <4> QED
        BY <1>5, <4>1
    <3> QED
      BY <1>10, <3>1, <3>2
  <2>2. ASSUME NEW k \in DOMAIN p, NEW l \in DOMAIN p, k < l, p[k] \in Ids(g)
        PROVE  p[l] \in Ids(g)
    <3>1. CASE l = Len(q) + 1
      BY <1>5, <1>10, <3>1
    <3>2. CASE l # Len(q) + 1
      <4>1. k \in DOMAIN q /\ l \in DOMAIN q /\ p[k] = q[k] /\ p[l] = q[l]
        BY <1>5, <2>2, <3>2
      <4>2. q[k] \in Ids(f)
        BY <1>1, <1>10, <2>2, <4>1
      <4> QED
        BY <1>10, <2>2, <4>1, <4>2 DEF Sound, Ends
    <3> QED
      BY <3>1, <3>2
  <2> QED
    BY <2>1, <2>2 DEF Ends
<1>12. \A d \in Days : \A i \in DOMAIN g[d] :
         (i \in DOMAIN f[d] /\ g[d][i] = f[d][i]) \/ (d = t /\ g[d][i] = rec)
  BY <1>4, <1>6
<1> QED
  BY <1>2, <1>7, <1>9, <1>11, <1>12 DEF Sound, g, p

\* Half a record more disturbs nothing.
LEMMA TornIsSound ==
  ASSUME NEW f \in Dirs, NEW q, Sound(f, q), NEW t \in Days, NEW part \in {<<>>, <<Torn>>}
  PROVE  /\ Extended(f, t, part) \in Dirs /\ Sound(Extended(f, t, part), q)
         /\ \A d \in Days : \A i \in DOMAIN Extended(f, t, part)[d] :
              \/ i \in DOMAIN f[d] /\ Extended(f, t, part)[d][i] = f[d][i]
              \/ Extended(f, t, part)[d][i] = Torn
<1> DEFINE g == Extended(f, t, part)
<1>1. /\ part \in Seq(Entries) /\ f[t] \in Seq(Entries)
      /\ \A d \in Days : f[d] \in Seq(Entries)
  <2>1. <<>> \in Seq(Entries) /\ <<Torn>> \in Seq(Entries)
    BY DEF Entries
  <2> QED
    BY <2>1 DEF Dirs
<1>2. g \in Dirs
  BY <1>1 DEF Dirs, Extended
<1>3. /\ \A d \in Days \ {t} : g[d] = f[d]
      /\ g[t] = f[t] \o part
  BY DEF Dirs, Extended
<1>4. /\ \A i \in DOMAIN f[t] : i \in DOMAIN g[t] /\ g[t][i] = f[t][i]
      /\ \A i \in DOMAIN g[t] : \/ i \in DOMAIN f[t] /\ g[t][i] = f[t][i]
                                \/ g[t][i] = Torn
  <2>1. CASE part = <<>>
    <3>1. g[t] = f[t]
      BY <1>1, <1>3, <2>1
    <3> QED
      BY <3>1
  <2>2. CASE part = <<Torn>>
    <3>1. g[t] = Append(f[t], Torn)
      BY <1>1, <1>3, <2>2
    <3> QED
      BY <1>1, <3>1
  <2> QED
    BY <2>1, <2>2
<1> HIDE DEF g
<1>5. ASSUME NEW d \in Days
      PROVE  /\ \A i \in DOMAIN f[d] : i \in DOMAIN g[d] /\ g[d][i] = f[d][i]
             /\ \A i \in DOMAIN g[d] : \/ i \in DOMAIN f[d] /\ g[d][i] = f[d][i]
                                       \/ g[d][i] = Torn
  <2>1. CASE d = t
    BY <1>4, <2>1
  <2>2. CASE d # t
    <3>1. g[d] = f[d]
      BY <1>3, <2>2
    <3> QED
      BY <3>1
  <2> QED
    BY <2>1, <2>2
<1>6. Ordered(g)
  BY <1>5 DEF Sound, Ordered
<1>7. Ids(g) = Ids(f)
  <2>1. Ids(f) \subseteq Ids(g)
    BY <1>5 DEF Ids
  <2>2. Ids(g) \subseteq Ids(f)
    BY <1>5 DEF Ids
  <2> QED
    BY <2>1, <2>2
<1>8. Sound(g, q)
  BY <1>6, <1>7 DEF Sound, Ends
<1> QED
  BY <1>2, <1>5, <1>8 DEF g

\* A power cut takes the end of the newest file, and what was recorded from the
\* first lost record on.
LEMMA CutIsSound ==
  ASSUME NEW f \in Dirs, NEW q \in Seq(Nat), Sound(f, q), NEW t \in Days,
         \A d \in Days : f[d] # <<>> => d <= t,
         NEW k \in 0 .. Len(f[t]), NEW lost,
         \A y : y \in lost <=> \E i \in k + 1 .. Len(f[t]) : f[t][i] # Torn /\ f[t][i].id = y
  PROVE  /\ CutOff(f, t, k) \in Dirs
         /\ Sound(CutOff(f, t, k), Before(q, lost)) /\ Before(q, lost) \in Seq(Nat)
<1> DEFINE g == CutOff(f, t, k)
<1>1. f[t] \in Seq(Entries) /\ Len(f[t]) \in Nat /\ DOMAIN f[t] = 1 .. Len(f[t])
  BY DEF Dirs
<1>2. /\ SubSeq(f[t], 1, k) \in Seq(Entries) /\ DOMAIN SubSeq(f[t], 1, k) = 1 .. k
      /\ \A i \in 1 .. k : SubSeq(f[t], 1, k)[i] = f[t][i]
  BY <1>1, FrontIs
<1>3. g \in Dirs
  BY <1>2 DEF Dirs, CutOff
<1>4. /\ \A d \in Days \ {t} : g[d] = f[d]
      /\ g[t] = SubSeq(f[t], 1, k)
  BY DEF Dirs, CutOff
<1> HIDE DEF g
<1>5. ASSUME NEW d \in Days
      PROVE  /\ \A i \in DOMAIN g[d] : i \in DOMAIN f[d] /\ g[d][i] = f[d][i] /\ (d = t => i <= k)
             /\ \A i \in DOMAIN f[d] : \/ i \in DOMAIN g[d] /\ g[d][i] = f[d][i]
                                       \/ d = t /\ k < i
  <2>1. CASE d = t
    <3>1. DOMAIN g[d] = 1 .. k /\ \A i \in 1 .. k : g[d][i] = f[d][i]
      BY <1>2, <1>4, <2>1
    <3>2. DOMAIN f[d] = 1 .. Len(f[d]) /\ Len(f[d]) \in Nat /\ k \in 0 .. Len(f[d])
      BY <1>1, <2>1
    <3> QED
      BY <2>1, <3>1, <3>2
  <2>2. CASE d # t
    <3>1. g[d] = f[d]
      BY <1>4, <2>2
    <3> QED
      BY <2>2, <3>1
  <2> QED
    BY <2>1, <2>2
<1>6. q \in Seq(Nat)
  OBVIOUS
<1>7. PICK m \in Nat \ {0} :
         /\ m <= Len(q) + 1 /\ Before(q, lost) = SubSeq(q, 1, m - 1)
         /\ Before(q, lost) \in Seq(Nat) /\ DOMAIN Before(q, lost) = 1 .. m - 1
         /\ \A i \in 1 .. m - 1 : i \in DOMAIN q /\ Before(q, lost)[i] = q[i]
         /\ \A i \in 1 .. m - 1 : q[i] \notin lost
         /\ m <= Len(q) => q[m] \in lost
  BY <1>6, BeforeIs
<1> DEFINE p == Before(q, lost)
<1>8. /\ m <= Len(q) + 1 /\ DOMAIN p = 1 .. m - 1
      /\ \A i \in 1 .. m - 1 : i \in DOMAIN q /\ p[i] = q[i] /\ q[i] \notin lost
      /\ m <= Len(q) => q[m] \in lost
  BY <1>7
<1>9. Len(q) \in Nat /\ DOMAIN q = 1 .. Len(q) /\ \A i \in DOMAIN q : q[i] \in Nat
  OBVIOUS
<1> HIDE DEF p
<1>10. Ascends(p)
  BY <1>8, <1>9 DEF Sound, Ascends
<1>11. Ordered(g)
  BY <1>5 DEF Sound, Ordered
<1>12. ASSUME NEW x \in Ids(g), NEW y \in lost PROVE x < y /\ x \in Ids(f) /\ y \in Nat
  <2>1. PICK d \in Days : \E i \in DOMAIN g[d] : g[d][i] # Torn /\ g[d][i].id = x
    BY DEF Ids
  <2>2. PICK i \in DOMAIN g[d] : g[d][i] # Torn /\ g[d][i].id = x
    BY <2>1
  <2>3. i \in DOMAIN f[d] /\ f[d][i] # Torn /\ f[d][i].id = x /\ (d = t => i <= k)
    BY <1>5, <2>2
  <2>4. PICK j \in k + 1 .. Len(f[t]) : f[t][j] # Torn /\ f[t][j].id = y
    BY <1>12
  <2>5. j \in DOMAIN f[t] /\ k < j
    BY <1>1, <2>4
  <2>6. d < t \/ (d = t /\ i < j)
    <3>1. d <= t
      BY <2>3
    <3>2. CASE d = t
      BY <1>1, <2>3, <2>5, <3>2
    <3>3. CASE d # t
      BY <3>1, <3>3, DaysAre
    <3> QED
      BY <3>2, <3>3
  <2> QED
    BY <2>3, <2>4, <2>5, <2>6, HeldIsRecord DEF Sound, Ordered
<1>13. ASSUME NEW x \in Ids(f), x \notin lost PROVE x \in Ids(g)
  <2>1. PICK d \in Days : \E i \in DOMAIN f[d] : f[d][i] # Torn /\ f[d][i].id = x
    BY DEF Ids
  <2>2. PICK i \in DOMAIN f[d] : f[d][i] # Torn /\ f[d][i].id = x
    BY <2>1
  <2>3. ~ (d = t /\ k < i)
    <3> SUFFICES ASSUME d = t, k < i PROVE FALSE
      OBVIOUS
    <3>1. i \in k + 1 .. Len(f[t])
      BY <1>1, <2>2
    <3> QED
      BY <1>13, <2>2, <3>1
  <2> QED
    BY <1>5, <2>2, <2>3 DEF Ids
<1>14. ASSUME NEW x \in Ids(g) PROVE \E i \in DOMAIN p : p[i] = x
  <2>1. x \in Ids(f)
    BY <1>5 DEF Ids
  <2>2. PICK i \in DOMAIN q : q[i] = x
    BY <2>1 DEF Sound, Ends
  <2>3. i < m
    <3> SUFFICES ASSUME m <= i PROVE FALSE
      BY <1>9
    <3>1. m <= Len(q) /\ m \in DOMAIN q
      BY <1>9
    <3>2. x < q[m]
      BY <1>8, <1>12, <3>1
    <3>3. m = i \/ q[m] < q[i]
      <4>1. m = i \/ m < i
        BY <1>9
      <4>2. Ascends(q)
        BY DEF Sound
      <4> QED
        BY <3>1, <4>1, <4>2 DEF Ascends
    <3> QED
      BY <1>8, <1>9, <2>2, <3>1, <3>2, <3>3
  <2>4. i \in DOMAIN p /\ p[i] = q[i]
    BY <1>8, <1>9, <2>3
  <2> QED
    BY <2>2, <2>4
<1>15. ASSUME NEW i \in DOMAIN p, NEW l \in DOMAIN p, i < l, p[i] \in Ids(g)
       PROVE  p[l] \in Ids(g)
  <2>1. i \in DOMAIN q /\ l \in DOMAIN q /\ p[i] = q[i] /\ p[l] = q[l]
    BY <1>8, <1>9
  <2>2. q[i] \in Ids(f)
    BY <1>5, <1>15, <2>1 DEF Ids
  <2>3. q[l] \in Ids(f)
    BY <1>15, <2>1, <2>2 DEF Sound, Ends
  <2>4. q[l] \notin lost
    BY <1>8, <1>9
  <2> QED
    BY <1>13, <2>1, <2>3, <2>4
<1>16. Ends(g, p)
  BY <1>14, <1>15 DEF Ends
<1> QED
  BY <1>3, <1>5, <1>10, <1>11, <1>16, <1>7 DEF Sound, p, g

-----------------------------------------------------------------------------
\* Which files go

\* The days in ds are older than the others of which there are files.
Older(f, ds) ==
  \A d \in Days, e \in Days : d \in ds /\ e \notin ds /\ f[d] # <<>> /\ f[e] # <<>> => d < e

\* Nothing goes without a day to go.
LEMMA WithoutNone == ASSUME NEW f \in Dirs PROVE Without(f, {}) = f
BY DEF Without, Dirs

\* The newest day of which there is a file.
LEMMA NewestIs ==
  ASSUME NEW f \in Dirs, HeldDays(f) # {}
  PROVE  /\ Max(HeldDays(f)) \in Days /\ f[Max(HeldDays(f))] # <<>>
         /\ \A d \in Days : f[d] # <<>> => d <= Max(HeldDays(f))
<1>1. PICK last \in Nat : Days = 0 .. last
  BY DaysAre
<1>2. HeldDays(f) \subseteq 0 .. last
  BY <1>1 DEF HeldDays
<1>3. Max(HeldDays(f)) \in HeldDays(f) /\ \A d \in HeldDays(f) : d <= Max(HeldDays(f))
  BY <1>2, MaxIs
<1> HIDE DEF HeldDays
<1> QED
  BY <1>3 DEF HeldDays

\* The room cap takes old files, and not the newest.
LEMMA CapRoomIs ==
  ASSUME NEW f \in Dirs
  PROVE  \E ds \in SUBSET Days :
           /\ CapRoom(f) = Without(f, ds) /\ Older(f, ds)
           /\ \A t \in Days : f[t] # <<>> /\ (\A d \in Days : f[d] # <<>> => d <= t) => t \notin ds
           /\ \/ HeldDays(f) = {}
              \/ RoomBytes(CapRoom(f)) <= MaxBytesPerRoom
              \/ \E t : HeldDays(CapRoom(f)) = {t}
           /\ RoomBytes(f) <= MaxBytesPerRoom => CapRoom(f) = f
<1>1. CASE HeldDays(f) = {}
  <2>1. CapRoom(f) = Without(f, {}) /\ CapRoom(f) = f
    BY <1>1, WithoutNone DEF CapRoom
  <2> QED
    BY <1>1, <2>1 DEF Older
<1>2. CASE HeldDays(f) # {}
  <2> DEFINE top == Max(HeldDays(f))
             fits(k) == \/ RoomBytes(Without(f, 0 .. (k - 1))) <= MaxBytesPerRoom
                        \/ k = top
             K == {k \in Days : fits(k)}
             m == Min(K)
             ds == 0 .. (m - 1)
  <2>1. /\ top \in Days /\ f[top] # <<>>
        /\ \A d \in Days : f[d] # <<>> => d <= top
    BY <1>2, NewestIs
  <2>2. CapRoom(f) = Without(f, ds)
    BY <1>2 DEF CapRoom
  <2>3. PICK last \in Nat : Days = 0 .. last
    BY DaysAre
  <2>4. K \subseteq Nat /\ top \in K
    BY <2>1, <2>3
  <2>5. m \in K /\ \A y \in K : m <= y
    BY <2>4, MinIs
  <2>6. m \in Days /\ fits(m) /\ m <= top
    BY <2>4, <2>5
  <2> HIDE DEF m, top
  <2>7. ds \in SUBSET Days /\ \A d \in Days : d \in ds <=> d < m
    BY <2>3, <2>6
  <2>8. Older(f, ds)
    BY <2>3, <2>6, <2>7 DEF Older
  <2>9. ASSUME NEW t \in Days, f[t] # <<>>, \A d \in Days : f[d] # <<>> => d <= t
        PROVE  t \notin ds
    <3>1. t = top
      BY <2>1, <2>3, <2>9
    <3> QED
      BY <2>3, <2>6, <2>7, <3>1
  <2>10. RoomBytes(CapRoom(f)) <= MaxBytesPerRoom \/ \E t : HeldDays(CapRoom(f)) = {t}
    <3>1. CASE RoomBytes(Without(f, ds)) <= MaxBytesPerRoom
      BY <2>2, <3>1
    <3>2. CASE m = top
      <4>1. ASSUME NEW d \in Days PROVE Without(f, ds)[d] # <<>> <=> d = top
        <5>1. Without(f, ds)[d] # <<>> <=> f[d] # <<>> /\ ~ (d < top)
          BY <2>7, <3>2 DEF Without
        <5> QED
          BY <2>1, <2>3, <5>1
      <4>2. HeldDays(Without(f, ds)) = {top}
        BY <2>1, <4>1 DEF HeldDays
      <4> QED
        BY <2>2, <4>2
    <3> QED
      BY <2>6, <3>1, <3>2
  <2>11. ASSUME RoomBytes(f) <= MaxBytesPerRoom PROVE CapRoom(f) = f
    <3>1. 0 .. (0 - 1) = {}
      OBVIOUS
    <3>2. 0 \in K
      BY <2>3, <2>11, <3>1, WithoutNone
    <3>3. m = 0
      BY <2>3, <2>5, <2>6, <3>2
    <3>4. ds = {}
      BY <3>1, <3>3
    <3> QED
      BY <2>2, <3>4, WithoutNone
  <2> HIDE DEF ds
  <2> QED
    BY <2>2, <2>7, <2>8, <2>9, <2>10, <2>11
<1> QED
  BY <1>1, <1>2

\* Nor without a file to go.
LEMMA AfterNone == ASSUME NEW st \in [Names -> Dirs] PROVE After(st, {}) = st
<1>1. ASSUME NEW n \in Names PROVE Without(st[n], {d \in Days : <<n, d>> \in {}}) = st[n]
  <2>1. {d \in Days : <<n, d>> \in {}} = {}
    OBVIOUS
  <2> QED
    BY <2>1, WithoutNone
<1> QED
  BY <1>1 DEF After

\* The total cap takes old files.
LEMMA CapTotalIs ==
  ASSUME NEW st \in [Names -> Dirs], NEW st2 \in CapTotal(st)
  PROVE  /\ \E fs : /\ st2 = After(st, fs)
                    /\ \A n \in Names : Older(st[n], {d \in Days : <<n, d>> \in fs})
         /\ TotalBytes(st2) <= MaxTotalBytes
         /\ TotalBytes(st) <= MaxTotalBytes => st2 = st
<1>1. CASE TotalBytes(st) <= MaxTotalBytes
  <2>1. st2 = st
    BY <1>1 DEF CapTotal
  <2>2. \A n \in Names : Older(st[n], {d \in Days : <<n, d>> \in {}})
    BY DEF Older
  <2>3. /\ st2 = After(st, {})
        /\ \A n \in Names : Older(st[n], {d \in Days : <<n, d>> \in {}})
    BY <2>1, <2>2, AfterNone, Zenon
  <2>4. \E fs : /\ st2 = After(st, fs)
                /\ \A n \in Names : Older(st[n], {d \in Days : <<n, d>> \in fs})
    BY <2>3, Zenon
  <2> QED
    BY <1>1, <2>1, <2>4
<1>2. CASE ~ (TotalBytes(st) <= MaxTotalBytes)
  <2>1. PICK gs \in SUBSET Files(st) :
          /\ st2 = After(st, gs) /\ TotalBytes(After(st, gs)) <= MaxTotalBytes
          /\ \A f \in gs, g \in Files(st) \ gs : f[2] <= g[2]
    BY <1>2 DEF CapTotal
  <2>2. ASSUME NEW n \in Names, NEW d \in Days, NEW e \in Days,
               <<n, d>> \in gs, <<n, e>> \notin gs, st[n][d] # <<>>, st[n][e] # <<>>
        PROVE  d < e
    <3>1. <<n, e>> \in Files(st) \ gs
      BY <2>2 DEF Files
    <3>2. <<n, d>>[2] <= <<n, e>>[2]
      BY <2>1, <2>2, <3>1, Zenon
    <3>3. d <= e /\ d # e
      BY <2>2, <3>2
    <3> QED
      BY <3>3, DaysAre
  <2>3. \A n \in Names : Older(st[n], {d \in Days : <<n, d>> \in gs})
    BY <2>2 DEF Older
  <2> QED
    BY <1>2, <2>1, <2>3
<1> QED
  BY <1>1, <1>2

\* So whatever a prune takes from a room is older than what it leaves.
LEMMA PruneLeaves ==
  ASSUME Types, PruneStore, NEW n \in Names
  PROVE  /\ store' \in [Names -> Dirs]
         /\ \A q \in Seq(Nat) : Sound(store[n], q) => Sound(store'[n], q)
         /\ \A d \in Days : store'[n][d] = <<>> \/ store'[n][d] = store[n][d]
<1> DEFINE a == [m \in Names |-> Without(store[m], ExpiredDays)]
           b == [m \in Names |-> CapRoom(a[m])]
<1>1. a \in [Names -> Dirs]
  BY WithoutType DEF Types
<1>2. b \in [Names -> Dirs]
  BY <1>1, CapRoomIs, WithoutType
<1>3. b = [m \in Names |-> CapRoom(Without(store[m], ExpiredDays))]
  OBVIOUS
<1>4. store' \in CapTotal(b)
  BY <1>3 DEF PruneStore
<1>5. a[n] = Without(store[n], ExpiredDays) /\ b[n] = CapRoom(a[n])
  OBVIOUS
<1> HIDE DEF a, b
<1>6. PICK fs : /\ store' = After(b, fs)
                /\ \A m \in Names : Older(b[m], {d \in Days : <<m, d>> \in fs})
  BY <1>2, <1>4, CapTotalIs
<1> DEFINE gone == {d \in Days : <<n, d>> \in fs}
<1>7. store'[n] = Without(b[n], gone) /\ Older(b[n], gone)
  BY <1>6 DEF After
<1>8. store' \in [Names -> Dirs]
  BY <1>2, <1>6, WithoutType DEF After
<1>9. PICK ds \in SUBSET Days : b[n] = Without(a[n], ds) /\ Older(a[n], ds)
  BY <1>1, <1>5, CapRoomIs
<1>10. Older(store[n], ExpiredDays)
  <2>1. Day(clock - Retention) \in Int
    BY DayOrder, TranscriptAssumption DEF Types
  <2> QED
    BY <2>1, DaysAre DEF Older, ExpiredDays
<1> HIDE DEF gone
<1>11. ASSUME NEW q \in Seq(Nat), Sound(store[n], q) PROVE Sound(store'[n], q)
  <2>1. Sound(a[n], q)
    BY <1>5, <1>10, <1>11, WithoutIsSound DEF Types, Older
  <2>2. Sound(b[n], q)
    BY <1>1, <1>9, <2>1, WithoutIsSound DEF Older
  <2> QED
    BY <1>2, <1>7, <2>2, WithoutIsSound DEF Older
<1>12. \A d \in Days : store'[n][d] = <<>> \/ store'[n][d] = store[n][d]
  BY <1>5, <1>7, <1>9 DEF Without
<1> QED
  BY <1>8, <1>11, <1>12

-----------------------------------------------------------------------------
\* The invariant holds

IInv == Types /\ FiledByDay /\ SoundInv

\* A store with no files.
LEMMA InitInv == Init => IInv
<1> SUFFICES ASSUME Init PROVE IInv
  OBVIOUS
<1>1. Types
  <2>1. \A n \in Names : said[n] = <<>> /\ <<>> \in Seq(1 .. count)
    BY DEF Init
  <2>2. Cardinality({}) = 0
    BY FS_EmptySet
  <2> QED
    BY <2>1, <2>2, EmptyIsSound, TranscriptAssumption DEF Init, Types
<1>2. FiledByDay
  BY DEF Init, FiledByDay, NoFiles
<1>3. SoundInv
  BY EmptyIsSound DEF Init, SoundInv
<1> QED
  BY <1>1, <1>2, <1>3 DEF IInv

\* Dropping a room's files.
LEMMA ForgetKeeps ==
  ASSUME IInv, NEW n \in Names, Forget(n), count' = count, clock' = clock
  PROVE  /\ store' \in [Names -> Dirs] /\ said' \in [Names -> Seq(1 .. count)]
         /\ FiledByDay' /\ SoundInv'
<1>1. \A m \in Names : /\ store'[m] = IF m = n THEN NoFiles ELSE store[m]
                       /\ said'[m] = IF m = n THEN <<>> ELSE said[m]
  BY DEF IInv, Types, Forget
<1>2. store' \in [Names -> Dirs] /\ said' \in [Names -> Seq(1 .. count)]
  BY EmptyIsSound DEF IInv, Types, Forget
<1>3. SoundInv'
  BY <1>1, EmptyIsSound DEF IInv, SoundInv
<1>4. Today' = Today /\ \A d \in Days : NoFiles[d] = <<>>
  BY DEF Today, Day, NoFiles
<1>5. FiledByDay'
  BY <1>1, <1>4 DEF IInv, FiledByDay
<1> QED
  BY <1>2, <1>3, <1>5

\* The clock never runs past the days there are files for.
LEMMA TodayIs == Types => Today \in Days
BY DaysAre DEF Types, Today

\* A record is added, and old files go for it.
LEMMA RecordKeeps ==
  ASSUME IInv, NEW n \in Names, RecordMessage(n)
  PROVE  IInv'
<1> USE DEF IInv
<1>1. count + 1 \in 0 .. MaxRecords /\ count' = count + 1 /\ count \in Nat /\ relayed' = {}
  BY TranscriptAssumption DEF RecordMessage, Types
<1>2. PICK size \in Sizes :
        store' = [store EXCEPT ![n] = CapRoom([store[n] EXCEPT ![Today] =
                   Append(@, [id |-> count', at |-> clock, size |-> size])])]
  BY DEF RecordMessage
<1> DEFINE rec == [id |-> count', at |-> clock, size |-> size]
           f == store[n]
           g == Added(f, Today, rec)
           q == said[n]
<1>3. rec \in Record /\ rec.id = count + 1 /\ rec.at = clock
  BY <1>1, TranscriptAssumption DEF Record, Types
<1>4. f \in Dirs /\ q \in Seq(Nat) /\ Sound(f, q) /\ Today \in Days /\ q \in Seq(1 .. count)
  BY <1>1, TodayIs DEF Types, SoundInv
<1>5. \A d \in Days : f[d] # <<>> => d <= Today
  BY DEF FiledByDay
<1>6. \A k \in DOMAIN q : q[k] < rec.id
  BY <1>1, <1>3, <1>4
<1> HIDE DEF rec
<1>7. /\ g \in Dirs /\ Sound(g, Append(q, rec.id))
      /\ \A d \in Days : \A i \in DOMAIN g[d] :
           (i \in DOMAIN f[d] /\ g[d][i] = f[d][i]) \/ (d = Today /\ g[d][i] = rec)
  BY <1>3, <1>4, <1>5, <1>6, AppendIsSound
<1>8. PICK ds \in SUBSET Days : CapRoom(g) = Without(g, ds) /\ Older(g, ds)
  BY <1>7, CapRoomIs
<1>9. Append(q, rec.id) \in Seq(Nat) /\ Append(q, rec.id) \in Seq(1 .. count')
  BY <1>1, <1>3, <1>4
<1> DEFINE p == Append(q, rec.id)
<1>10. p \in Seq(Nat) /\ p \in Seq(1 .. count') /\ Sound(g, p)
  BY <1>7, <1>9
<1>11. store' = [store EXCEPT ![n] = CapRoom(g)] /\ said' = [said EXCEPT ![n] = p]
  <2>1. said' = [said EXCEPT ![n] = Append(said[n], rec.id)]
    BY <1>1, <1>3 DEF RecordMessage, Types
  <2>2. store' = [store EXCEPT ![n] = CapRoom(g)]
    BY <1>2 DEF rec, Types, Added
  <2> QED
    BY <2>1, <2>2
<1>12. ASSUME NEW d \in Days
       PROVE  /\ \A i \in DOMAIN f[d] : f[d][i] # Torn => Day(f[d][i].at) = d
              /\ f[d] # <<>> => d <= Today
  BY DEF FiledByDay
<1> HIDE DEF g, f, q, p
<1>13. CapRoom(g) \in Dirs
  BY <1>7, <1>8, WithoutType
<1>14. Sound(CapRoom(g), p)
  BY <1>7, <1>8, <1>10, WithoutIsSound DEF Older
<1>15. ASSUME NEW d \in Days
       PROVE  /\ \A i \in DOMAIN CapRoom(g)[d] : CapRoom(g)[d][i] # Torn => Day(CapRoom(g)[d][i].at) = d
              /\ CapRoom(g)[d] # <<>> => d <= Today
  <2>1. CapRoom(g)[d] = <<>> \/ CapRoom(g)[d] = g[d]
    BY <1>8 DEF Without
  <2>2. \A i \in DOMAIN g[d] : g[d][i] # Torn => Day(g[d][i].at) = d
    BY <1>3, <1>7, <1>12 DEF Today
  <2>3. g[d] # <<>> => d <= Today
    <3>1. CASE d = Today
      BY <1>4, <3>1, DaysAre
    <3>2. CASE d # Today
      <4>1. g[d] = f[d]
        BY <3>2, <1>4 DEF g, Dirs, Added
      <4> QED
        BY <1>12, <4>1
    <3> QED
      BY <3>1, <3>2
  <2> QED
    BY <2>1, <2>2, <2>3
<1>16. store' \in [Names -> Dirs] /\ said' \in [Names -> Seq(1 .. count')]
  <2>1. said \in [Names -> Seq(1 .. count')]
    <3>1. 1 .. count \subseteq 1 .. count'
      BY <1>1
    <3>2. \A m \in Names : said[m] \in Seq(1 .. count')
      BY <3>1, SeqMonotonic DEF Types
    <3> QED
      BY <3>2 DEF Types
  <2> QED
    BY <1>10, <1>11, <1>13, <2>1 DEF Types
<1>17. Types'
  <2>1. Cardinality(relayed') <= 1
    BY <1>1, FS_EmptySet
  <2> QED
    BY <1>1, <1>16, <2>1 DEF RecordMessage, Types
<1>18. \A m \in Names : m # n => store'[m] = store[m] /\ said'[m] = said[m]
  BY <1>11 DEF Types
<1>19. store'[n] = CapRoom(g) /\ said'[n] = p
  BY <1>11 DEF Types
<1>20. Today' = Today
  BY DEF Today, RecordMessage
<1>21. FiledByDay'
  BY <1>15, <1>18, <1>19, <1>20 DEF FiledByDay
<1>22. SoundInv'
  BY <1>14, <1>18, <1>19 DEF SoundInv
<1> QED
  BY <1>17, <1>21, <1>22

\* Half a record more.
LEMMA FailKeeps ==
  ASSUME IInv, NEW n \in Names, RecordFails(n)
  PROVE  IInv'
<1> USE DEF IInv
<1>1. PICK part \in {<<>>, <<Torn>>} : store' = [store EXCEPT ![n][Today] = store[n][Today] \o part]
  BY DEF RecordFails
<1> DEFINE f == store[n]
           g == Extended(f, Today, part)
<1>2. f \in Dirs /\ Sound(f, said[n]) /\ Today \in Days
  BY TodayIs DEF Types, SoundInv
<1>3. store' = [store EXCEPT ![n] = g]
  BY <1>1 DEF Types, Extended
<1>4. ASSUME NEW d \in Days
      PROVE  /\ \A i \in DOMAIN f[d] : f[d][i] # Torn => Day(f[d][i].at) = d
             /\ f[d] # <<>> => d <= Today
  BY DEF FiledByDay
<1> HIDE DEF f, g
<1>5. /\ g \in Dirs /\ Sound(g, said[n])
      /\ \A d \in Days : \A i \in DOMAIN g[d] : (i \in DOMAIN f[d] /\ g[d][i] = f[d][i]) \/ g[d][i] = Torn
  BY <1>2, TornIsSound DEF g
<1>6. ASSUME NEW d \in Days
      PROVE  /\ \A i \in DOMAIN g[d] : g[d][i] # Torn => Day(g[d][i].at) = d
             /\ g[d] # <<>> => d <= Today
  <2>1. CASE d = Today
    BY <1>2, <1>4, <1>5, <2>1, DaysAre
  <2>2. CASE d # Today
    <3>1. g[d] = f[d]
      BY <1>2, <2>2 DEF g, Extended, Dirs
    <3> QED
      BY <1>4, <3>1
  <2> QED
    BY <2>1, <2>2
<1>7. UNCHANGED <<clock, count, room, said, Today>> /\ relayed' = {} /\ cuts' \in 0 .. MaxCuts
  BY TranscriptAssumption DEF RecordFails, Today, Types
<1>8. Types'
  <2>1. store' \in [Names -> Dirs]
    BY <1>3, <1>5 DEF Types
  <2>2. Cardinality(relayed') <= 1
    BY <1>7, FS_EmptySet
  <2> QED
    BY <1>7, <2>1, <2>2 DEF Types
<1>9. \A m \in Names : store'[m] = IF m = n THEN g ELSE store[m]
  BY <1>3 DEF Types
<1>10. FiledByDay'
  BY <1>6, <1>7, <1>9 DEF FiledByDay
<1>11. SoundInv'
  BY <1>5, <1>7, <1>9 DEF SoundInv
<1> QED
  BY <1>8, <1>10, <1>11

\* The power goes.
LEMMA CutKeeps ==
  ASSUME IInv, PowerCut
  PROVE  IInv'
<1> USE DEF IInv
<1>1. PICK n \in Names, part \in {<<>>, <<Torn>>} :
        LET d == Max(HeldDays(store[n]))
        IN  /\ HeldDays(store[n]) # {}
            /\ \E k \in 0 .. Len(store[n][d]) :
                 LET lost == {store[n][d][i].id :
                                i \in {j \in k + 1 .. Len(store[n][d]) : store[n][d][j] # Torn}}
                 IN  /\ store' = [store EXCEPT ![n][d] = SubSeq(@, 1, k) \o part]
                     /\ said' = [said EXCEPT ![n] = Before(@, lost)]
  BY DEF PowerCut
<1> DEFINE f == store[n]
           d == Max(HeldDays(f))
<1>2. PICK k \in 0 .. Len(f[d]) :
        /\ store' = [store EXCEPT ![n][d] = SubSeq(f[d], 1, k) \o part]
        /\ said' = [said EXCEPT ![n] = Before(said[n],
                      {f[d][i].id : i \in {j \in k + 1 .. Len(f[d]) : f[d][j] # Torn}})]
  BY <1>1
<1> DEFINE lost == {f[d][i].id : i \in {j \in k + 1 .. Len(f[d]) : f[d][j] # Torn}}
           q == said[n]
<1>3. /\ f \in Dirs /\ Sound(f, q) /\ q \in Seq(1 .. count) /\ HeldDays(f) # {}
  BY <1>1 DEF Types, SoundInv
<1>4. d \in Days /\ \A e \in Days : f[e] # <<>> => e <= d
  BY <1>3, NewestIs
<1>5. \A y : y \in lost <=> \E i \in k + 1 .. Len(f[d]) : f[d][i] # Torn /\ f[d][i].id = y
  OBVIOUS
<1>6. said' = [said EXCEPT ![n] = Before(q, lost)]
  BY <1>2
<1>7. q \in Seq(Nat)
  <2>1. 1 .. count \subseteq Nat
    BY DEF Types
  <2> QED
    BY <1>3, <2>1, SeqMonotonic
<1>8. ASSUME NEW e \in Days
      PROVE  /\ \A i \in DOMAIN f[e] : f[e][i] # Torn => Day(f[e][i].at) = e
             /\ f[e] # <<>> => e <= Today
  BY DEF FiledByDay
<1>9. f[d] # <<>>
  BY <1>3, NewestIs
<1> DEFINE g == CutOff(f, d, k)
           h == Extended(g, d, part)
<1>10. store' = [store EXCEPT ![n] = h]
  BY <1>2, <1>3, <1>4 DEF Types, Extended, CutOff, Dirs
<1> HIDE DEF lost, d, f, q
<1>11. /\ g \in Dirs /\ Sound(g, Before(q, lost)) /\ Before(q, lost) \in Seq(Nat)
       /\ \A e \in Days : \A i \in DOMAIN g[e] : i \in DOMAIN f[e] /\ g[e][i] = f[e][i]
  <2>1. k \in 0 .. Len(f[d])
    BY <1>2
  <2> QED
    <3>1. g \in Dirs
      BY <1>3, <1>4, <1>5, <1>7, <2>1, CutIsSound
    <3>2. Sound(g, Before(q, lost)) /\ Before(q, lost) \in Seq(Nat)
      BY <1>3, <1>4, <1>5, <1>7, <2>1, CutIsSound
    <3>3. ASSUME NEW e \in Days, NEW i \in DOMAIN g[e] PROVE i \in DOMAIN f[e] /\ g[e][i] = f[e][i]
      <4>1. g[e] = IF e = d THEN SubSeq(f[d], 1, k) ELSE f[e]
        BY <1>3, <1>4 DEF CutOff, Dirs
      <4>2. f[d] \in Seq(Entries) /\ DOMAIN f[d] = 1 .. Len(f[d]) /\ Len(f[d]) \in Nat
        BY <1>3, <1>4 DEF Dirs
      <4>3. DOMAIN SubSeq(f[d], 1, k) = 1 .. k /\ \A j \in 1 .. k : SubSeq(f[d], 1, k)[j] = f[d][j]
        BY <2>1, <4>2, FrontIs
      <4> HIDE DEF g
      <4> QED
        BY <2>1, <4>1, <4>2, <4>3
    <3> QED
      BY <3>1, <3>2, <3>3
<1>12. /\ h \in Dirs /\ Sound(h, Before(q, lost))
       /\ \A e \in Days : \A i \in DOMAIN h[e] : (i \in DOMAIN g[e] /\ h[e][i] = g[e][i]) \/ h[e][i] = Torn
  <2> HIDE DEF g
  <2> QED
    BY <1>4, <1>11, TornIsSound
<1>13. ASSUME NEW e \in Days
       PROVE  /\ \A i \in DOMAIN h[e] : h[e][i] # Torn => Day(h[e][i].at) = e
              /\ h[e] # <<>> => e <= Today
  <2>1. h[e] # <<>> => f[e] # <<>>
    <3>1. CASE e = d
      BY <1>9, <3>1
    <3>2. CASE e # d
      BY <1>3, <1>11, <3>2 DEF h, g, Extended, CutOff, Dirs
    <3> QED
      BY <3>1, <3>2
  <2> HIDE DEF g, h
  <2> QED
    BY <1>8, <1>11, <1>12, <2>1
<1> HIDE DEF g, h
<1>14. Before(q, lost) \in Seq(1 .. count)
  BY <1>3, BeforeIs
<1>15. UNCHANGED <<clock, count, Today>> /\ relayed' = {} /\ cuts' \in 0 .. MaxCuts
       /\ room' \in [Names -> {"none", "open", "registered"}]
  <2>1. UNCHANGED <<clock, count>> /\ relayed' = {} /\ cuts < MaxCuts /\ cuts' = cuts + 1
    BY DEF PowerCut
  <2>2. room' = [m \in Names |-> IF room[m] = "open" THEN "none" ELSE room[m]]
    BY DEF PowerCut
  <2> QED
    BY <2>1, <2>2, TranscriptAssumption DEF Today, Types
<1>16. Types'
  <2>1. store' \in [Names -> Dirs] /\ said' \in [Names -> Seq(1 .. count')]
    BY <1>6, <1>10, <1>12, <1>14, <1>15 DEF Types
  <2>2. Cardinality(relayed') <= 1
    BY <1>15, FS_EmptySet
  <2> QED
    BY <1>15, <2>1, <2>2 DEF Types
<1>17. \A m \in Names : /\ store'[m] = IF m = n THEN h ELSE store[m]
                        /\ said'[m] = IF m = n THEN Before(q, lost) ELSE said[m]
  BY <1>6, <1>10 DEF Types
<1>18. FiledByDay'
  BY <1>13, <1>15, <1>17 DEF FiledByDay
<1>19. SoundInv'
  BY <1>12, <1>17 DEF SoundInv
<1> QED
  BY <1>16, <1>18, <1>19

\* The store is pruned.
LEMMA PruneKeeps ==
  ASSUME IInv, PruneStore
  PROVE  IInv'
<1> USE DEF IInv
<1>1. UNCHANGED <<room, relayed, clock, cuts, count, said, Today>>
  BY DEF PruneStore, Today
<1>2. ASSUME NEW n \in Names
      PROVE  /\ store' \in [Names -> Dirs]
             /\ Sound(store'[n], said[n])
             /\ \A d \in Days : store'[n][d] = <<>> \/ store'[n][d] = store[n][d]
  <2>1. said[n] \in Seq(1 .. count) /\ 1 .. count \subseteq Nat
    BY DEF Types
  <2>2. said[n] \in Seq(Nat)
    BY <2>1, SeqMonotonic
  <2> QED
    BY <2>2, PruneLeaves DEF SoundInv
<1>3. store' \in [Names -> Dirs]
  <2>1. CASE Names = {}
    <3> DEFINE a == [n \in Names |-> CapRoom(Without(store[n], ExpiredDays))]
    <3>1. a \in [Names -> Dirs]
      BY <2>1
    <3>2. PICK fs : store' = After(a, fs)
      BY <3>1, CapTotalIs DEF PruneStore
    <3> QED
      BY <2>1, <3>2 DEF After
  <2>2. CASE Names # {}
    BY <1>2, <2>2
  <2> QED
    BY <2>1, <2>2
<1>4. Types'
  BY <1>1, <1>3 DEF Types
<1>5. FiledByDay'
  BY <1>1, <1>2 DEF FiledByDay
<1>6. SoundInv'
  BY <1>1, <1>2 DEF SoundInv
<1> QED
  BY <1>4, <1>5, <1>6

\* Whatever happens.
LEMMA InvKept == IInv /\ [Next]_vars => IInv'
<1> USE DEF IInv
<1> SUFFICES ASSUME IInv, [Next]_vars PROVE IInv'
  OBVIOUS
<1>1. ASSUME NEW n \in Names, Create(n) \/ Purge(n) PROVE IInv'
  <2>1. Forget(n) /\ UNCHANGED <<relayed, clock, cuts, count>>
    BY <1>1 DEF Create, Purge
  <2>2. room' \in [Names -> {"none", "open", "registered"}]
    BY <1>1 DEF Create, Purge, Types
  <2>3. Types'
    BY <2>1, <2>2, ForgetKeeps DEF Types
  <2> QED
    BY <2>1, <2>3, ForgetKeeps
<1>2. ASSUME NEW n \in Names, Die(n) \/ Register(n) \/ Unregister(n) \/ PruneRoom(n) \/ Relay(n) PROVE IInv'
  <2>1. UNCHANGED <<store, said, clock, cuts, count, Today>>
    BY <1>2 DEF Die, Register, Unregister, PruneRoom, Relay, Today
  <2>2. room' \in [Names -> {"none", "open", "registered"}]
    BY <1>2 DEF Die, Register, Unregister, PruneRoom, Relay, Types
  <2>3. \/ relayed' = relayed
        \/ relayed' = {n} /\ count < MaxRecords
    BY <1>2 DEF Die, Register, Unregister, PruneRoom, Relay
  <2>4. relayed' \subseteq Names /\ Cardinality(relayed') <= 1 /\ (relayed' # {} => count < MaxRecords)
    <3>1. Cardinality({n}) = 1
      BY FS_Singleton
    <3>2. CASE relayed' = {n} /\ count < MaxRecords
      BY <3>1, <3>2
    <3>3. CASE relayed' = relayed
      BY <3>3 DEF Types
    <3> QED
      BY <2>3, <3>2, <3>3
  <2> QED
    BY <2>1, <2>2, <2>4 DEF Types, FiledByDay, SoundInv
<1>3. ASSUME NEW n \in Names, RecordMessage(n) \/ RecordFails(n) PROVE IInv'
  BY <1>3, RecordKeeps, FailKeeps
<1>4. CASE PruneStore \/ PowerCut
  BY <1>4, PruneKeeps, CutKeeps
<1>5. CASE Tick
  <2>1. UNCHANGED <<store, room, relayed, cuts, count, said>> /\ clock' = clock + 1 /\ clock' \in 0 .. Horizon
    BY <1>5, TranscriptAssumption DEF Tick, Types
  <2>2. Today <= Today' /\ Today \in Days /\ Today' \in Days
    BY <2>1, DayOrder, DaysAre DEF Today, Types
  <2>3. FiledByDay'
    <3>1. \A d \in Days : d <= Today => d <= Today'
      BY <2>2, DaysAre
    <3> QED
      BY <2>1, <3>1 DEF FiledByDay
  <2> QED
    BY <2>1, <2>3 DEF Types, SoundInv
<1>6. CASE UNCHANGED vars
  BY <1>6 DEF vars, Types, FiledByDay, SoundInv, Today
<1> QED
  BY <1>1, <1>2, <1>3, <1>4, <1>5, <1>6 DEF Next, RoomStep

\* So the invariant holds for good.
LEMMA Invariant == Spec => []IInv
BY InitInv, InvKept, PTL DEF Spec

\* Every variable keeps its type, and a record lies in the file of its day.
THEOREM TypeCorrect == Spec => []TypeOK
<1>1. IInv => TypeOK
  <2> SUFFICES ASSUME IInv PROVE TypeOK
    OBVIOUS
  <2>1. ASSUME NEW n \in Names, NEW d \in Days, NEW e \in ToSet(store[n][d]), e # Torn
        PROVE  e \in Record /\ Day(e.at) = d
    <3>1. PICK i \in DOMAIN store[n][d] : store[n][d][i] = e
      BY DEF ToSet
    <3>2. store[n] \in Dirs
      BY DEF IInv, Types
    <3> QED
      BY <2>1, <3>1, <3>2, HeldIsRecord DEF IInv, FiledByDay
  <2>2. ASSUME NEW n \in Names PROVE ToSet(said[n]) \subseteq 1 .. count
    <3>1. said[n] \in Seq(1 .. count)
      BY DEF IInv, Types
    <3>2. \A i \in DOMAIN said[n] : said[n][i] \in 1 .. count
      BY <3>1, ElementOfSeq, LenProperties
    <3> QED
      BY <3>2 DEF ToSet
  <2> QED
    BY <2>1, <2>2 DEF TypeOK, IInv, Types
<1> QED
  BY <1>1, Invariant, PTL

\* Whoever is in a room can be shown only what was recorded since this room was
\* made, though a room may end between a relay and its record, and a power cut
\* take the end of a file.
THEOREM NothingInherited == Spec => []NoInheritance
<1>1. IInv => NoInheritance
  <2> SUFFICES ASSUME IInv, NEW n \in Names, NEW e \in Kept(n) PROVE e.id \in ToSet(said[n])
    BY DEF NoInheritance
  <2>1. PICK d \in Days : e \in ToSet(store[n][d]) /\ e # Torn
    BY DEF Kept
  <2>2. PICK i \in DOMAIN store[n][d] : store[n][d][i] = e
    BY <2>1 DEF ToSet
  <2>3. store[n] \in Dirs /\ Sound(store[n], said[n])
    BY DEF IInv, Types, SoundInv
  <2>4. e.id \in Ids(store[n])
    BY <2>1, <2>2, <2>3, HeldIsRecord
  <2> QED
    BY <2>3, <2>4 DEF Sound, Ends, ToSet
<1> QED
  BY <1>1, Invariant, PTL

-----------------------------------------------------------------------------
\* Sums

\* g gives the sum of the w of each part of S, as MapThenSumSet computes it.
Pick(s) == CHOOSE x \in s : TRUE
IsSum(g, w, S) ==
  g = [s \in SUBSET S |-> IF s = {} THEN 0 ELSE w[Pick(s)] + g[s \ {Pick(s)}]]

\* What is left without one member.
LEMMA PickIs ==
  ASSUME NEW S, IsFiniteSet(S), NEW s \in SUBSET S, s # {}
  PROVE  /\ Pick(s) \in s /\ s \ {Pick(s)} \in SUBSET S
         /\ Cardinality(s) \in Nat /\ Cardinality(s \ {Pick(s)}) = Cardinality(s) - 1
<1>1. Pick(s) \in s
  BY DEF Pick
<1>2. IsFiniteSet(s)
  BY FS_Subset
<1>3. Cardinality(s \ {Pick(s)}) = Cardinality(s) - 1
  BY <1>1, <1>2, FS_RemoveElement
<1>4. Cardinality(s) \in Nat
  BY <1>2, FS_CardinalityType
<1> QED
  BY <1>1, <1>3, <1>4

\* There is one.
LEMMA SumExists ==
  ASSUME NEW S, IsFiniteSet(S), NEW w
  PROVE  \E g : IsSum(g, w, S)
<1> DEFINE Small(k) == {s \in SUBSET S : Cardinality(s) <= k}
           Part(g, k) == g = [s \in Small(k) |-> IF s = {} THEN 0 ELSE w[Pick(s)] + g[s \ {Pick(s)}]]
           T == {k \in Nat : \E g : Part(g, k)}
<1>1. \A s \in SUBSET S : IsFiniteSet(s) /\ Cardinality(s) \in Nat
  BY FS_Subset, FS_CardinalityType
<1>2. 0 \in T
  <2> DEFINE g == [s \in Small(0) |-> 0]
  <2>1. \A s \in Small(0) : s = {}
    BY <1>1, FS_EmptySet
  <2>2. Part(g, 0)
    BY <2>1
  <2> QED
    BY <2>2
<1>3. ASSUME NEW k \in Nat, k \in T PROVE k + 1 \in T
  <2>1. PICK g : Part(g, k)
    BY <1>3
  <2> DEFINE h == [s \in Small(k + 1) |-> IF s = {} THEN 0 ELSE w[Pick(s)] + g[s \ {Pick(s)}]]
  <2>2. \A s \in Small(k) : s \in Small(k + 1) /\ h[s] = g[s]
    <3>1. Small(k) \subseteq Small(k + 1)
      BY <1>1
    <3> HIDE DEF Small
    <3>2. \A s \in Small(k) : g[s] = IF s = {} THEN 0 ELSE w[Pick(s)] + g[s \ {Pick(s)}]
      BY <2>1
    <3>3. \A s \in Small(k + 1) : h[s] = IF s = {} THEN 0 ELSE w[Pick(s)] + g[s \ {Pick(s)}]
      OBVIOUS
    <3> HIDE DEF h
    <3> QED
      BY <3>1, <3>2, <3>3
  <2>3. ASSUME NEW s \in Small(k + 1), s # {} PROVE s \ {Pick(s)} \in Small(k)
    BY <1>1, <2>3, PickIs
  <2>4. \A s \in Small(k + 1) : h[s] = IF s = {} THEN 0 ELSE w[Pick(s)] + h[s \ {Pick(s)}]
    <3>1. \A s \in Small(k + 1) : h[s] = IF s = {} THEN 0 ELSE w[Pick(s)] + g[s \ {Pick(s)}]
      OBVIOUS
    <3> HIDE DEF h, Small
    <3> QED
      BY <2>2, <2>3, <3>1
  <2>5. h = [s \in Small(k + 1) |-> h[s]]
    OBVIOUS
  <2>6. Part(h, k + 1)
    <3> HIDE DEF h, Small
    <3> QED
      BY <2>4, <2>5
  <2> HIDE DEF h, Part
  <2> QED
    BY <2>6
<1> HIDE DEF T
<1>4. Cardinality(S) \in T
  BY <1>1, <1>2, <1>3, SetInduction
<1>5. Small(Cardinality(S)) = SUBSET S
  BY <1>1, FS_Subset
<1> QED
  BY <1>4, <1>5 DEF IsSum, T

\* The lesser the numbers, the lesser is their sum.
LEMMA SumsCompare ==
  ASSUME NEW S, IsFiniteSet(S), NEW a \in [S -> Nat], NEW b \in [S -> Nat],
         \A x \in S : a[x] <= b[x],
         NEW f, NEW g, IsSum(f, a, S), IsSum(g, b, S)
  PROVE  f[S] \in Nat /\ g[S] \in Nat /\ f[S] <= g[S]
<1> DEFINE Fine(s) == f[s] \in Nat /\ g[s] \in Nat /\ f[s] <= g[s]
           T == {k \in Nat : \A s \in SUBSET S : Cardinality(s) = k => Fine(s)}
<1>1. \A s \in SUBSET S : IsFiniteSet(s) /\ Cardinality(s) \in Nat
  BY FS_Subset, FS_CardinalityType
<1>2. ASSUME NEW s \in SUBSET S
      PROVE  /\ f[s] = IF s = {} THEN 0 ELSE a[Pick(s)] + f[s \ {Pick(s)}]
             /\ g[s] = IF s = {} THEN 0 ELSE b[Pick(s)] + g[s \ {Pick(s)}]
  BY DEF IsSum
<1>3. 0 \in T
  <2>1. \A s \in SUBSET S : Cardinality(s) = 0 => s = {}
    BY <1>1, FS_EmptySet
  <2> QED
    BY <1>2, <2>1
<1>4. ASSUME NEW k \in Nat, k \in T PROVE k + 1 \in T
  <2> SUFFICES ASSUME NEW s \in SUBSET S, Cardinality(s) = k + 1 PROVE Fine(s)
    OBVIOUS
  <2>1. s # {}
    BY FS_EmptySet
  <2> DEFINE x == Pick(s)
             r == s \ {Pick(s)}
  <2>2. x \in S /\ r \in SUBSET S /\ Cardinality(r) = k
    BY <2>1, PickIs
  <2>3. Fine(r)
    BY <1>4, <2>2
  <2>4. f[s] = a[x] + f[r] /\ g[s] = b[x] + g[r]
    BY <1>2, <2>1
  <2>5. a[x] \in Nat /\ b[x] \in Nat /\ a[x] <= b[x]
    BY <2>2
  <2> HIDE DEF x, r
  <2> QED
    BY <2>3, <2>4, <2>5
<1> HIDE DEF T
<1>5. Cardinality(S) \in T
  BY <1>1, <1>3, <1>4, SetInduction
<1> QED
  BY <1>5 DEF T

\* Nothing but zeros sums up to zero.
LEMMA SumOfNothing ==
  ASSUME NEW S, IsFiniteSet(S), NEW a, \A x \in S : a[x] = 0, NEW f, IsSum(f, a, S)
  PROVE  f[S] = 0
<1> DEFINE T == {k \in Nat : \A s \in SUBSET S : Cardinality(s) = k => f[s] = 0}
<1>1. \A s \in SUBSET S : IsFiniteSet(s) /\ Cardinality(s) \in Nat
  BY FS_Subset, FS_CardinalityType
<1>2. ASSUME NEW s \in SUBSET S
      PROVE  f[s] = IF s = {} THEN 0 ELSE a[Pick(s)] + f[s \ {Pick(s)}]
  BY DEF IsSum
<1>3. 0 \in T
  <2>1. \A s \in SUBSET S : Cardinality(s) = 0 => s = {}
    BY <1>1, FS_EmptySet
  <2> QED
    BY <1>2, <2>1
<1>4. ASSUME NEW k \in Nat, k \in T PROVE k + 1 \in T
  <2> SUFFICES ASSUME NEW s \in SUBSET S, Cardinality(s) = k + 1 PROVE f[s] = 0
    OBVIOUS
  <2>1. s # {}
    BY FS_EmptySet
  <2>2. Pick(s) \in S /\ s \ {Pick(s)} \in SUBSET S /\ Cardinality(s \ {Pick(s)}) = k
    BY <2>1, PickIs
  <2>3. f[s \ {Pick(s)}] = 0
    BY <1>4, <2>2
  <2> QED
    BY <1>2, <2>1, <2>2, <2>3
<1> HIDE DEF T
<1>5. Cardinality(S) \in T
  BY <1>1, <1>3, <1>4, SetInduction
<1> QED
  BY <1>5 DEF T

\* There is a last day.
LEMMA FiniteDays == IsFiniteSet(Days)
<1>1. PICK last \in Nat : Days = 0 .. last
  BY DaysAre
<1>2. IsFiniteSet(0 .. last)
  BY FS_Interval
<1> QED
  BY <1>1, <1>2

\* The size of a file is the sum of its entries'.
LEMMA BytesIsSum ==
  ASSUME NEW file, IsFiniteSet(DOMAIN file)
  PROVE  \E g : IsSum(g, [i \in DOMAIN file |-> Size(file[i])], DOMAIN file) /\ Bytes(file) = g[DOMAIN file]
<1> DEFINE S == DOMAIN file
           w == [i \in S |-> Size(file[i])]
           iter == CHOOSE iter : iter = [s \in SUBSET S |->
                     IF s = {} THEN 0 ELSE Size(file[Pick(s)]) + iter[s \ {Pick(s)}]]
<1>1. Bytes(file) = iter[S]
  BY DEF Bytes, MapThenSumSet, MapThenFoldSet, Pick
<1>2. ASSUME NEW g
      PROVE  IsSum(g, w, S) <=>
               g = [s \in SUBSET S |-> IF s = {} THEN 0 ELSE Size(file[Pick(s)]) + g[s \ {Pick(s)}]]
  <2>1. ASSUME NEW s \in SUBSET S, s # {} PROVE w[Pick(s)] = Size(file[Pick(s)])
    BY <2>1 DEF Pick
  <2> HIDE DEF w
  <2> QED
    BY <2>1 DEF IsSum
<1>3. \E g : IsSum(g, w, S)
  BY SumExists
<1>4. iter = [s \in SUBSET S |-> IF s = {} THEN 0 ELSE Size(file[Pick(s)]) + iter[s \ {Pick(s)}]]
  <2> HIDE DEF w
  <2> QED
    BY <1>2, <1>3
<1>5. IsSum(iter, w, S)
  <2> HIDE DEF w, iter
  <2> QED
    BY <1>2, <1>4
<1> QED
  BY <1>1, <1>5

\* A room's size is the sum of its files'.
LEMMA RoomIsSum ==
  ASSUME NEW f
  PROVE  \E g : IsSum(g, [d \in Days |-> Bytes(f[d])], Days) /\ RoomBytes(f) = g[Days]
<1> DEFINE S == Days
           w == [d \in S |-> Bytes(f[d])]
           iter == CHOOSE iter : iter = [s \in SUBSET S |->
                     IF s = {} THEN 0 ELSE Bytes(f[Pick(s)]) + iter[s \ {Pick(s)}]]
<1>1. RoomBytes(f) = iter[S]
  BY DEF RoomBytes, MapThenSumSet, MapThenFoldSet, Pick
<1>2. ASSUME NEW g
      PROVE  IsSum(g, w, S) <=>
               g = [s \in SUBSET S |-> IF s = {} THEN 0 ELSE Bytes(f[Pick(s)]) + g[s \ {Pick(s)}]]
  <2>1. ASSUME NEW s \in SUBSET S, s # {} PROVE w[Pick(s)] = Bytes(f[Pick(s)])
    BY <2>1 DEF Pick
  <2> HIDE DEF w
  <2> QED
    BY <2>1 DEF IsSum
<1>3. \E g : IsSum(g, w, S)
  BY FiniteDays, SumExists
<1>4. iter = [s \in SUBSET S |-> IF s = {} THEN 0 ELSE Bytes(f[Pick(s)]) + iter[s \ {Pick(s)}]]
  <2> HIDE DEF w
  <2> QED
    BY <1>2, <1>3
<1>5. IsSum(iter, w, S)
  <2> HIDE DEF w, iter
  <2> QED
    BY <1>2, <1>4
<1> QED
  BY <1>1, <1>5

\* The store's is the sum of its rooms'.
LEMMA TotalIsSum ==
  ASSUME NEW st
  PROVE  \E g : IsSum(g, [n \in Names |-> RoomBytes(st[n])], Names) /\ TotalBytes(st) = g[Names]
<1> DEFINE S == Names
           w == [n \in S |-> RoomBytes(st[n])]
           iter == CHOOSE iter : iter = [s \in SUBSET S |->
                     IF s = {} THEN 0 ELSE RoomBytes(st[Pick(s)]) + iter[s \ {Pick(s)}]]
<1>1. TotalBytes(st) = iter[S]
  BY DEF TotalBytes, MapThenSumSet, MapThenFoldSet, Pick
<1>2. ASSUME NEW g
      PROVE  IsSum(g, w, S) <=>
               g = [s \in SUBSET S |-> IF s = {} THEN 0 ELSE RoomBytes(st[Pick(s)]) + g[s \ {Pick(s)}]]
  <2>1. ASSUME NEW s \in SUBSET S, s # {} PROVE w[Pick(s)] = RoomBytes(st[Pick(s)])
    BY <2>1 DEF Pick
  <2> HIDE DEF w
  <2> QED
    BY <2>1 DEF IsSum
<1>3. \E g : IsSum(g, w, S)
  BY TranscriptAssumption, SumExists
<1>4. iter = [s \in SUBSET S |-> IF s = {} THEN 0 ELSE RoomBytes(st[Pick(s)]) + iter[s \ {Pick(s)}]]
  <2> HIDE DEF w
  <2> QED
    BY <1>2, <1>3
<1>5. IsSum(iter, w, S)
  <2> HIDE DEF w, iter
  <2> QED
    BY <1>2, <1>4
<1> QED
  BY <1>1, <1>5

\* A file has a size, and an empty file none.
LEMMA FileSize ==
  /\ \A file \in Seq(Entries) : Bytes(file) \in Nat
  /\ Bytes(<<>>) = 0
<1>1. ASSUME NEW file \in Seq(Entries) PROVE Bytes(file) \in Nat
  <2> DEFINE S == DOMAIN file
             w == [i \in S |-> Size(file[i])]
  <2>1. S = 1 .. Len(file) /\ Len(file) \in Nat
    BY LenProperties
  <2>2. IsFiniteSet(S)
    BY <2>1, FS_Interval
  <2>3. ASSUME NEW i \in S PROVE Size(file[i]) \in Nat
    <3>1. file[i] \in Entries
      BY <2>1, ElementOfSeq
    <3> QED
      BY <3>1, TranscriptAssumption DEF Entries, Record, Size
  <2>4. w \in [S -> Nat] /\ \A x \in S : w[x] <= w[x]
    BY <2>3
  <2>5. PICK g : IsSum(g, w, S) /\ Bytes(file) = g[S]
    BY <2>2, BytesIsSum
  <2> HIDE DEF w, S
  <2> QED
    BY <2>2, <2>4, <2>5, SumsCompare
<1>2. Bytes(<<>>) = 0
  <2> DEFINE S == DOMAIN <<>>
             w == [i \in S |-> Size(<<>>[i])]
  <2>1. S = {}
    OBVIOUS
  <2>2. IsFiniteSet(S)
    BY <2>1, FS_EmptySet
  <2>3. PICK g : IsSum(g, w, S) /\ Bytes(<<>>) = g[S]
    BY <2>2, BytesIsSum
  <2> HIDE DEF w
  <2> QED
    BY <2>1, <2>3 DEF IsSum
<1> QED
  BY <1>1, <1>2

\* A room with fewer files is not larger, and one with none is empty.
LEMMA RoomSize ==
  ASSUME NEW f \in Dirs, NEW g \in Dirs, \A d \in Days : g[d] = <<>> \/ g[d] = f[d]
  PROVE  /\ RoomBytes(f) \in Nat /\ RoomBytes(g) \in Nat /\ RoomBytes(g) <= RoomBytes(f)
         /\ HeldDays(g) = {} => RoomBytes(g) = 0
<1> DEFINE v == [d \in Days |-> Bytes(f[d])]
           w == [d \in Days |-> Bytes(g[d])]
<1>1. \A d \in Days : f[d] \in Seq(Entries) /\ g[d] \in Seq(Entries)
  BY DEF Dirs
<1>2. v \in [Days -> Nat] /\ w \in [Days -> Nat]
  BY <1>1, FileSize
<1>3. \A d \in Days : w[d] <= v[d]
  <2> TAKE d \in Days
  <2>1. Bytes(f[d]) \in Nat /\ Bytes(<<>>) = 0
    BY <1>1, FileSize
  <2> QED
    BY <2>1
<1>4. PICK a : IsSum(a, v, Days) /\ RoomBytes(f) = a[Days]
  BY RoomIsSum
<1>5. PICK b : IsSum(b, w, Days) /\ RoomBytes(g) = b[Days]
  BY RoomIsSum
<1>6. ASSUME HeldDays(g) = {} PROVE \A d \in Days : w[d] = 0
  BY <1>6, FileSize DEF HeldDays
<1> HIDE DEF v, w
<1>7. a[Days] \in Nat /\ b[Days] \in Nat /\ b[Days] <= a[Days]
  BY <1>2, <1>3, <1>4, <1>5, FiniteDays, SumsCompare
<1>8. ASSUME HeldDays(g) = {} PROVE b[Days] = 0
  BY <1>5, <1>6, <1>8, FiniteDays, SumOfNothing
<1> QED
  BY <1>4, <1>5, <1>7, <1>8

\* Neither is a store of smaller rooms.
LEMMA StoreSize ==
  ASSUME NEW st \in [Names -> Dirs], NEW st2 \in [Names -> Dirs],
         \A n \in Names : \A d \in Days : st2[n][d] = <<>> \/ st2[n][d] = st[n][d]
  PROVE  TotalBytes(st) \in Nat /\ TotalBytes(st2) \in Nat /\ TotalBytes(st2) <= TotalBytes(st)
<1> DEFINE v == [n \in Names |-> RoomBytes(st[n])]
           w == [n \in Names |-> RoomBytes(st2[n])]
<1>1. ASSUME NEW n \in Names
      PROVE  RoomBytes(st[n]) \in Nat /\ RoomBytes(st2[n]) \in Nat /\ RoomBytes(st2[n]) <= RoomBytes(st[n])
  <2>1. st[n] \in Dirs /\ st2[n] \in Dirs
    OBVIOUS
  <2> QED
    BY <2>1, RoomSize
<1>2. v \in [Names -> Nat] /\ w \in [Names -> Nat] /\ \A n \in Names : w[n] <= v[n]
  BY <1>1
<1>3. PICK a : IsSum(a, v, Names) /\ TotalBytes(st) = a[Names]
  BY TotalIsSum
<1>4. PICK b : IsSum(b, w, Names) /\ TotalBytes(st2) = b[Names]
  BY TotalIsSum
<1> HIDE DEF v, w
<1>5. IsFiniteSet(Names)
  BY TranscriptAssumption
<1>6. a[Names] \in Nat /\ b[Names] \in Nat /\ b[Names] <= a[Names]
  BY <1>2, <1>3, <1>4, <1>5, SumsCompare
<1> QED
  BY <1>3, <1>4, <1>6

-----------------------------------------------------------------------------
\* What a prune does

\* Nothing else takes a record away while nothing is said and no power cut comes:
\* files that a new room or a purge drops then were empty of records.
LEMMA OnlyPruneExpires ==
  ASSUME IInv, [Next]_vars, FilesExpire
  PROVE  PruneStore
<1> USE DEF IInv
<1>1. PICK m \in Names : store'[m] # store[m] /\ Kept(m)' # Kept(m)
  BY DEF FilesExpire
<1>2. said' = said /\ cuts' = cuts /\ cuts \in Nat
  BY DEF FilesExpire, Types
<1>3. ASSUME NEW n \in Names, Create(n) \/ Purge(n) PROVE FALSE
  <2>1. Forget(n)
    BY <1>3 DEF Create, Purge
  <2>2. said[n] = <<>>
    BY <1>2, <2>1 DEF Forget, Types
  <2>3. m = n /\ store'[n] = NoFiles
    BY <1>1, <2>1 DEF Forget, Types
  <2>4. Ids(store[n]) = {}
    BY <2>2 DEF SoundInv, Sound, Ends
  <2>5. store[n] \in Dirs
    BY DEF Types
  <2>6. Kept(n) = {}
    <3> SUFFICES ASSUME NEW e \in Kept(n) PROVE FALSE
      OBVIOUS
    <3>1. PICK d \in Days : e \in ToSet(store[n][d]) /\ e # Torn
      BY DEF Kept
    <3>2. PICK i \in DOMAIN store[n][d] : store[n][d][i] = e
      BY <3>1 DEF ToSet
    <3> QED
      BY <2>4, <2>5, <3>1, <3>2, HeldIsRecord
  <2>7. Kept(n)' = {}
    <3>1. \A d \in Days : ToSet(store'[n][d]) = {}
      BY <2>3 DEF NoFiles, ToSet
    <3> QED
      BY <3>1 DEF Kept
  <2> QED
    BY <1>1, <2>3, <2>6, <2>7
<1>4. ASSUME NEW n \in Names, RecordMessage(n) PROVE FALSE
  <2>1. said[n] \in Seq(1 .. count) /\ said'[n] = Append(said[n], count')
    BY <1>4 DEF RecordMessage, Types
  <2> QED
    BY <1>2, <2>1
<1>5. ASSUME NEW n \in Names, RecordFails(n) PROVE FALSE
  BY <1>2, <1>5 DEF RecordFails
<1>6. ~ PowerCut
  BY <1>2 DEF PowerCut
<1>7. ASSUME NEW n \in Names, Die(n) \/ Register(n) \/ Unregister(n) \/ PruneRoom(n) \/ Relay(n) PROVE FALSE
  BY <1>1, <1>7 DEF Die, Register, Unregister, PruneRoom, Relay
<1>8. ~ Tick /\ ~ UNCHANGED vars
  BY <1>1 DEF Tick, vars
<1> QED
  BY <1>3, <1>4, <1>5, <1>6, <1>7, <1>8 DEF Next, RoomStep

\* Nothing exceeds its cap after a prune but a file that is the only one.
LEMMA PruneFits ==
  ASSUME Types, PruneStore
  PROVE  /\ TotalBytes(store') <= MaxTotalBytes
         /\ \A n \in Names : \/ RoomBytes(store'[n]) <= MaxBytesPerRoom
                             \/ Cardinality(HeldDays(store'[n])) = 1
<1> DEFINE a == [m \in Names |-> Without(store[m], ExpiredDays)]
           b == [m \in Names |-> CapRoom(a[m])]
<1>1. a \in [Names -> Dirs]
  BY WithoutType DEF Types
<1>2. b \in [Names -> Dirs]
  BY <1>1, CapRoomIs, WithoutType
<1>3. b = [m \in Names |-> CapRoom(Without(store[m], ExpiredDays))]
  OBVIOUS
<1>4. store' \in CapTotal(b)
  BY <1>3 DEF PruneStore
<1>5. \A m \in Names : b[m] = CapRoom(a[m])
  OBVIOUS
<1> HIDE DEF a, b
<1>6. TotalBytes(store') <= MaxTotalBytes
  BY <1>2, <1>4, CapTotalIs
<1>7. PICK fs : store' = After(b, fs)
  BY <1>2, <1>4, CapTotalIs
<1>8. ASSUME NEW n \in Names
      PROVE  \/ RoomBytes(store'[n]) <= MaxBytesPerRoom
             \/ Cardinality(HeldDays(store'[n])) = 1
  <2> DEFINE h == store'[n]
  <2>1. h = Without(b[n], {d \in Days : <<n, d>> \in fs})
    BY <1>7 DEF After
  <2>2. b[n] \in Dirs /\ a[n] \in Dirs
    BY <1>1, <1>2
  <2> HIDE DEF h
  <2>3. h \in Dirs /\ \A d \in Days : h[d] = <<>> \/ h[d] = b[n][d]
    <3>1. h \in Dirs
      BY <2>1, <2>2, WithoutType
    <3>2. \A d \in Days : h[d] = <<>> \/ h[d] = b[n][d]
      BY <2>1 DEF Without
    <3> QED
      BY <3>1, <3>2
  <2>4. /\ RoomBytes(b[n]) \in Nat /\ RoomBytes(h) \in Nat /\ RoomBytes(h) <= RoomBytes(b[n])
        /\ HeldDays(h) = {} => RoomBytes(h) = 0
    BY <2>2, <2>3, RoomSize
  <2>5. HeldDays(h) \subseteq HeldDays(b[n])
    BY <2>3 DEF HeldDays
  <2>6. \/ HeldDays(a[n]) = {}
        \/ RoomBytes(b[n]) <= MaxBytesPerRoom
        \/ \E t : HeldDays(b[n]) = {t}
    BY <1>5, <2>2, CapRoomIs
  <2>7. HeldDays(a[n]) = {} => HeldDays(b[n]) = {}
    BY <1>5 DEF CapRoom
  <2>8. MaxBytesPerRoom \in Nat
    BY TranscriptAssumption
  <2>9. CASE HeldDays(h) = {}
    BY <2>4, <2>8, <2>9 DEF h
  <2>10. CASE HeldDays(h) # {} /\ RoomBytes(b[n]) <= MaxBytesPerRoom
    BY <2>4, <2>8, <2>10 DEF h
  <2>11. CASE HeldDays(h) # {} /\ \E t : HeldDays(b[n]) = {t}
    <3>1. PICK t : HeldDays(h) = {t}
      BY <2>5, <2>11
    <3> QED
      BY <3>1, FS_Singleton DEF h
  <2> QED
    BY <2>5, <2>6, <2>7, <2>9, <2>10, <2>11
<1> QED
  BY <1>6, <1>8

\* A prune leaves no more than the store may hold, and no room more than it may,
\* except in a single file.
THEOREM PruneIsBounded == Spec => PruneBounds
<1>1. ASSUME IInv, [Next]_vars, FilesExpire
      PROVE  /\ TotalBytes(store)' <= MaxTotalBytes
             /\ \A n \in Names : \/ RoomBytes(store[n])' <= MaxBytesPerRoom
                                 \/ Cardinality(HeldDays(store[n])') = 1
  BY <1>1, OnlyPruneExpires, PruneFits DEF IInv
<1>2. IInv /\ [Next]_vars =>
        (FilesExpire => /\ TotalBytes(store)' <= MaxTotalBytes
                        /\ \A n \in Names : \/ RoomBytes(store[n])' <= MaxBytesPerRoom
                                            \/ Cardinality(HeldDays(store[n])') = 1)
  BY <1>1
<1> QED
  BY <1>2, Invariant, PTL DEF Spec, PruneBounds

\* Where no cap is reached a prune deletes what expired and nothing else.
LEMMA PruneOnlyExpires ==
  ASSUME Types, PruneStore, TotalBytes(store) <= MaxTotalBytes,
         \A n \in Names : RoomBytes(store[n]) <= MaxBytesPerRoom,
         NEW n \in Names
  PROVE  store'[n] = Without(store[n], ExpiredDays)
<1> DEFINE a == [m \in Names |-> Without(store[m], ExpiredDays)]
<1>1. a \in [Names -> Dirs] /\ store \in [Names -> Dirs]
  BY WithoutType DEF Types
<1>2. \A m \in Names : a[m] = Without(store[m], ExpiredDays)
  OBVIOUS
<1>3. \A m \in Names : \A d \in Days : a[m][d] = <<>> \/ a[m][d] = store[m][d]
  BY DEF Without
<1>4. store' \in CapTotal([m \in Names |-> CapRoom(a[m])])
  BY DEF PruneStore
<1> HIDE DEF a
<1>5. ASSUME NEW m \in Names PROVE CapRoom(a[m]) = a[m]
  <2>1. a[m] \in Dirs /\ store[m] \in Dirs
    BY <1>1
  <2>2. RoomBytes(store[m]) \in Nat /\ RoomBytes(a[m]) \in Nat /\ RoomBytes(a[m]) <= RoomBytes(store[m])
    BY <1>3, <2>1, RoomSize
  <2>3. RoomBytes(a[m]) <= MaxBytesPerRoom
    BY <2>2, TranscriptAssumption
  <2> QED
    BY <2>1, <2>3, CapRoomIs
<1>6. [m \in Names |-> CapRoom(a[m])] = a
  BY <1>1, <1>5
<1>7. TotalBytes(store) \in Nat /\ TotalBytes(a) \in Nat /\ TotalBytes(a) <= TotalBytes(store)
  BY <1>1, <1>3, StoreSize
<1>8. TotalBytes(a) <= MaxTotalBytes
  BY <1>7, TranscriptAssumption
<1>9. store' = a
  BY <1>1, <1>4, <1>6, <1>8, CapTotalIs
<1> QED
  BY <1>2, <1>9

\* When no cap is reached a prune deletes only records past the window, and
\* leaves none that is past it by more than a day.
THEOREM WindowIsKept == Spec => PruneKeepsTheWindow
<1>1. ASSUME IInv, [Next]_vars, FilesExpire, TotalBytes(store) <= MaxTotalBytes,
             \A n \in Names : RoomBytes(store[n]) <= MaxBytesPerRoom,
             NEW n \in Names
      PROVE  /\ \A e \in Kept(n) \ Kept(n)' : e.at + Retention < clock
             /\ \A e \in Kept(n)' : e.at + Retention + TicksPerDay > clock
  <2> DEFINE f == store[n]
             g == store'[n]
             last == Day(clock - Retention)
  <2>1. g = Without(f, ExpiredDays)
    BY <1>1, OnlyPruneExpires, PruneOnlyExpires DEF IInv
  <2>2. f \in Dirs
    BY <1>1 DEF IInv, Types
  <2>3. \A d \in Days : g[d] = IF d < last THEN <<>> ELSE f[d]
    BY <2>1 DEF Without, ExpiredDays
  <2>4. clock \in Int /\ Retention \in Nat /\ TicksPerDay \in Nat /\ clock - Retention \in Int
    BY <1>1, TranscriptAssumption DEF IInv, Types
  <2>5. last \in Int
    BY <2>4, DayOrder
  <2>6. Kept(n)' = {e \in UNION {ToSet(g[d]) : d \in Days} : e # Torn}
    BY DEF Kept
  <2>7. ASSUME NEW d \in Days, NEW e \in ToSet(f[d]), e # Torn PROVE e.at \in Int /\ Day(e.at) = d /\ d \in Int
    <3>1. PICK i \in DOMAIN f[d] : f[d][i] = e
      BY DEF ToSet
    <3>2. e \in Record
      BY <2>2, <2>7, <3>1, HeldIsRecord
    <3>3. Day(e.at) = d
      BY <1>1, <2>7, <3>1 DEF IInv, FiledByDay
    <3>4. e.at \in Int
      BY <3>2, TranscriptAssumption DEF Record
    <3> QED
      BY <3>3, <3>4, DaysAre
  <2> HIDE DEF f, g, last
  <2>8. ASSUME NEW e \in Kept(n) \ Kept(n)' PROVE e.at + Retention < clock
    <3>1. PICK d \in Days : e \in ToSet(f[d]) /\ e # Torn
      BY DEF Kept, f
    <3>2. d < last
      BY <2>3, <2>6, <2>8, <3>1
    <3>3. e.at \in Int /\ Day(e.at) = d /\ d \in Int
      BY <2>7, <3>1
    <3>4. ~ (clock - Retention <= e.at)
      <4>1. clock - Retention <= e.at => Day(clock - Retention) <= Day(e.at)
        BY <2>4, <3>3, DayOrder
      <4> QED
        BY <2>5, <3>2, <3>3, <4>1 DEF last
    <3> QED
      BY <2>4, <3>3, <3>4
  <2>9. ASSUME NEW e \in Kept(n)' PROVE e.at + Retention + TicksPerDay > clock
    <3>1. PICK d \in Days : e \in ToSet(g[d]) /\ e # Torn
      BY <2>6, <2>9
    <3>2. ~ (d < last) /\ e \in ToSet(f[d])
      BY <2>3, <3>1 DEF ToSet
    <3>3. e.at \in Int /\ Day(e.at) = d /\ d \in Int
      BY <2>7, <3>1, <3>2
    <3>4. e.at + TicksPerDay > clock - Retention
      <4>1. Day(e.at) >= Day(clock - Retention) => e.at + TicksPerDay > clock - Retention
        BY <2>4, <3>3, DayOrder
      <4> QED
        BY <2>5, <3>2, <3>3, <4>1 DEF last
    <3> QED
      BY <2>4, <3>3, <3>4
  <2> QED
    BY <2>8, <2>9
<1>2. IInv /\ [Next]_vars =>
        (FilesExpire /\ TotalBytes(store) <= MaxTotalBytes
           /\ (\A n \in Names : RoomBytes(store[n]) <= MaxBytesPerRoom) =>
         \A n \in Names :
           /\ \A e \in Kept(n) \ Kept(n)' : e.at + Retention < clock
           /\ \A e \in Kept(n)' : e.at + Retention + TicksPerDay > clock)
  BY <1>1
<1> QED
  BY <1>2, Invariant, PTL DEF Spec, PruneKeepsTheWindow

-----------------------------------------------------------------------------
\* What is read

\* A file with no half record is read as a whole.
LEMMA ReadableIs ==
  ASSUME NEW X, NEW q \in Seq(X), \A i \in DOMAIN q : q[i] # Torn
  PROVE  Readable(q) = q
<1>1. Len(q) \in Nat /\ DOMAIN q = 1 .. Len(q)
  BY LenProperties
<1>2. {i \in 1 .. Len(q) : q[i] \in {Torn}} \cup {Len(q) + 1} = {Len(q) + 1}
  BY <1>1
<1>3. Min({Len(q) + 1}) = Len(q) + 1
  <2>1. {Len(q) + 1} \subseteq Nat /\ {Len(q) + 1} # {}
    BY <1>1
  <2> QED
    BY <2>1, MinIs
<1>4. Before(q, {Torn}) = SubSeq(q, 1, (Len(q) + 1) - 1)
  BY <1>2, <1>3 DEF Before
<1>5. SubSeq(q, 1, Len(q)) = q
  BY SubSeqFull
<1>6. (Len(q) + 1) - 1 = Len(q)
  BY <1>1
<1> QED
  BY <1>4, <1>5, <1>6 DEF Readable

\* Each part of flat is the one before with one sequence more.
IsFlat(flat, seqs, N) ==
  flat[1] = seqs[1] /\ \A i \in 2 .. N : flat[i] = flat[i - 1] \o seqs[i]

\* FlattenSeq puts one sequence after the other.
LEMMA FlatIs ==
  ASSUME NEW N \in Nat \ {0}, NEW X, NEW seqs \in [1 .. N -> Seq(X)]
  PROVE  \E flat : FlattenSeq(seqs) = flat[N] /\ IsFlat(flat, seqs, N)
<1> DEFINE Part(g, k) == \A i \in 1 .. k : g[i] = IF i = 1 THEN seqs[i] ELSE g[i - 1] \o seqs[i]
           T == {k \in Nat : \E g : Part(g, k) /\ g = [i \in 1 .. k |-> g[i]]}
           flat == CHOOSE flat : flat = [i \in 1 .. N |-> IF i = 1 THEN seqs[i] ELSE flat[i - 1] \o seqs[i]]
<1>1. Len(seqs) = N
  <2>1. seqs \in Seq(Seq(X)) /\ DOMAIN seqs = 1 .. N
    BY SeqDef
  <2> QED
    BY <2>1, LenProperties
<1>2. FlattenSeq(seqs) = flat[N]
  BY <1>1 DEF FlattenSeq
<1>3. 0 \in T
  <2> DEFINE g == [i \in 1 .. 0 |-> 0]
  <2>1. Part(g, 0) /\ g = [i \in 1 .. 0 |-> g[i]]
    OBVIOUS
  <2> QED
    BY <2>1
<1>4. ASSUME NEW k \in Nat, k \in T PROVE k + 1 \in T
  <2>1. PICK g : Part(g, k)
    BY <1>4
  <2> DEFINE h == [i \in 1 .. k + 1 |-> IF i \in 1 .. k THEN g[i]
                     ELSE IF i = 1 THEN seqs[i] ELSE g[i - 1] \o seqs[i]]
  <2>2. /\ \A i \in 1 .. k : h[i] = g[i]
        /\ h[k + 1] = IF k + 1 = 1 THEN seqs[k + 1] ELSE g[k] \o seqs[k + 1]
    <3>1. k + 1 \in 1 .. k + 1 /\ k + 1 \notin 1 .. k /\ (k + 1) - 1 = k
      OBVIOUS
    <3>2. \A i \in 1 .. k : i \in 1 .. k + 1
      OBVIOUS
    <3>3. h[k + 1] = IF k + 1 = 1 THEN seqs[k + 1] ELSE g[(k + 1) - 1] \o seqs[k + 1]
      BY <3>1
    <3>4. \A i \in 1 .. k : h[i] = g[i]
      BY <3>2
    <3> HIDE DEF h
    <3> QED
      BY <3>1, <3>3, <3>4
  <2>3. h = [i \in 1 .. k + 1 |-> h[i]]
    OBVIOUS
  <2> HIDE DEF h
  <2>4. ASSUME NEW i \in 1 .. k + 1 PROVE h[i] = IF i = 1 THEN seqs[i] ELSE h[i - 1] \o seqs[i]
    <3>1. CASE i = k + 1
      <4>1. i # 1 => i - 1 \in 1 .. k /\ i - 1 = k
        BY <3>1
      <4> QED
        BY <2>2, <3>1, <4>1
    <3>2. CASE i \in 1 .. k
      <4>1. i # 1 => i - 1 \in 1 .. k
        BY <3>2
      <4> QED
        BY <2>1, <2>2, <3>2, <4>1
    <3> QED
      BY <3>1, <3>2
  <2>5. Part(h, k + 1)
    BY <2>4
  <2> HIDE DEF Part
  <2> QED
    BY <2>3, <2>5
<1> HIDE DEF T
<1>5. N \in T
  BY <1>3, <1>4, SetInduction
<1>6. PICK g : Part(g, N) /\ g = [i \in 1 .. N |-> g[i]]
  BY <1>5 DEF T
<1>7. g = [i \in 1 .. N |-> IF i = 1 THEN seqs[i] ELSE g[i - 1] \o seqs[i]]
  BY <1>6
<1>8. flat = [i \in 1 .. N |-> IF i = 1 THEN seqs[i] ELSE flat[i - 1] \o seqs[i]]
  BY <1>7
<1> HIDE DEF flat
<1>9. flat[1] = seqs[1] /\ \A i \in 2 .. N : flat[i] = flat[i - 1] \o seqs[i]
  <2>1. \A i \in 1 .. N : flat[i] = IF i = 1 THEN seqs[i] ELSE flat[i - 1] \o seqs[i]
    BY <1>8
  <2>2. 1 \in 1 .. N /\ \A i \in 2 .. N : i \in 1 .. N /\ i # 1
    OBVIOUS
  <2>3. flat[1] = seqs[1]
    BY <2>1, <2>2
  <2>4. \A i \in 2 .. N : flat[i] = flat[i - 1] \o seqs[i]
    BY <2>1, <2>2
  <2> QED
    BY <2>3, <2>4
<1> QED
  BY <1>2, <1>9 DEF IsFlat

\* What is read of a room is its records in order.
LEMMA AllReadableIs ==
  ASSUME NEW n \in Names, store[n] \in Dirs, Ordered(store[n]), ~ HasTorn(n)
  PROVE  /\ AllReadable(n) \in Seq(Record)
         /\ \A i, j \in DOMAIN AllReadable(n) : i < j => AllReadable(n)[i].id < AllReadable(n)[j].id
         /\ \A i \in DOMAIN AllReadable(n) : \E d \in Days : \E j \in DOMAIN store[n][d] :
              AllReadable(n)[i] = store[n][d][j]
         /\ \A d \in Days : \A j \in DOMAIN store[n][d] : \E i \in DOMAIN AllReadable(n) :
              AllReadable(n)[i] = store[n][d][j]
<1> DEFINE f == store[n]
<1>1. PICK last \in Nat : Days = 0 .. last
  BY DaysAre
<1>2. Cardinality(Days) = last + 1
  BY <1>1, FS_Interval
<1>3. PICK N \in Nat \ {0} : N = last + 1
  OBVIOUS
<1> DEFINE seqs == [i \in 1 .. N |-> Readable(f[i - 1])]
<1>4. ASSUME NEW d \in Days PROVE f[d] \in Seq(Record) /\ Readable(f[d]) = f[d]
  <2>1. f[d] \in Seq(Entries)
    BY DEF Dirs
  <2>2. \A i \in DOMAIN f[d] : f[d][i] # Torn
    BY DEF HasTorn, ToSet
  <2>3. \A i \in 1 .. Len(f[d]) : f[d][i] \in Record
    BY <2>1, <2>2, ElementOfSeq, LenProperties DEF Entries
  <2>4. f[d] \in Seq(Record)
    <3>1. f[d] = [i \in 1 .. Len(f[d]) |-> f[d][i]] /\ Len(f[d]) \in Nat
      BY <2>1, LenProperties
    <3> HIDE DEF f
    <3> QED
      BY <2>3, <3>1, SeqDef
  <2> QED
    BY <2>1, <2>2, <2>4, ReadableIs
<1>5. \A i \in 1 .. N : i - 1 \in Days /\ seqs[i] = f[i - 1] /\ f[i - 1] \in Seq(Record)
  BY <1>1, <1>4, <1>3
<1>6. seqs \in [1 .. N -> Seq(Record)]
  BY <1>5
<1>7. AllReadable(n) = FlattenSeq(seqs)
  BY <1>2, <1>3 DEF AllReadable
<1>8. ASSUME NEW d \in Days, NEW e \in Days, NEW i \in DOMAIN f[d], NEW j \in DOMAIN f[e],
              d < e \/ (d = e /\ i < j)
       PROVE  f[d][i].id < f[e][j].id
  <2>1. f[d][i] # Torn /\ f[e][j] # Torn
    BY DEF HasTorn, ToSet
  <2> QED
    BY <1>8, <2>1 DEF Ordered
<1> HIDE DEF f, seqs
<1>9. PICK flat : FlattenSeq(seqs) = flat[N] /\ IsFlat(flat, seqs, N)
  BY <1>6, FlatIs
<1> DEFINE Fine(k) ==
             /\ flat[k] \in Seq(Record)
             /\ \A i, j \in DOMAIN flat[k] : i < j => flat[k][i].id < flat[k][j].id
             /\ \A i \in DOMAIN flat[k] : \E d \in Days : \E j \in DOMAIN f[d] :
                  flat[k][i] = f[d][j] /\ d < k
             /\ \A d \in Days : \A j \in DOMAIN f[d] : d < k =>
                  \E i \in DOMAIN flat[k] : flat[k][i] = f[d][j]
           T == {k \in Nat : k + 1 <= N => Fine(k + 1)}
<1>10. 0 \in T
  <2>1. flat[1] = f[0] /\ f[0] \in Seq(Record) /\ 0 \in Days
    BY <1>1, <1>5, <1>9, <1>3 DEF IsFlat
  <2>2. \A d \in Days : d < 1 <=> d = 0
    BY <1>1
  <2>3. \A i, j \in DOMAIN f[0] : i < j => f[0][i].id < f[0][j].id
    BY <1>8, <2>1
  <2>4. Fine(1)
    BY <2>1, <2>2, <2>3
  <2> QED
    BY <2>4
<1>11. ASSUME NEW k \in Nat, k \in T PROVE k + 1 \in T
  <2>1. k + 1 + 1 = k + 2
    OBVIOUS
  <2> SUFFICES ASSUME k + 2 <= N PROVE Fine(k + 2)
    <3> HIDE DEF Fine
    <3> QED
      BY <2>1
  <2> DEFINE a == flat[k + 1]
             b == f[k + 1]
             c == flat[k + 2]
  <2>2. Fine(k + 1)
    BY <1>11
  <2>3. k + 1 \in Days /\ b \in Seq(Record) /\ c = a \o b
    <3>1. PICK i \in 2 .. N : i = k + 2
      BY <1>3
    <3>2. flat[i] = flat[i - 1] \o seqs[i]
      BY <1>9 DEF IsFlat
    <3>3. i \in 1 .. N /\ i - 1 = k + 1
      BY <3>1
    <3>4. i - 1 \in Days /\ seqs[i] = f[i - 1] /\ f[i - 1] \in Seq(Record)
      BY <1>5, <3>3
    <3> QED
      BY <3>1, <3>2, <3>3, <3>4
  <2> HIDE DEF a, b, c
  <2>4. /\ a \in Seq(Record)
        /\ \A i, j \in DOMAIN a : i < j => a[i].id < a[j].id
        /\ \A i \in DOMAIN a : \E d \in Days : \E j \in DOMAIN f[d] : a[i] = f[d][j] /\ d < k + 1
        /\ \A d \in Days : \A j \in DOMAIN f[d] : d < k + 1 => \E i \in DOMAIN a : a[i] = f[d][j]
    BY <2>2 DEF a
  <2>5. /\ Len(a) \in Nat /\ DOMAIN a = 1 .. Len(a) /\ Len(b) \in Nat /\ DOMAIN b = 1 .. Len(b)
        /\ c \in Seq(Record) /\ DOMAIN c = 1 .. Len(a) + Len(b)
        /\ \A i \in 1 .. Len(a) : c[i] = a[i]
        /\ \A i \in Len(a) + 1 .. Len(a) + Len(b) : i - Len(a) \in 1 .. Len(b) /\ c[i] = b[i - Len(a)]
    <3>1. Len(a) \in Nat /\ DOMAIN a = 1 .. Len(a) /\ Len(b) \in Nat /\ DOMAIN b = 1 .. Len(b)
      BY <2>3, <2>4, LenProperties
    <3>2. c \in Seq(Record) /\ Len(c) = Len(a) + Len(b)
          /\ \A i \in 1 .. Len(a) + Len(b) : c[i] = IF i <= Len(a) THEN a[i] ELSE b[i - Len(a)]
      BY <2>3, <2>4, ConcatProperties
    <3>3. DOMAIN c = 1 .. Len(c)
      BY <3>2, LenProperties
    <3> QED
      BY <3>1, <3>2, <3>3
  <2>6. ASSUME NEW i \in DOMAIN c, NEW j \in DOMAIN c, i < j PROVE c[i].id < c[j].id
    <3>1. CASE j \in DOMAIN a
      <4>1. i \in DOMAIN a /\ c[i] = a[i] /\ c[j] = a[j]
        BY <2>5, <2>6, <3>1
      <4> QED
        BY <2>4, <2>6, <3>1, <4>1
    <3>2. CASE i \notin DOMAIN a
      <4> DEFINE s == i - Len(a)
                 t == j - Len(a)
      <4>1. s \in DOMAIN b /\ t \in DOMAIN b /\ s < t /\ c[i] = b[s] /\ c[j] = b[t]
        BY <2>5, <2>6, <3>2
      <4> HIDE DEF s, t
      <4> QED
        BY <1>8, <2>3, <4>1 DEF b
    <3>3. CASE i \in DOMAIN a /\ j \notin DOMAIN a
      <4> DEFINE t == j - Len(a)
      <4>1. t \in DOMAIN b /\ c[i] = a[i] /\ c[j] = b[t]
        BY <2>5, <2>6, <3>3
      <4>2. PICK d \in Days : \E l \in DOMAIN f[d] : a[i] = f[d][l] /\ d < k + 1
        BY <2>4, <3>3
      <4>3. PICK l \in DOMAIN f[d] : a[i] = f[d][l] /\ d < k + 1
        BY <4>2
      <4> HIDE DEF t
      <4> QED
        BY <1>8, <2>3, <4>1, <4>3 DEF b
    <3> QED
      BY <3>1, <3>2, <3>3
  <2>7. ASSUME NEW i \in DOMAIN c PROVE \E d \in Days : \E j \in DOMAIN f[d] : c[i] = f[d][j] /\ d < k + 2
    <3>1. CASE i \in DOMAIN a
      <4>1. PICK d \in Days : \E l \in DOMAIN f[d] : a[i] = f[d][l] /\ d < k + 1
        BY <2>4, <3>1
      <4>2. c[i] = a[i] /\ d < k + 2
        BY <1>1, <2>5, <3>1, <4>1
      <4> QED
        BY <4>1, <4>2
    <3>2. CASE i \notin DOMAIN a
      <4> DEFINE t == i - Len(a)
      <4>1. t \in DOMAIN b /\ c[i] = b[t]
        BY <2>5, <3>2
      <4> HIDE DEF t
      <4>2. k + 1 < k + 2
        OBVIOUS
      <4> QED
        BY <2>3, <4>1, <4>2 DEF b
    <3> QED
      BY <3>1, <3>2
  <2>8. ASSUME NEW d \in Days, NEW j \in DOMAIN f[d], d < k + 2 PROVE \E i \in DOMAIN c : c[i] = f[d][j]
    <3>1. CASE d = k + 1
      <4> DEFINE i == Len(a) + j
      <4>1. j \in 1 .. Len(b)
        BY <2>5, <3>1 DEF b
      <4>2. i \in DOMAIN c /\ i \in Len(a) + 1 .. Len(a) + Len(b) /\ i - Len(a) = j
        BY <2>5, <4>1
      <4>3. c[i] = b[j]
        BY <2>5, <4>2
      <4> QED
        BY <3>1, <4>2, <4>3 DEF b
    <3>2. CASE d # k + 1
      <4>1. d < k + 1
        BY <1>1, <2>8, <3>2
      <4>2. PICK i \in DOMAIN a : a[i] = f[d][j]
        BY <2>4, <4>1
      <4>3. i \in DOMAIN c /\ c[i] = a[i]
        BY <2>5
      <4> QED
        BY <4>2, <4>3
    <3> QED
      BY <3>1, <3>2
  <2> QED
    BY <2>5, <2>6, <2>7, <2>8 DEF c
<1> HIDE DEF T
<1>12. last \in T
  BY <1>10, <1>11, SetInduction
<1>13. Fine(N)
  <2>1. last + 1 <= N => Fine(last + 1)
    BY <1>12 DEF T
  <2> HIDE DEF Fine
  <2> QED
    BY <1>3, <2>1
<1>14. AllReadable(n) = flat[N] /\ \A d \in Days : d < N
  BY <1>1, <1>7, <1>9, <1>3
<1> QED
  BY <1>13, <1>14 DEF f

-----------------------------------------------------------------------------
\* The end of a sequence

\* The last n of s are the last n of t.
SameEnd(s, t, n) == n <= Len(s) /\ n <= Len(t) /\ \A k \in 0 .. n - 1 : s[Len(s) - k] = t[Len(t) - k]

\* Counting from the end.
LEMMA FromTheEnd ==
  ASSUME NEW N \in Nat, NEW k \in Nat, k <= N, NEW z, z = N - k
  PROVE  /\ \A l \in 1 .. N : z < l => N - l \in 0 .. k - 1 /\ l = N - (N - l)
         /\ \A j \in 0 .. k - 1 : N - j \in 1 .. N /\ z < N - j
         /\ \A i \in 1 .. N : i <= z => z \in 1 .. N
OBVIOUS

\* a holds only what q holds, and with each item all that follows it in q.
UpperPart(a, q) ==
  /\ \A i \in DOMAIN a : \E k \in DOMAIN q : q[k] = a[i]
  /\ \A k, l \in DOMAIN q : k < l /\ (\E i \in DOMAIN a : a[i] = q[k])
       => \E i \in DOMAIN a : a[i] = q[l]

\* An ascending sequence of what is in another, and of all that follows it there,
\* is the end of it.
LEMMA UpperPartIsEnd ==
  ASSUME NEW a \in Seq(Nat), NEW q \in Seq(Nat), Ascends(a), Ascends(q), UpperPart(a, q)
  PROVE  SameEnd(a, q, Len(a))
<1> DEFINE T == {k \in Nat : k <= Len(a) => SameEnd(a, q, k)}
<1>1. /\ Len(a) \in Nat /\ DOMAIN a = 1 .. Len(a) /\ \A i \in DOMAIN a : a[i] \in Nat
      /\ Len(q) \in Nat /\ DOMAIN q = 1 .. Len(q) /\ \A i \in DOMAIN q : q[i] \in Nat
  BY LenProperties, ElementOfSeq
<1>2. 0 \in T
  BY <1>1 DEF SameEnd
<1>3. ASSUME NEW k \in Nat, k \in T PROVE k + 1 \in T
  <2> SUFFICES ASSUME k + 1 <= Len(a) PROVE SameEnd(a, q, k + 1)
    OBVIOUS
  <2>1. PICK z, y : z = Len(a) - k /\ y = Len(q) - k
    OBVIOUS
  <2>2. k <= Len(q) /\ \A j \in 0 .. k - 1 : a[Len(a) - j] = q[Len(q) - j]
    BY <1>1, <1>3 DEF SameEnd
  <2>3. z \in DOMAIN a /\ z \in Nat /\ y \in Nat
    BY <1>1, <2>2, <2>1
  <2>4. PICK i \in DOMAIN q : q[i] = a[z]
    BY <2>3 DEF UpperPart
  <2>5. ASSUME NEW l \in DOMAIN a, a[z] < a[l] PROVE \E j \in 0 .. k - 1 : l = Len(a) - j
    <3>1. ~ (l < z) /\ l # z
      <4>1. a[z] \in Nat /\ a[l] \in Nat
        BY <1>1, <2>3
      <4>2. l < z => a[l] < a[z]
        BY <2>3 DEF Ascends
      <4> QED
        BY <2>5, <4>1, <4>2
    <3>2. l \in 1 .. Len(a) /\ z < l
      BY <1>1, <2>3, <3>1
    <3>3. Len(a) - l \in 0 .. k - 1 /\ l = Len(a) - (Len(a) - l)
      <4>1. Len(a) \in Nat /\ k <= Len(a)
        BY <1>1
      <4> QED
        BY <2>1, <3>2, <4>1, FromTheEnd
    <3> QED
      BY <3>3
  <2>6. i <= y
    <3> SUFFICES ASSUME i > y PROVE FALSE
      BY <1>1, <2>3
    <3> DEFINE j == Len(q) - i
    <3>1. i \in 1 .. Len(q) /\ y < i /\ Len(q) \in Nat
      BY <1>1, <2>3
    <3>2. j \in 0 .. k - 1 /\ i = Len(q) - j
      BY <2>2, <2>1, <3>1, FromTheEnd
    <3> HIDE DEF j
    <3>3. Len(a) - j \in 1 .. Len(a) /\ z < Len(a) - j
      <4>1. Len(a) \in Nat /\ k <= Len(a)
        BY <1>1
      <4> QED
        BY <2>1, <3>2, <4>1, FromTheEnd
    <3>4. j \in 0 .. k - 1 /\ i = Len(q) - j /\ Len(a) - j \in DOMAIN a /\ z < Len(a) - j
      BY <1>1, <3>2, <3>3
    <3>5. q[i] = a[Len(a) - j]
      BY <2>2, <3>4
    <3>6. a[z] < a[Len(a) - j]
      BY <2>3, <3>4 DEF Ascends
    <3>7. a[z] \in Nat
      BY <1>1, <2>3
    <3> QED
      BY <2>4, <3>5, <3>6, <3>7
  <2>7. y \in DOMAIN q
    <3>1. i \in 1 .. Len(q) /\ Len(q) \in Nat
      BY <1>1
    <3>2. y \in 1 .. Len(q)
      BY <2>1, <2>2, <2>6, <3>1, FromTheEnd
    <3> QED
      BY <1>1, <3>2
  <2>8. i = y
    <3>1. i \in Nat
      BY <1>1
    <3> SUFFICES ASSUME i < y PROVE FALSE
      BY <2>3, <2>6, <3>1
    <3>2. q[i] < q[y]
      BY <2>7 DEF Ascends
    <3>3. PICK l \in DOMAIN a : a[l] = q[y]
      BY <2>3, <2>4, <2>7 DEF UpperPart
    <3>4. PICK j \in 0 .. k - 1 : l = Len(a) - j
      BY <2>4, <2>5, <3>2, <3>3
    <3>5. q[Len(q) - j] = q[y]
      BY <2>2, <3>3, <3>4
    <3>6. Len(q) - j \in DOMAIN q /\ y < Len(q) - j
      <4>1. Len(q) \in Nat /\ k <= Len(q)
        BY <1>1, <2>2
      <4>2. Len(q) - j \in 1 .. Len(q) /\ y < Len(q) - j
        BY <2>1, <3>4, <4>1, FromTheEnd
      <4> QED
        BY <1>1, <4>2
    <3>7. q[y] < q[Len(q) - j]
      BY <2>7, <3>6 DEF Ascends
    <3> QED
      BY <1>1, <2>7, <3>5, <3>7
  <2>9. k + 1 <= Len(q)
    BY <1>1, <2>7, <2>1
  <2>10. \A j \in 0 .. k : a[Len(a) - j] = q[Len(q) - j]
    <3> TAKE j \in 0 .. k
    <3>1. CASE j = k
      BY <2>4, <2>8, <2>1, <3>1
    <3>2. CASE j # k
      <4>1. j \in 0 .. k - 1
        BY <3>2
      <4> QED
        BY <2>2, <4>1
    <3> QED
      BY <3>1, <3>2
  <2>11. (k + 1) - 1 = k
    OBVIOUS
  <2> QED
    BY <2>9, <2>10, <2>11 DEF SameEnd
<1> HIDE DEF T
<1>4. Len(a) \in T
  BY <1>1, <1>2, <1>3, SetInduction
<1> QED
  BY <1>1, <1>4 DEF T

\* Agreeing from the end is being a suffix.
LEMMA EndIsSuffix ==
  ASSUME NEW X, NEW s \in Seq(X), NEW t \in Seq(X), SameEnd(s, t, Len(s))
  PROVE  IsSuffix(s, t)
<1> DEFINE r == Reverse(s)
           u == Reverse(t)
<1>1. Len(s) \in Nat /\ Len(t) \in Nat /\ DOMAIN s = 1 .. Len(s) /\ DOMAIN t = 1 .. Len(t)
  BY LenProperties
<1>2. r \in Seq(X) /\ u \in Seq(X) /\ Len(r) = Len(s) /\ Len(u) = Len(t)
  <2>1. \A i \in 1 .. Len(s) : s[(Len(s) - i) + 1] \in X
    BY <1>1, ElementOfSeq
  <2>2. \A i \in 1 .. Len(t) : t[(Len(t) - i) + 1] \in X
    BY <1>1, ElementOfSeq
  <2>3. r \in [1 .. Len(s) -> X] /\ u \in [1 .. Len(t) -> X]
    BY <2>1, <2>2 DEF Reverse
  <2>4. r \in Seq(X) /\ u \in Seq(X)
    <3> HIDE DEF r, u
    <3>1. Seq(X) = UNION {[1 .. n -> X] : n \in Nat}
      BY SeqDef, Zenon
    <3> QED
      BY <1>1, <2>3, <3>1
  <2>5. DOMAIN r = 1 .. Len(s) /\ DOMAIN u = 1 .. Len(t)
    BY <2>3
  <2> HIDE DEF r, u
  <2> QED
    BY <1>1, <2>4, <2>5, LenProperties
<1>3. \A i \in 1 .. Len(s) : r[i] = s[(Len(s) - i) + 1]
  BY DEF Reverse
<1>4. \A i \in 1 .. Len(t) : u[i] = t[(Len(t) - i) + 1]
  BY DEF Reverse
<1>5. Len(s) <= Len(t) /\ \A k \in 0 .. Len(s) - 1 : s[Len(s) - k] = t[Len(t) - k]
  BY DEF SameEnd
<1>6. ASSUME NEW i \in 1 .. Len(s) PROVE r[i] = u[i]
  <2>1. i - 1 \in 0 .. Len(s) - 1 /\ i \in 1 .. Len(t)
    BY <1>1, <1>5
  <2>2. s[Len(s) - (i - 1)] = t[Len(t) - (i - 1)]
    BY <1>5, <2>1
  <2>3. Len(s) - (i - 1) = (Len(s) - i) + 1 /\ Len(t) - (i - 1) = (Len(t) - i) + 1
    BY <1>1
  <2> HIDE DEF r, u
  <2> QED
    BY <1>3, <1>4, <2>1, <2>2, <2>3
<1> HIDE DEF r, u
<1>7. SubSeq(r, 1, Len(r)) = SubSeq(u, 1, Len(r))
  <2>1. Len(s) \in 0 .. Len(r) /\ Len(s) \in 0 .. Len(u)
    BY <1>1, <1>2, <1>5
  <2>2. /\ SubSeq(r, 1, Len(s)) \in Seq(X) /\ Len(SubSeq(r, 1, Len(s))) = Len(s)
        /\ \A i \in 1 .. Len(s) : SubSeq(r, 1, Len(s))[i] = r[i]
    BY <1>2, <2>1, FrontIs
  <2>3. /\ SubSeq(u, 1, Len(s)) \in Seq(X) /\ Len(SubSeq(u, 1, Len(s))) = Len(s)
        /\ \A i \in 1 .. Len(s) : SubSeq(u, 1, Len(s))[i] = u[i]
    BY <1>2, <2>1, FrontIs
  <2>4. SubSeq(r, 1, Len(s)) = SubSeq(u, 1, Len(s))
    BY <1>6, <2>2, <2>3, SeqEqual
  <2> QED
    BY <1>2, <2>4
<1> QED
  BY <1>2, <1>5, <1>7 DEF IsSuffix, IsPrefix, r, u

-----------------------------------------------------------------------------
\* What is replayed

\* The replay is the ids of some of the last records; of one at least, if the
\* last is within the window.
LEMMA ReplayIs ==
  ASSUME NEW n \in Names, AllReadable(n) \in Seq(Record), clock \in Nat
  PROVE  \E m \in 0 .. Len(AllReadable(n)) :
           /\ Replayed(n) \in Seq(Nat) /\ Len(Replayed(n)) = m
           /\ \A i \in 1 .. m : Replayed(n)[i] = AllReadable(n)[Len(AllReadable(n)) - m + i].id
           /\ AllReadable(n) # <<>> /\ AllReadable(n)[Len(AllReadable(n))].at = clock => m # 0
<1> DEFINE recs == AllReadable(n)
           taken == {k \in 0 .. Len(recs) : \A i \in 1 .. k : Taken(recs, i)}
           m == Max(taken)
<1>1. recs \in Seq(Record) /\ Len(recs) \in Nat /\ DOMAIN recs = 1 .. Len(recs)
  BY LenProperties
<1>2. taken \subseteq 0 .. Len(recs) /\ 0 \in taken
  BY <1>1
<1>3. m \in 0 .. Len(recs) /\ \A y \in taken : y <= m
  <2> HIDE DEF taken
  <2> QED
    BY <1>1, <1>2, MaxIs
<1>4. Recent(n) = SubSeq(recs, Len(recs) - m + 1, Len(recs))
  BY DEF Recent
<1>5. ASSUME recs # <<>>, recs[Len(recs)].at = clock PROVE m # 0
  <2>1. Len(recs) >= 1
    BY <1>1, <1>5
  <2>2. Taken(recs, 1)
    <3>1. Len(recs) - 1 + 1 = Len(recs)
      BY <1>1
    <3>2. clock + Retention >= clock /\ 1 <= ReplayCount
      BY TranscriptAssumption
    <3> QED
      BY <1>5, <3>1, <3>2 DEF Taken
  <2>3. 1 \in taken
    <3>1. \A i \in 1 .. 1 : i = 1
      OBVIOUS
    <3>2. 1 \in 0 .. Len(recs)
      BY <1>1, <2>1
    <3> HIDE DEF recs
    <3> QED
      BY <2>2, <3>1, <3>2
  <2> QED
    BY <1>3, <2>3
<1> HIDE DEF recs, taken, m
<1>6. /\ Recent(n) \in Seq(Record) /\ Len(Recent(n)) = m
      /\ \A i \in 1 .. m : Recent(n)[i] = recs[Len(recs) - m + i]
  <2>1. Len(recs) - m + 1 \in Int /\ Len(recs) \in Int
    BY <1>1, <1>3
  <2>2. /\ SubSeq(recs, Len(recs) - m + 1, Len(recs)) \in Seq(Record)
        /\ Len(SubSeq(recs, Len(recs) - m + 1, Len(recs))) = m
        /\ \A i \in 1 .. m : SubSeq(recs, Len(recs) - m + 1, Len(recs))[i] = recs[Len(recs) - m + i]
    BY <1>1, <1>3
  <2> QED
    BY <1>4, <2>2
<1>7. DOMAIN Recent(n) = 1 .. m
  BY <1>6, LenProperties
<1>8. Replayed(n) = [i \in 1 .. m |-> Recent(n)[i].id]
  BY <1>7 DEF Replayed, Shown
<1>9. ASSUME NEW i \in 1 .. m PROVE Replayed(n)[i] = recs[Len(recs) - m + i].id /\ Replayed(n)[i] \in Nat
  <2>1. Recent(n)[i] \in Record
    BY <1>6, ElementOfSeq
  <2>2. Recent(n)[i].id \in Nat
    BY <2>1, TranscriptAssumption DEF Record
  <2> QED
    BY <1>6, <1>8, <2>2
<1>10. Replayed(n) \in Seq(Nat) /\ Len(Replayed(n)) = m
  <2>1. Replayed(n) \in [1 .. m -> Nat]
    BY <1>8, <1>9
  <2>2. m \in Nat
    BY <1>3
  <2>3. Replayed(n) \in Seq(Nat)
    BY <2>1, <2>2, SeqDef
  <2>4. DOMAIN Replayed(n) = 1 .. m
    BY <2>1
  <2> QED
    BY <2>2, <2>3, <2>4, LenProperties
<1> QED
  BY <1>3, <1>5, <1>9, <1>10 DEF recs

\* With no half record about, the ids of the records a room holds are the end of
\* what was recorded.
LEMMA HeldIsEnd ==
  ASSUME IInv, NEW n \in Names, ~ HasTorn(n)
  PROVE  /\ AllReadable(n) \in Seq(Record) /\ said[n] \in Seq(Nat)
         /\ Len(AllReadable(n)) <= Len(said[n])
         /\ \A k \in 0 .. Len(AllReadable(n)) - 1 :
              AllReadable(n)[Len(AllReadable(n)) - k].id = said[n][Len(said[n]) - k]
<1> DEFINE recs == AllReadable(n)
           f == store[n]
           q == said[n]
           a == [i \in 1 .. Len(recs) |-> recs[i].id]
<1>1. f \in Dirs /\ Ascends(q) /\ Ordered(f) /\ Ends(f, q)
  BY DEF IInv, Types, SoundInv, Sound
<1>2. q \in Seq(Nat)
  <2>1. said[n] \in Seq(1 .. count) /\ 1 .. count \subseteq Nat
    BY DEF IInv, Types
  <2> QED
    BY <2>1, SeqMonotonic
<1>3. /\ recs \in Seq(Record)
      /\ \A i, j \in DOMAIN recs : i < j => recs[i].id < recs[j].id
      /\ \A i \in DOMAIN recs : \E d \in Days : \E j \in DOMAIN f[d] : recs[i] = f[d][j]
      /\ \A d \in Days : \A j \in DOMAIN f[d] : \E i \in DOMAIN recs : recs[i] = f[d][j]
  BY <1>1, AllReadableIs
<1>4. \A d \in Days : \A j \in DOMAIN f[d] : f[d][j] # Torn
  BY DEF HasTorn, ToSet
<1> HIDE DEF recs, f, q
<1>5. Len(recs) \in Nat /\ DOMAIN recs = 1 .. Len(recs)
  BY <1>3, LenProperties
<1>6. \A i \in 1 .. Len(recs) : recs[i].id \in Nat
  <2> TAKE i \in 1 .. Len(recs)
  <2>1. recs[i] \in Record
    BY <1>3, <1>5, ElementOfSeq
  <2> QED
    BY <2>1, TranscriptAssumption DEF Record
<1>7. a \in Seq(Nat) /\ DOMAIN a = 1 .. Len(recs) /\ Len(a) = Len(recs)
  <2>1. a \in [1 .. Len(recs) -> Nat]
    BY <1>6
  <2>2. a \in Seq(Nat) /\ DOMAIN a = 1 .. Len(recs)
    BY <1>5, <2>1, SeqDef
  <2> HIDE DEF a
  <2> QED
    BY <1>5, <2>2, LenProperties
<1>8. \A i \in 1 .. Len(recs) : a[i] = recs[i].id
  OBVIOUS
<1> HIDE DEF a
<1>9. Ascends(a)
  BY <1>3, <1>5, <1>7, <1>8 DEF Ascends
<1>10. ASSUME NEW x PROVE x \in Ids(f) <=> \E i \in DOMAIN a : a[i] = x
  <2>1. ASSUME x \in Ids(f) PROVE \E i \in DOMAIN a : a[i] = x
    <3>1. PICK d \in Days : \E j \in DOMAIN f[d] : f[d][j].id = x
      BY <2>1 DEF Ids
    <3>2. PICK j \in DOMAIN f[d] : f[d][j].id = x
      BY <3>1
    <3>3. PICK i \in DOMAIN recs : recs[i] = f[d][j]
      BY <1>3
    <3> QED
      BY <1>5, <1>7, <1>8, <3>2, <3>3
  <2>2. ASSUME NEW i \in DOMAIN a, a[i] = x PROVE x \in Ids(f)
    <3>1. i \in DOMAIN recs /\ recs[i].id = x
      BY <1>5, <1>7, <1>8, <2>2
    <3>2. PICK d \in Days : \E j \in DOMAIN f[d] : recs[i] = f[d][j]
      BY <1>3, <3>1
    <3>3. PICK j \in DOMAIN f[d] : recs[i] = f[d][j]
      BY <3>2
    <3> QED
      BY <1>1, <1>4, <3>1, <3>3, HeldIsRecord
  <2> QED
    BY <2>1, <2>2
<1>11. UpperPart(a, q)
  BY <1>1, <1>10 DEF UpperPart, Ends
<1>12. SameEnd(a, q, Len(a))
  BY <1>1, <1>2, <1>7, <1>9, <1>11, UpperPartIsEnd
<1>13. ASSUME NEW k \in 0 .. Len(recs) - 1 PROVE recs[Len(recs) - k].id = q[Len(q) - k]
  <2>1. Len(recs) - k \in 1 .. Len(recs)
    BY <1>5
  <2>2. a[Len(recs) - k] = q[Len(q) - k]
    BY <1>7, <1>12 DEF SameEnd
  <2> QED
    BY <1>8, <2>1, <2>2
<1>14. Len(recs) <= Len(q)
  BY <1>7, <1>12 DEF SameEnd
<1> QED
  BY <1>2, <1>3, <1>13, <1>14 DEF recs, q

\* So what is replayed is the end of what was recorded.
LEMMA ReplayIsEnd ==
  ASSUME IInv, NEW n \in Names, ~ HasTorn(n)
  PROVE  Replayed(n) \in Seq(Nat) /\ said[n] \in Seq(Nat) /\ SameEnd(Replayed(n), said[n], Len(Replayed(n)))
<1> DEFINE recs == AllReadable(n)
           q == said[n]
           r == Replayed(n)
<1>1. /\ recs \in Seq(Record) /\ q \in Seq(Nat) /\ Len(recs) <= Len(q)
      /\ \A k \in 0 .. Len(recs) - 1 : recs[Len(recs) - k].id = q[Len(q) - k]
  BY HeldIsEnd
<1>2. PICK m \in 0 .. Len(recs) :
        /\ r \in Seq(Nat) /\ Len(r) = m
        /\ \A i \in 1 .. m : r[i] = recs[Len(recs) - m + i].id
  <2>1. clock \in Nat
    BY TranscriptAssumption DEF IInv, Types
  <2> QED
    BY <1>1, <2>1, ReplayIs
<1> HIDE DEF recs, q, r
<1>3. Len(recs) \in Nat /\ Len(q) \in Nat /\ m \in Nat
  BY <1>1, LenProperties
<1>4. ASSUME NEW k \in 0 .. m - 1 PROVE r[m - k] = q[Len(q) - k]
  <2>1. PICK i \in 1 .. m : i = m - k
    BY <1>3
  <2>2. Len(recs) - m + i = Len(recs) - k /\ k \in 0 .. Len(recs) - 1
    BY <1>3, <2>1
  <2>3. r[i] = recs[Len(recs) - k].id
    BY <1>2, <2>2
  <2> QED
    BY <1>1, <2>1, <2>2, <2>3
<1>5. SameEnd(r, q, m)
  BY <1>1, <1>2, <1>3, <1>4 DEF SameEnd
<1> QED
  BY <1>1, <1>2, <1>5 DEF r, q

\* What a member is shown is the end of the room's conversation, in order and
\* without a gap, whatever expiry, the two caps and lost tails took from it,
\* unless there is half a record in one of its files.
THEOREM NoGaps == Spec => []ReplayHasNoGaps
<1>1. IInv => ReplayHasNoGaps
  <2> SUFFICES ASSUME IInv, NEW n \in Names, ~ HasTorn(n) PROVE IsSuffix(Replayed(n), said[n])
    BY DEF ReplayHasNoGaps
  <2> QED
    BY ReplayIsEnd, EndIsSuffix
<1> QED
  BY <1>1, Invariant, PTL

-----------------------------------------------------------------------------
\* What was just recorded

\* The last of what was recorded is still held, and was recorded now.
Fresh(n) ==
  /\ said[n] # <<>> /\ Last(said[n]) = count /\ count \in Ids(store[n])
  /\ \A d \in Days : \A i \in DOMAIN store[n][d] : store[n][d][i].id = count => store[n][d][i].at = clock

\* Then it is shown, over whatever limit it may be.
LEMMA FreshIsShown == \A n \in Names : IInv /\ Fresh(n) /\ ~ HasTorn(n) => ShowsNewest(n)
<1> SUFFICES ASSUME NEW n \in Names, IInv, Fresh(n), ~ HasTorn(n) PROVE ShowsNewest(n)
  OBVIOUS
<1> DEFINE recs == AllReadable(n)
           q == said[n]
           r == Replayed(n)
           f == store[n]
<1>1. /\ recs \in Seq(Record) /\ q \in Seq(Nat) /\ Len(recs) <= Len(q)
      /\ \A k \in 0 .. Len(recs) - 1 : recs[Len(recs) - k].id = q[Len(q) - k]
  BY HeldIsEnd
<1>2. /\ \A i \in DOMAIN recs : \E d \in Days : \E j \in DOMAIN f[d] : recs[i] = f[d][j]
      /\ \A d \in Days : \A j \in DOMAIN f[d] : \E i \in DOMAIN recs : recs[i] = f[d][j]
  <2>1. f \in Dirs /\ Ordered(f)
    BY DEF IInv, Types, SoundInv, Sound
  <2> QED
    BY <2>1, AllReadableIs
<1>3. PICK m \in 0 .. Len(recs) :
        /\ r \in Seq(Nat) /\ Len(r) = m
        /\ recs # <<>> /\ recs[Len(recs)].at = clock => m # 0
  <2>1. clock \in Nat
    BY TranscriptAssumption DEF IInv, Types
  <2> QED
    BY <1>1, <2>1, ReplayIs
<1>4. SameEnd(r, q, Len(r))
  BY ReplayIsEnd
<1>5. q # <<>> /\ q[Len(q)] = count
  BY DEF Fresh, Last
<1>6. \E d \in Days : \E j \in DOMAIN f[d] : f[d][j].id = count
  BY DEF Fresh, Ids
<1>7. \A d \in Days : \A j \in DOMAIN f[d] : f[d][j].id = count => f[d][j].at = clock
  BY DEF Fresh
<1> HIDE DEF recs, q, r, f
<1>8. Len(recs) \in Nat /\ DOMAIN recs = 1 .. Len(recs) /\ Len(q) \in Nat
  BY <1>1, LenProperties
<1>9. Len(recs) # 0
  BY <1>2, <1>6, <1>8
<1>10. recs[Len(recs)].id = count
  <2>1. 0 \in 0 .. Len(recs) - 1 /\ Len(recs) - 0 = Len(recs) /\ Len(q) - 0 = Len(q)
    BY <1>8, <1>9
  <2> QED
    BY <1>1, <1>5, <2>1
<1>11. recs[Len(recs)].at = clock
  <2>1. Len(recs) \in DOMAIN recs
    BY <1>8, <1>9
  <2> QED
    BY <1>2, <1>7, <1>10, <2>1
<1>12. recs # <<>>
  BY <1>8, <1>9, LenProperties
<1>13. m \in Nat /\ m # 0 /\ Len(r) = m
  BY <1>3, <1>8, <1>11, <1>12
<1>14. r # <<>> /\ r[Len(r)] = count
  <2>1. 0 \in 0 .. Len(r) - 1 /\ Len(r) - 0 = Len(r) /\ Len(q) - 0 = Len(q)
    BY <1>8, <1>13
  <2>2. r[Len(r)] = q[Len(q)]
    BY <1>4, <2>1 DEF SameEnd
  <2> QED
    BY <1>3, <1>5, <1>13, <2>2
<1> QED
  BY <1>14 DEF ShowsNewest, r, Last

\* Nothing but a record makes the conversation longer.
LEMMA OnlyRecordsAdd ==
  ASSUME IInv, [Next]_vars, NEW n \in Names, Len(said'[n]) > Len(said[n])
  PROVE  RecordMessage(n)
<1> USE DEF IInv
<1>1. said[n] \in Seq(1 .. count) /\ Len(said[n]) \in Nat
  BY LenProperties DEF Types
<1>2. said'[n] # said[n]
  <2> SUFFICES ASSUME said'[n] = said[n] PROVE FALSE
    OBVIOUS
  <2> QED
    BY <1>1
<1>3. ASSUME NEW m \in Names, Create(m) \/ Purge(m) PROVE FALSE
  <2>1. said'[n] = said[n] \/ said'[n] = <<>>
    BY <1>3 DEF Create, Purge, Forget, Types
  <2>2. Len(<<>>) = 0
    OBVIOUS
  <2> QED
    BY <1>1, <1>2, <2>1, <2>2
<1>4. ASSUME NEW m \in Names, RecordMessage(m) PROVE m = n
  BY <1>2, <1>4 DEF RecordMessage, Types
<1>5. ~ PowerCut
  <2> SUFFICES ASSUME PowerCut PROVE FALSE
    OBVIOUS
  <2>1. PICK m \in Names : \E lost : said' = [said EXCEPT ![m] = Before(said[m], lost)]
    BY DEF PowerCut
  <2>2. PICK lost : said' = [said EXCEPT ![m] = Before(said[m], lost)]
    BY <2>1
  <2>3. m = n /\ said'[n] = Before(said[n], lost)
    BY <1>2, <2>2 DEF Types
  <2>4. PICK k \in Nat \ {0} : /\ k <= Len(said[n]) + 1
                               /\ said'[n] \in Seq(1 .. count) /\ DOMAIN said'[n] = 1 .. k - 1
    BY <1>1, <2>3, BeforeIs
  <2>5. Len(said'[n]) = k - 1
    <3>1. DOMAIN said'[n] = 1 .. Len(said'[n]) /\ Len(said'[n]) \in Nat
      BY <2>4, LenProperties
    <3> QED
      BY <2>4, <3>1
  <2> QED
    BY <1>1, <2>4, <2>5
<1>6. ASSUME NEW m \in Names,
             Die(m) \/ Register(m) \/ Unregister(m) \/ PruneRoom(m) \/ Relay(m) \/ RecordFails(m)
      PROVE  FALSE
  BY <1>2, <1>6 DEF Die, Register, Unregister, PruneRoom, Relay, RecordFails
<1>7. ~ PruneStore /\ ~ Tick /\ ~ UNCHANGED vars
  BY <1>2 DEF PruneStore, Tick, vars
<1> QED
  BY <1>3, <1>4, <1>5, <1>6, <1>7 DEF Next, RoomStep

\* A message that was recorded is fresh, and leaves no half record.
LEMMA RecordIsFresh ==
  ASSUME IInv, NEW n \in Names, RecordMessage(n), ~ HasTorn(n)
  PROVE  Fresh(n)' /\ ~ HasTorn(n)'
<1> USE DEF IInv
<1>1. count + 1 \in 1 .. MaxRecords /\ count' = count + 1 /\ count \in Nat /\ clock' = clock
  BY TranscriptAssumption DEF RecordMessage, Types
<1>2. PICK size \in Sizes :
        store' = [store EXCEPT ![n] = CapRoom([store[n] EXCEPT ![Today] =
                   Append(@, [id |-> count', at |-> clock, size |-> size])])]
  BY DEF RecordMessage
<1> DEFINE rec == [id |-> count', at |-> clock, size |-> size]
           f == store[n]
           g == Added(f, Today, rec)
           q == said[n]
           h == CapRoom(g)
<1>3. rec \in Record /\ rec.id = count + 1 /\ rec.at = clock /\ rec # Torn
  BY <1>1, TranscriptAssumption, TornAssumption DEF Record, Types
<1>4. f \in Dirs /\ q \in Seq(Nat) /\ Sound(f, q) /\ Today \in Days /\ q \in Seq(1 .. count)
  BY <1>1, TodayIs DEF Types, SoundInv
<1>5. \A d \in Days : f[d] # <<>> => d <= Today
  BY DEF FiledByDay
<1>6. \A k \in DOMAIN q : q[k] < rec.id
  BY <1>1, <1>3, <1>4
<1>7. store'[n] = h /\ said'[n] = Append(q, count + 1)
  BY <1>1, <1>2 DEF RecordMessage, Types, Added
<1>8. \A d \in Days : \A i \in DOMAIN f[d] : f[d][i] # Torn
  BY DEF HasTorn, ToSet
<1> HIDE DEF rec, f, g, q, h
<1>9. /\ g \in Dirs
      /\ \A d \in Days : \A i \in DOMAIN g[d] :
           (i \in DOMAIN f[d] /\ g[d][i] = f[d][i]) \/ (d = Today /\ g[d][i] = rec)
  BY <1>3, <1>4, <1>5, <1>6, AppendIsSound DEF g
<1>10. /\ \A d \in Days \ {Today} : g[d] = f[d]
       /\ g[Today] = Append(f[Today], rec)
  BY <1>4 DEF g, Added, Dirs
<1>11. \E i \in DOMAIN g[Today] : g[Today][i] = rec
  <2>1. f[Today] \in Seq(Entries) /\ rec \in Entries
    BY <1>3, <1>4 DEF Dirs, Entries
  <2>2. /\ g[Today][Len(f[Today]) + 1] = rec /\ Len(f[Today]) + 1 \in DOMAIN g[Today]
    BY <1>10, <2>1
  <2> QED
    BY <2>2
<1>12. g[Today] # <<>> /\ \A d \in Days : g[d] # <<>> => d <= Today
  <2>1. g[Today] # <<>>
    BY <1>11
  <2>2. Today <= Today
    BY <1>4, DaysAre
  <2>3. ASSUME NEW d \in Days, g[d] # <<>> PROVE d <= Today
    BY <1>5, <1>10, <2>2, <2>3
  <2> QED
    BY <2>1, <2>3
<1>13. PICK ds \in SUBSET Days : h = Without(g, ds) /\ Today \notin ds
  BY <1>4, <1>9, <1>12, CapRoomIs DEF h
<1>14. h[Today] = g[Today] /\ \A d \in Days : h[d] = <<>> \/ h[d] = g[d]
  BY <1>4, <1>13 DEF Without
<1>15. ASSUME NEW d \in Days, NEW i \in DOMAIN h[d]
       PROVE  h[d][i] # Torn /\ (h[d][i] = rec \/ h[d][i].id # count + 1)
  <2>1. i \in DOMAIN g[d] /\ h[d][i] = g[d][i]
    <3>1. CASE h[d] = <<>>
      BY <1>15, <3>1
    <3>2. CASE h[d] = g[d]
      BY <1>15, <3>2
    <3> QED
      BY <1>14, <3>1, <3>2
  <2>2. CASE g[d][i] = rec
    BY <1>3, <2>1, <2>2
  <2>3. CASE i \in DOMAIN f[d] /\ g[d][i] = f[d][i]
    <3>1. f[d][i].id \in Ids(f) /\ f[d][i] # Torn
      BY <1>4, <1>8, <2>3, HeldIsRecord
    <3>2. PICK k \in DOMAIN q : q[k] = f[d][i].id
      BY <1>4, <3>1 DEF Sound, Ends
    <3>3. q[k] < count + 1 /\ q[k] \in Nat
      BY <1>3, <1>4, <1>6, ElementOfSeq, LenProperties
    <3> QED
      BY <1>1, <2>1, <2>3, <3>1, <3>2, <3>3
  <2> QED
    BY <1>9, <2>1, <2>2, <2>3
<1>16. ~ HasTorn(n)'
  <2>1. \A d \in Days : Torn \notin ToSet(store'[n][d])
    BY <1>7, <1>15 DEF ToSet
  <2> QED
    BY <2>1 DEF HasTorn
<1>17. count' \in Ids(store'[n])
  <2>1. \E i \in DOMAIN h[Today] : h[Today][i] # Torn /\ h[Today][i].id = count + 1
    BY <1>3, <1>11, <1>14
  <2>2. count + 1 \in Nat
    BY <1>1
  <2> QED
    BY <1>1, <1>4, <1>7, <2>1, <2>2 DEF Ids
<1>18. said'[n] # <<>> /\ Last(said'[n]) = count'
  <2>1. Append(q, count + 1) # <<>> /\ Len(Append(q, count + 1)) = Len(q) + 1
        /\ Append(q, count + 1)[Len(q) + 1] = count + 1
    BY <1>1, <1>4
  <2> QED
    BY <1>1, <1>7, <2>1 DEF Last
<1>19. \A d \in Days : \A i \in DOMAIN store'[n][d] : store'[n][d][i].id = count' => store'[n][d][i].at = clock'
  BY <1>1, <1>3, <1>7, <1>15
<1> QED
  BY <1>16, <1>17, <1>18, <1>19 DEF Fresh

\* Right after a message was recorded it is the last of the replay, even when it
\* alone is over a limit, unless there is half a record in one of the files.
THEOREM NewestShown == Spec => NewestIsReplayed
<1>1. (\A n \in Names : IInv /\ Fresh(n) /\ ~ HasTorn(n) => ShowsNewest(n))'
  BY FreshIsShown, PTL
<1>2. ASSUME IInv, [Next]_vars, NEW n \in Names, Len(said[n])' > Len(said[n]), ~ HasTorn(n)
      PROVE  ShowsNewest(n)'
  <2>1. RecordMessage(n)
    BY <1>2, OnlyRecordsAdd
  <2>2. Fresh(n)' /\ ~ HasTorn(n)'
    BY <1>2, <2>1, RecordIsFresh
  <2>3. IInv'
    BY <1>2, InvKept
  <2> QED
    BY <1>1, <2>2, <2>3
<1>3. IInv /\ [Next]_vars =>
        \A n \in Names : Len(said[n])' > Len(said[n]) /\ ~HasTorn(n) => ShowsNewest(n)'
  BY <1>2
<1> QED
  BY <1>3, Invariant, PTL DEF Spec, NewestIsReplayed
==============================================================================
