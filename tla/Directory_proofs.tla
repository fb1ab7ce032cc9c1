-------------------------- MODULE Directory_proofs --------------------------
(***************************************************************************)
(* Proofs about Directory for any people, sessions, names and limits.      *)
(*                                                                         *)
(* A name looks free to assignNickLocked when no session asked and no row  *)
(* has it, so names stay unique (NamesStayUnique) if whoever is left out   *)
(* of the asking can do no harm: NamesInv counts the session of a HELLO    *)
(* under way among the bearers even when it has been closed.  FileInv says *)
(* where the newest copy is while the flag is clear (FileAgrees).          *)
(***************************************************************************)
EXTENDS Directory, FiniteSetTheorems, SequenceTheorems, WellFoundedInduction, TLAPS

\* A set of numbers has a least one.
LEMMA NatMin ==
  ASSUME NEW T, T \subseteq Nat, T # {}
  PROVE  \E x \in T : \A y \in T : x <= y
<1> DEFINE R == OpToRel(<, Nat)
<1>1. IsWellFoundedOn(R, Nat)
  BY NatLessThanWellFounded
<1>2. PICK x \in T : \A y \in T : ~ (<<y, x>> \in R)
  <2> HIDE DEF R
  <2> QED BY <1>1, WFMin
<1>3. \A y, z \in Nat : y < z => <<y, z>> \in R
  BY Zenon DEF OpToRel
<1> HIDE DEF R
<1>4. \A y \in T : ~ (y < x)
  BY <1>2, <1>3
<1> QED
  BY <1>4

-----------------------------------------------------------------------------
\* Granting a name

\* What is granted is a name that this person may have.
LEMMA GrantedIsOwn ==
  ASSUME NEW p \in People, NEW want \in Wants, NEW asked
  PROVE  /\ Granted(p, want, asked) \in NamesOf(p)
         /\ \/ Takes(p, Granted(p, want, asked), asked)
            \/ \E w \in Wants : Granted(p, want, asked) = Append(w, p)
<1> DEFINE free == {n \in 0..MaxSuffix : Takes(p, Variant(want, n), asked)}
<1>1. CASE free = {}
  <2>1. Granted(p, want, asked) = Append(want, p)
    BY <1>1 DEF Granted
  <2> QED
    BY <2>1 DEF NamesOf
<1>2. CASE free # {}
  <2> DEFINE m == CHOOSE n \in free : \A k \in free : n <= k
  <2>1. free \subseteq Nat
    BY DirectoryAssumption
  <2>2. \E n \in free : \A k \in free : n <= k
    <3> HIDE DEF free
    <3> QED
      BY <1>2, <2>1, NatMin
  <2>3. m \in free
    BY <2>2
  <2>4. Granted(p, want, asked) = Variant(want, m)
    BY <1>2 DEF Granted
  <2>5. m \in 0..MaxSuffix /\ Takes(p, Variant(want, m), asked)
    BY <2>3
  <2> HIDE DEF m
  <2> QED
    BY <2>4, <2>5 DEF NamesOf
<1> QED
  BY <1>1, <1>2

\* The session carries g from now on, and so does the row of its owner, if there
\* is one and its name was new.
NickIs(s, g, asked) ==
  /\ \/ g = <<>> \/ Takes(Owner[s], g, asked)
     \/ \E w \in Wants : g = Append(w, Owner[s])
  /\ nick' = [nick EXCEPT ![s] = g]
  /\ \/ rows' = rows /\ dirty' = dirty
     \/ /\ rows[Owner[s]] # Nil /\ dirty' = TRUE
        /\ rows' = [rows EXCEPT ![Owner[s]].nick = g]

\* setNickLocked gives the session a name that its owner may have.
LEMMA SetNickGives ==
  ASSUME TypeOK, NEW s \in Sessions, NEW want \in Wants \cup {<<>>}, NEW asked,
         SetNick(s, want, asked)
  PROVE  \E g \in NamesOf(Owner[s]) : NickIs(s, g, asked)
<1> DEFINE p == Owner[s]
           g == IF want = <<>> THEN <<>> ELSE Granted(p, want, asked)
<1>1. p \in People
  BY DirectoryAssumption
<1>2. g \in NamesOf(p)
  BY <1>1, GrantedIsOwn DEF NamesOf
<1>3. g = <<>> \/ Takes(p, g, asked) \/ \E w \in Wants : g = Append(w, p)
  BY <1>1, GrantedIsOwn
<1>4. nick' = [nick EXCEPT ![s] = g]
  BY DEF SetNick
<1>5. \/ rows' = rows /\ dirty' = dirty
      \/ rows[p] # Nil /\ dirty' = TRUE /\ rows' = [rows EXCEPT ![p].nick = g]
  BY DEF SetNick, TypeOK
<1> HIDE DEF g
<1> QED
  BY <1>2, <1>3, <1>4, <1>5 DEF NickIs

\* Rows change their names, dates and debts within their type.
LEMMA RowIsFiled ==
  ASSUME NEW p \in People, NEW name \in NamesOf(p), NEW seen \in 0..Horizon,
         NEW owed \in BOOLEAN, NEW r, r = Row(name, seen, owed)
  PROVE  r \in Rows /\ r # Nil /\ r.nick = name /\ r.seen = seen /\ r.owed = owed
BY NilAssumption DEF Row, Rows, AllNames

\* An amended row keeps the directory within its type and its size.
LEMMA AmendedRow ==
  ASSUME TypeOK, NEW p \in People, rows[p] # Nil, NEW r \in Rows, r.nick \in NamesOf(p),
         rows' = [rows EXCEPT ![p] = r]
  PROVE  /\ rows' \in [People -> Rows \cup {Nil}] /\ Filed(rows') = Filed(rows)
         /\ Size(rows') <= most /\ OwnNames(rows')
<1>1. r # Nil
  BY NilAssumption
<1>2. rows' \in [People -> Rows \cup {Nil}] /\ Filed(rows') = Filed(rows)
  BY <1>1 DEF TypeOK, Filed
<1>3. Size(rows') <= most
  BY <1>2 DEF TypeOK, Size
<1>4. OwnNames(rows')
  BY <1>2 DEF TypeOK, OwnNames
<1> QED
  BY <1>2, <1>3, <1>4

LEMMA SetNickTypes ==
  ASSUME TypeOK, NEW s \in Sessions, NEW want \in Wants \cup {<<>>}, NEW asked,
         SetNick(s, want, asked)
  PROVE  /\ nick' \in [Sessions -> AllNames]
         /\ \A t \in Sessions : nick'[t] \in NamesOf(Owner[t])
         /\ rows' \in [People -> Rows \cup {Nil}] /\ Size(rows') <= most /\ OwnNames(rows')
         /\ dirty' \in BOOLEAN
<1>1. PICK g \in NamesOf(Owner[s]) : NickIs(s, g, asked)
  BY SetNickGives
<1> USE DEF NickIs
<1>2. Owner[s] \in People /\ g \in AllNames
  BY DirectoryAssumption DEF AllNames
<1>3. /\ nick' \in [Sessions -> AllNames]
      /\ \A t \in Sessions : nick'[t] \in NamesOf(Owner[t])
  BY <1>1, <1>2 DEF TypeOK
<1>4. CASE rows' = rows /\ dirty' = dirty
  BY <1>4, <1>3 DEF TypeOK
<1>5. CASE rows[Owner[s]] # Nil /\ dirty' = TRUE /\ rows' = [rows EXCEPT ![Owner[s]].nick = g]
  <2> DEFINE r == [rows[Owner[s]] EXCEPT !.nick = g]
  <2>1. rows[Owner[s]] \in Rows
    BY <1>2, <1>5 DEF TypeOK
  <2>2. r \in Rows /\ r.nick = g
    BY <2>1, <1>2 DEF Rows
  <2>3. rows' = [rows EXCEPT ![Owner[s]] = r]
    BY <1>5, <1>2 DEF TypeOK
  <2> HIDE DEF r
  <2> QED
    BY <1>2, <1>3, <1>5, <2>2, <2>3, AmendedRow
<1> QED
  BY <1>1, <1>3, <1>4, <1>5

\* rememberPeer files the newcomer, and at the limit somebody goes for it.
LEMMA FileTypes ==
  ASSUME TypeOK, NEW p \in People, NEW name \in NamesOf(p), File(p, name)
  PROVE  rows' \in [People -> Rows \cup {Nil}] /\ Size(rows') <= most /\ OwnNames(rows')
<1> DEFINE r == IF rows[p] # Nil
                  THEN Row(IF name # <<>> THEN name ELSE rows[p].nick, now, rows[p].owed)
                  ELSE Row(name, now, FALSE)
<1>1. r \in Rows /\ r # Nil /\ r.nick \in NamesOf(p)
  <2>1. now \in 0..Horizon
    BY DEF TypeOK
  <2>2. CASE rows[p] = Nil
    <3>1. r = Row(name, now, FALSE)
      BY <2>2
    <3>2. name \in AllNames
      BY DEF AllNames
    <3> HIDE DEF r
    <3>3. r \in Rows /\ r.nick = name
      BY <2>1, <3>1, <3>2 DEF Row, Rows
    <3> QED
      BY <3>3, NilAssumption
  <2>3. CASE rows[p] # Nil
    <3>1. rows[p] \in Rows /\ rows[p].nick \in NamesOf(p)
      BY <2>3 DEF TypeOK, OwnNames, Filed
    <3>2. rows[p].owed \in BOOLEAN
      BY <3>1 DEF Rows
    <3>3. (IF name # <<>> THEN name ELSE rows[p].nick) \in NamesOf(p)
      BY <3>1
    <3> QED
      BY <2>1, <2>3, <3>2, <3>3, RowIsFiled
  <2> QED
    BY <2>2, <2>3
<1>2. CASE rows[p] # Nil
  <2>1. rows' = [rows EXCEPT ![p] = r]
    BY <1>2 DEF File, TypeOK
  <2> HIDE DEF r
  <2> QED
    BY <1>1, <1>2, <2>1, AmendedRow
<1>3. IsFiniteSet(Filed(rows))
  BY DirectoryAssumption, FS_Subset DEF Filed
<1>4. CASE rows[p] = Nil /\ Full
  <2>1. PICK v \in Evictable : rows' = [rows EXCEPT ![v] = Nil, ![p] = r]
    BY <1>4 DEF File
  <2>2. v \in Filed(rows) /\ v \in People /\ v # p
    BY <1>4 DEF Evictable, Filed
  <2>3. rows' \in [People -> Rows \cup {Nil}]
    BY <1>1, <2>1, <2>2 DEF TypeOK
  <2>4. Filed(rows') = (Filed(rows) \ {v}) \cup {p}
    <3> HIDE DEF r
    <3> QED
      BY <1>1, <2>1, <2>2 DEF TypeOK, Filed
  <2>5. /\ IsFiniteSet(Filed(rows) \ {v})
        /\ Cardinality(Filed(rows) \ {v}) = Cardinality(Filed(rows)) - 1
    BY <1>3, <2>2, FS_RemoveElement
  <2>6. Cardinality(Filed(rows)) \in Nat
    BY <1>3, FS_CardinalityType
  <2>7. p \notin Filed(rows) \ {v}
    BY <1>4 DEF Filed
  <2>8. Cardinality(Filed(rows')) = Cardinality(Filed(rows) \ {v}) + 1
    BY <2>4, <2>5, <2>7, FS_AddElement
  <2>9. Size(rows') <= most
    BY <2>5, <2>6, <2>8 DEF TypeOK, Size
  <2>10. OwnNames(rows')
    <3> HIDE DEF r
    <3>1. rows'[p] = r
      BY <2>1, <2>2 DEF TypeOK
    <3>2. \A q \in Filed(rows') : q # p => q \in Filed(rows) /\ rows'[q] = rows[q]
      BY <2>1, <2>2, <2>4 DEF TypeOK, Filed
    <3> QED
      BY <1>1, <3>1, <3>2 DEF TypeOK, OwnNames
  <2> QED
    BY <2>3, <2>9, <2>10
<1>5. CASE rows[p] = Nil /\ ~Full
  <2>1. rows' = [rows EXCEPT ![p] = r]
    BY <1>5 DEF File
  <2>2. rows' \in [People -> Rows \cup {Nil}]
    BY <1>1, <2>1 DEF TypeOK
  <2>3. Filed(rows') = Filed(rows) \cup {p} /\ p \notin Filed(rows)
    <3> HIDE DEF r
    <3> QED
      BY <1>1, <1>5, <2>1 DEF TypeOK, Filed
  <2>4. Cardinality(Filed(rows')) = Cardinality(Filed(rows)) + 1
    BY <1>3, <2>3, FS_AddElement
  <2>5. /\ Cardinality(Filed(rows)) \in Nat /\ MaxKnownPeers \in Nat
        /\ most \in Nat /\ MaxKnownPeers <= most
    BY <1>3, FS_CardinalityType, DirectoryAssumption DEF TypeOK
  <2>6. Size(rows') <= most
    BY <1>5, <2>4, <2>5 DEF Size, Full
  <2>7. OwnNames(rows')
    <3> HIDE DEF r
    <3> QED
      BY <1>1, <2>1, <2>3 DEF TypeOK, OwnNames
  <2> QED
    BY <2>2, <2>6, <2>7
<1> QED
  BY <1>2, <1>4, <1>5

-----------------------------------------------------------------------------
\* The copies under way

\* RemoveAt closes the gap.
LEMMA RemoveAtProperties ==
  ASSUME NEW S, NEW s \in Seq(S), NEW i \in 1 .. Len(s)
  PROVE  /\ RemoveAt(s, i) \in Seq(S) /\ Len(RemoveAt(s, i)) = Len(s) - 1
         /\ \A j \in 1 .. Len(s) - 1 :
              RemoveAt(s, i)[j] = IF j < i THEN s[j] ELSE s[j + 1]
<1> DEFINE a == SubSeq(s, 1, i - 1)
           b == SubSeq(s, i + 1, Len(s))
<1>0. Len(s) \in Nat /\ i \in Nat /\ 1 <= i /\ i <= Len(s)
  OBVIOUS
<1>1. a \in Seq(S) /\ Len(a) = i - 1 /\ \A j \in 1 .. i - 1 : a[j] = s[j]
  BY <1>0
<1>2. b \in Seq(S) /\ Len(b) = Len(s) - i /\ \A j \in 1 .. Len(s) - i : b[j] = s[j + i]
  BY <1>0
<1>3. RemoveAt(s, i) = a \o b
  BY DEF RemoveAt
<1> HIDE DEF a, b
<1>4. /\ a \o b \in Seq(S) /\ Len(a \o b) = Len(a) + Len(b)
      /\ \A j \in 1 .. Len(a) + Len(b) : (a \o b)[j] = IF j <= Len(a) THEN a[j] ELSE b[j - Len(a)]
  BY <1>1, <1>2, ConcatProperties
<1>5. ASSUME NEW j \in 1 .. Len(s) - 1
      PROVE  (a \o b)[j] = IF j < i THEN s[j] ELSE s[j + 1]
  <2>1. CASE j < i
    BY <1>0, <1>1, <1>2, <1>4, <2>1
  <2>2. CASE ~(j < i)
    <3>1. j - (i - 1) \in 1 .. Len(s) - i
      BY <1>0, <2>2
    <3>2. (a \o b)[j] = b[j - (i - 1)]
      BY <1>0, <1>1, <1>2, <1>4, <2>2
    <3>3. (j - (i - 1)) + i = j + 1
      BY <1>0
    <3> QED
      BY <1>2, <2>2, <3>1, <3>2, <3>3
  <2> QED
    BY <2>1, <2>2
<1>6. Len(a) + Len(b) = Len(s) - 1
  BY <1>0, <1>1, <1>2
<1>7. a \o b \in Seq(S) /\ Len(a \o b) = Len(s) - 1
  BY <1>4, <1>6
<1> QED
  BY <1>3, <1>5, <1>7, Zenon

\* A copy that has landed is no longer in the air, and the others keep their order.
LEMMA LandedRemoves ==
  ASSUME TypeOK, NEW v, Landed(v)
  PROVE  /\ flight' \in Seq(Savers) /\ v \in Savers /\ v \in InFlight
         /\ \A i, j \in DOMAIN flight' : flight'[i] = flight'[j] => i = j
         /\ InFlight' = InFlight \ {v}
         /\ Len(flight') = Len(flight) - 1 /\ Len(flight) \in Nat \ {0}
         /\ flight[Len(flight)] # v =>
              Len(flight') # 0 /\ flight'[Len(flight')] = flight[Len(flight)]
<1>1. PICK i \in DOMAIN flight : flight[i] = v /\ flight' = RemoveAt(flight, i)
  BY DEF Landed
<1> DEFINE n == Len(flight)
<1>2. flight \in Seq(Savers) /\ n \in Nat /\ DOMAIN flight = 1 .. n /\ i \in 1 .. n
  BY <1>1 DEF TypeOK
<1>3. /\ flight' \in Seq(Savers) /\ Len(flight') = n - 1
      /\ \A j \in 1 .. n - 1 : flight'[j] = IF j < i THEN flight[j] ELSE flight[j + 1]
  <2> USE RemoveAtProperties, <1>1, <1>2
  <2> QED
    OBVIOUS
<1>4. DOMAIN flight' = 1 .. n - 1
  BY <1>2, <1>3
<1>5. \A j, k \in 1 .. n : flight[j] = flight[k] => j = k
  BY <1>2 DEF TypeOK
<1>6. \A j, k \in DOMAIN flight' : flight'[j] = flight'[k] => j = k
  BY <1>2, <1>3, <1>4, <1>5
<1>7. InFlight' = InFlight \ {v}
  <2>1. \A j \in 1 .. n - 1 : flight'[j] \in InFlight /\ flight'[j] # v
    <3> SUFFICES ASSUME NEW j \in 1 .. n - 1
                 PROVE  flight'[j] \in InFlight /\ flight'[j] # v
      OBVIOUS
    <3>1. PICK k \in 1 .. n : flight'[j] = flight[k] /\ k # i
      <4>1. flight'[j] = IF j < i THEN flight[j] ELSE flight[j + 1]
        BY <1>3
      <4>2. j \in 1 .. n /\ j + 1 \in 1 .. n /\ (j < i => j # i) /\ (~(j < i) => j + 1 # i)
        BY <1>2
      <4> HIDE DEF n
      <4> QED
        BY <4>1, <4>2
    <3> QED
      BY <1>1, <1>2, <1>5, <3>1 DEF InFlight
  <2>2. \A j \in 1 .. n : j # i => \E k \in 1 .. n - 1 : flight'[k] = flight[j]
    <3> SUFFICES ASSUME NEW j \in 1 .. n, j # i
                 PROVE  \E k \in 1 .. n - 1 : flight'[k] = flight[j]
      OBVIOUS
    <3>1. CASE j < i
      BY <1>2, <1>3, <3>1
    <3>2. CASE j > i
      <4>1. j - 1 \in 1 .. n - 1 /\ flight'[j - 1] = flight[j]
        BY <1>2, <1>3, <3>2
      <4> QED
        BY <4>1
    <3> QED
      BY <1>2, <3>1, <3>2
  <2>3. InFlight = {flight[j] : j \in 1 .. n} /\ InFlight' = {flight'[j] : j \in 1 .. n - 1}
    BY <1>2, <1>4 DEF InFlight
  <2>4. \A w \in InFlight \ {v} : \E j \in 1 .. n : j # i /\ flight[j] = w
    BY <1>1, <2>3
  <2>5. InFlight' \subseteq InFlight \ {v}
    <3> SUFFICES ASSUME NEW w \in InFlight' PROVE w \in InFlight /\ w # v
      OBVIOUS
    <3>1. PICK j \in 1 .. n - 1 : w = flight'[j]
      BY <2>3
    <3> QED
      BY <2>1, <3>1
  <2>6. InFlight \ {v} \subseteq InFlight'
    <3> SUFFICES ASSUME NEW w \in InFlight \ {v} PROVE w \in InFlight'
      OBVIOUS
    <3>1. PICK j \in 1 .. n : j # i /\ flight[j] = w
      BY <2>4
    <3>2. PICK k \in 1 .. n - 1 : flight'[k] = flight[j]
      BY <2>2, <3>1
    <3> QED
      BY <2>3, <3>1, <3>2
  <2> QED
    BY <2>5, <2>6
<1>8. flight[n] # v => n - 1 # 0 /\ flight'[n - 1] = flight[n]
  <2> SUFFICES ASSUME flight[n] # v PROVE n - 1 # 0 /\ flight'[n - 1] = flight[n]
    OBVIOUS
  <2>1. i # n /\ n - 1 \in 1 .. n - 1 /\ ~(n - 1 < i) /\ (n - 1) + 1 = n
    BY <1>1, <1>2
  <2>2. flight'[n - 1] = flight[(n - 1) + 1]
    BY <1>3, <2>1
  <2> QED
    BY <1>2, <2>1, <2>2
<1>9. v \in InFlight /\ v \in Savers
  BY <1>1, <1>2 DEF InFlight
<1>10. Len(flight) \in Nat \ {0}
  BY <1>2
<1> QED
  BY <1>3, <1>6, <1>7, <1>8, <1>9, <1>10

LEMMA SnapshotTypes ==
  ASSUME TypeOK, NEW v \in Savers, Snapshot(v)
  PROVE  /\ flight' \in Seq(Savers)
         /\ \A i, j \in DOMAIN flight' : flight'[i] = flight'[j] => i = j
         /\ InFlight' = InFlight \cup {v}
         /\ Len(flight') # 0 /\ flight'[Len(flight')] = v
<1>1. flight \in Seq(Savers) /\ flight' = Append(flight, v) /\ Len(flight) \in Nat
  BY DEF Snapshot, TypeOK
<1>2. /\ flight' \in Seq(Savers) /\ Len(flight') = Len(flight) + 1
      /\ DOMAIN flight' = 1 .. Len(flight) + 1 /\ DOMAIN flight = 1 .. Len(flight)
      /\ \A j \in 1 .. Len(flight) : flight'[j] = flight[j]
      /\ flight'[Len(flight) + 1] = v
  BY <1>1
<1>3. \A j \in DOMAIN flight : flight[j] # v
  BY DEF Snapshot, InFlight
<1>4. \A i, j \in DOMAIN flight' : flight'[i] = flight'[j] => i = j
  BY <1>1, <1>2, <1>3 DEF TypeOK
<1>5. InFlight' = InFlight \cup {v}
  BY <1>1, <1>2 DEF InFlight
<1> QED
  BY <1>1, <1>2, <1>4, <1>5

-----------------------------------------------------------------------------
\* Types

LEMMA TypesKept == ASSUME TypeOK, [Next]_vars PROVE TypeOK'
<1> USE DEF TypeOK, sessions, saves, fixed
<1> DEFINE Sess == /\ open' \subseteq Sessions /\ hello' \in Sessions \cup {Nil}
                   /\ nick' \in [Sessions -> AllNames]
                   /\ \A s \in Sessions : nick'[s] \in NamesOf(Owner[s])
           Dir == /\ rows' \in [People -> Rows \cup {Nil}] /\ Size(rows') <= most
                  /\ OwnNames(rows') /\ dirty' \in BOOLEAN
           Sav == /\ flight' \in Seq(Savers)
                  /\ \A i, j \in DOMAIN flight' : flight'[i] = flight'[j] => i = j
                  /\ current' \subseteq InFlight' \cup {"file"}
                  /\ late' \subseteq InFlight' /\ overtaken' \in BOOLEAN
           Clk == now' \in 0..Horizon
<1>0. most' = most /\ up' \in {"running", "stopping", "flushing"}
  BY DEF Next, vars, Close, Hello, Rename, Remember, Owe, Tick, Stop, Snapshot, Saved, SaveFails
<1> SUFFICES Sess /\ Dir /\ Sav /\ Clk
  BY <1>0 DEF Size, OwnNames, Filed
<1>1. ASSUME UNCHANGED sessions PROVE Sess
  BY <1>1
<1>2. ASSUME UNCHANGED <<rows, dirty>> PROVE Dir
  BY <1>2
<1>3. ASSUME UNCHANGED saves, current' \subseteq current PROVE Sav
  BY <1>3 DEF InFlight
<1>4. ASSUME UNCHANGED now PROVE Clk
  BY <1>4
<1>5. ASSUME Touch PROVE current' \subseteq current
  BY <1>5 DEF Touch
<1>6. <<>> \in NamesOf(Owner[hello]) /\ \A p \in People : <<>> \in NamesOf(p) /\ NamesOf(p) \subseteq AllNames
  BY DEF NamesOf, AllNames
<1>7. \A s \in Sessions : Owner[s] \in People
  BY DirectoryAssumption
<1> HIDE DEF Sess, Dir, Sav, Clk
<1>8. CASE UNCHANGED vars
  BY <1>8, <1>1, <1>2, <1>3, <1>4 DEF vars
<1>9. ASSUME NEW s \in Sessions, Close(s) PROVE Sess /\ Dir /\ Sav /\ Clk
  <2> USE <1>9 DEF Close
  <2>1. Sess
    BY <1>6, <1>7 DEF Sess
  <2> QED
    BY <2>1, <1>2, <1>3, <1>4
<1>10. ASSUME NEW s \in Sessions, NEW want \in Wants \cup {<<>>}, Hello(s, want) \/ Rename(s, want)
       PROVE  Sess /\ Dir /\ Sav /\ Clk
  <2>1. Touch /\ UNCHANGED <<now, saves>>
    BY <1>10 DEF Hello, Rename
  <2>2. PICK asked : SetNick(s, want, asked)
    BY <1>10 DEF Hello, Rename
  <2>3. Dir /\ nick' \in [Sessions -> AllNames] /\ \A t \in Sessions : nick'[t] \in NamesOf(Owner[t])
    BY <2>2, SetNickTypes DEF Dir
  <2>4. open' \subseteq Sessions /\ hello' \in Sessions \cup {Nil}
    BY <1>10 DEF Hello, Rename
  <2> QED
    BY <2>1, <2>3, <2>4, <1>3, <1>4, <1>5 DEF Sess
<1>11. CASE Remember
  <2> USE <1>11 DEF Remember
  <2>1. hello \in Sessions /\ Owner[hello] \in People /\ nick[hello] \in NamesOf(Owner[hello])
    BY <1>7
  <2>2. Sess
    BY <2>1, <1>6, <1>7 DEF Sess
  <2>3. Dir
    <3>1. CASE File(Owner[hello], nick[hello]) /\ dirty' = TRUE
      BY <2>1, <3>1, FileTypes DEF Dir
    <3> QED
      BY <3>1, <1>2
  <2> QED
    BY <2>2, <2>3, <1>3, <1>4, <1>5
<1>12. ASSUME NEW p \in People, NEW owed \in BOOLEAN, Owe(p, owed) PROVE Sess /\ Dir /\ Sav /\ Clk
  <2> USE <1>12 DEF Owe
  <2> DEFINE r == [rows[p] EXCEPT !.owed = owed]
  <2>1. rows[p] \in Rows /\ rows[p].nick \in NamesOf(p)
    BY DEF OwnNames, Filed
  <2>2. r \in Rows /\ r.nick = rows[p].nick
    BY <2>1 DEF Rows
  <2>3. rows' = [rows EXCEPT ![p] = r] /\ dirty' = TRUE /\ rows[p] # Nil
    OBVIOUS
  <2> HIDE DEF r
  <2>4. Dir
    BY <2>1, <2>2, <2>3, AmendedRow DEF Dir
  <2> QED
    BY <2>4, <1>1, <1>3, <1>4, <1>5
<1>13. CASE Tick
  <2>1. Clk
    BY <1>13, DirectoryAssumption DEF Tick, Clk
  <2> QED
    BY <1>13, <2>1, <1>1, <1>2, <1>3 DEF Tick
<1>14. ASSUME NEW v \in Savers, Snapshot(v) PROVE Sess /\ Dir /\ Sav /\ Clk
  <2>1. Sav
    <3>1. /\ flight' \in Seq(Savers) /\ InFlight' = InFlight \cup {v}
          /\ \A i, j \in DOMAIN flight' : flight'[i] = flight'[j] => i = j
      BY <1>14, SnapshotTypes
    <3> QED
      BY <1>14, <3>1 DEF Snapshot, Sav
  <2>2. Dir
    BY <1>14 DEF Snapshot, Dir
  <2> QED
    BY <1>14, <2>1, <2>2, <1>1, <1>4 DEF Snapshot
<1>15. ASSUME NEW v \in Savers, Saved(v) PROVE Sess /\ Dir /\ Sav /\ Clk
  <2>1. Landed(v) /\ Older(v) \subseteq InFlight
    BY <1>15 DEF Saved, Older
  <2>2. Sav
    BY <1>15, <2>1, LandedRemoves DEF Saved, Sav
  <2> QED
    BY <1>15, <2>2, <1>1, <1>2, <1>4 DEF Saved
<1>16. ASSUME NEW v \in Savers, SaveFails(v) PROVE Sess /\ Dir /\ Sav /\ Clk
  <2>1. Landed(v)
    BY <1>16 DEF SaveFails
  <2>2. Sav
    BY <1>16, <2>1, LandedRemoves DEF SaveFails, Sav
  <2>3. Dir
    BY <1>16 DEF SaveFails, Dir
  <2> QED
    BY <1>16, <2>2, <2>3, <1>1, <1>4 DEF SaveFails
<1>17. CASE Stop
  BY <1>17, <1>1, <1>2, <1>3, <1>4 DEF Stop
<1> QED
  BY <1>8, <1>9, <1>10, <1>11, <1>12, <1>13, <1>14, <1>15, <1>16, <1>17 DEF Next

-----------------------------------------------------------------------------
\* Names

\* Who counts as carrying a name: the connected, and the session whose HELLO is
\* being handled, which may be filed under its name after it was closed.
Bears(s) == s \in open \/ s = hello

NamesInv ==
  /\ \A s, t \in Sessions : Bears(s) /\ Bears(t) /\ Owner[s] # Owner[t] =>
       nick[s] = <<>> \/ nick[s] # nick[t]
  /\ \A s \in Sessions, q \in Filed(rows) : Bears(s) /\ Owner[s] # q =>
       nick[s] = <<>> \/ nick[s] # rows[q].nick
  /\ \A p, q \in Filed(rows) : p # q => rows[p].nick = <<>> \/ rows[p].nick # rows[q].nick

\* Nobody else carries a name that looked free, nor is remembered by it; when the
\* sessions were asked and one of the person's own answered, the invariant
\* speaks for the rows.
LEMMA FreeIsUnique ==
  ASSUME TypeOK, NamesInv, NEW p \in People, NEW asked \in SUBSET open, NEW g \in NamesOf(p),
         g # <<>>, Takes(p, g, asked) \/ \E w \in Wants : g = Append(w, p)
  PROVE  /\ \A t \in asked : Owner[t] # p => nick[t] # g
         /\ \A q \in Filed(rows) : q # p => rows[q].nick # g
<1>1. asked \subseteq Sessions /\ \A t \in asked : Bears(t) /\ Owner[t] \in People
  BY DirectoryAssumption DEF TypeOK, Bears
<1>2. CASE Takes(p, g, asked)
  <2> DEFINE carried == {Owner[s] : s \in {t \in asked : nick[t] = g}}
  <2>1. carried # {} => carried \subseteq {p}
    BY <1>2 DEF Takes, Holders
  <2>2. \A t \in asked : Owner[t] # p => nick[t] # g
    BY <2>1
  <2>3. CASE carried = {}
    <3>1. {q \in Filed(rows) : rows[q].nick = g} \subseteq {p}
      BY <1>2, <2>3 DEF Takes, Holders
    <3> QED
      BY <2>2, <3>1
  <2>4. CASE carried # {}
    <3>1. PICK t \in asked : nick[t] = g /\ Owner[t] = p
      BY <2>1, <2>4
    <3>2. \A q \in Filed(rows) : q # p => rows[q].nick # g
      BY <1>1, <3>1 DEF NamesInv
    <3> QED
      BY <2>2, <3>2
  <2> QED
    BY <2>3, <2>4
<1>3. CASE \E w \in Wants : g = Append(w, p)
  <2>1. \A q \in People : q # p => g \notin NamesOf(q)
    BY <1>3, FallbackAssumption
  <2> QED
    BY <1>1, <2>1 DEF TypeOK, OwnNames, Filed
<1> QED
  BY <1>2, <1>3

\* HELLO and a message's nick keep names apart; whoever is not asked carries
\* nothing, or is the session itself.
LEMMA GrantKeepsNames ==
  ASSUME TypeOK, NamesInv, NEW s \in Sessions, NEW want \in Wants \cup {<<>>},
         NEW asked \in SUBSET open, hello = Nil, open \subseteq asked \cup {s},
         SetNick(s, want, asked), open' = open \cup {s}, hello' \in {Nil, s}
  PROVE  NamesInv'
<1> DEFINE p == Owner[s]
<1>1. PICK g \in NamesOf(p) : NickIs(s, g, asked)
  BY SetNickGives
<1> USE DEF NickIs
<1>2. p \in People /\ Nil \notin Sessions
  BY DirectoryAssumption
<1>3. g # <<>> => /\ \A t \in asked : Owner[t] # p => nick[t] # g
                  /\ \A q \in Filed(rows) : q # p => rows[q].nick # g
  <2> SUFFICES ASSUME g # <<>>
               PROVE  /\ \A t \in asked : Owner[t] # p => nick[t] # g
                      /\ \A q \in Filed(rows) : q # p => rows[q].nick # g
    OBVIOUS
  <2>1. Takes(p, g, asked) \/ \E w \in Wants : g = Append(w, p)
    BY <1>1
  <2> HIDE DEF p
  <2> QED
    BY <1>2, <2>1, FreeIsUnique
<1>4. \A t \in Sessions : Bears(t)' => t = s \/ (t \in asked /\ Bears(t))
  BY <1>2 DEF Bears
<1>5. /\ nick'[s] = g /\ \A t \in Sessions : t # s => nick'[t] = nick[t]
  BY <1>1 DEF TypeOK
<1>6. /\ Filed(rows') = Filed(rows)
      /\ \A q \in Filed(rows) : rows'[q].nick = rows[q].nick \/ (q = p /\ rows'[q].nick = g)
  <2>1. CASE rows' = rows
    BY <2>1 DEF Filed
  <2>2. CASE rows[p] # Nil /\ rows' = [rows EXCEPT ![p].nick = g]
    <3> DEFINE r == [rows[p] EXCEPT !.nick = g]
    <3>1. rows[p] \in Rows /\ g \in AllNames
      BY <1>2, <2>2 DEF TypeOK, AllNames
    <3>2. r \in Rows /\ r.nick = g /\ rows' = [rows EXCEPT ![p] = r]
      BY <2>2, <3>1 DEF Rows
    <3> HIDE DEF r
    <3>3. r # Nil
      BY <3>2, NilAssumption
    <3> QED
      BY <1>2, <2>2, <3>2, <3>3 DEF TypeOK, Filed
  <2> QED
    BY <1>1, <2>1, <2>2
<1>7. ASSUME NEW t \in Sessions, NEW u \in Sessions, Bears(t)', Bears(u)', Owner[t] # Owner[u]
      PROVE  nick'[t] = <<>> \/ nick'[t] # nick'[u]
  <2>1. CASE t = s
    BY <2>1, <1>3, <1>4, <1>5, <1>7
  <2>2. CASE u = s
    BY <2>2, <1>3, <1>4, <1>5, <1>7
  <2> QED
    BY <2>1, <2>2, <1>4, <1>5, <1>7 DEF NamesInv
<1>8. ASSUME NEW t \in Sessions, NEW q \in Filed(rows'), Bears(t)', Owner[t] # q
      PROVE  nick'[t] = <<>> \/ nick'[t] # rows'[q].nick
  <2>1. CASE rows'[q].nick = rows[q].nick
    <3>1. CASE t = s
      BY <2>1, <3>1, <1>3, <1>5, <1>6, <1>8
    <3> QED
      BY <2>1, <3>1, <1>4, <1>5, <1>6, <1>8 DEF NamesInv
  <2>2. CASE q = p /\ rows'[q].nick = g
    BY <2>2, <1>3, <1>4, <1>5, <1>8
  <2> QED
    BY <2>1, <2>2, <1>6
<1>9. ASSUME NEW q \in Filed(rows'), NEW r \in Filed(rows'), q # r
      PROVE  rows'[q].nick = <<>> \/ rows'[q].nick # rows'[r].nick
  <2>1. rows[q].nick = <<>> \/ rows[q].nick # rows[r].nick
    BY <1>6, <1>9 DEF NamesInv
  <2> QED
    BY <2>1, <1>3, <1>6, <1>9
<1> QED
  BY <1>7, <1>8, <1>9 DEF NamesInv

\* Filing the owner of a name takes the name from the session that bears it.
LEMMA FileKeepsNames ==
  ASSUME TypeOK, NamesInv, Remember
  PROVE  NamesInv'
<1> USE DEF Remember
<1> DEFINE p == Owner[hello]
<1>1. hello \in Sessions /\ p \in People /\ Nil \notin Sessions /\ Bears(hello)
  BY DirectoryAssumption DEF TypeOK, Bears
<1>2. \A t \in Sessions : /\ Bears(t)' => Bears(t) /\ nick'[t] = nick[t]
  BY <1>1 DEF Bears, TypeOK
<1>3. \A q \in Filed(rows') : \/ q \in Filed(rows) /\ rows'[q].nick = rows[q].nick
                              \/ q = p /\ rows'[q].nick = nick[hello]
  <2>1. CASE rows' = rows
    BY <2>1
  <2>2. CASE File(p, nick[hello])
    <3>1. ASSUME rows[p] # Nil
          PROVE  \A q \in Filed(rows') : \/ q \in Filed(rows) /\ rows'[q].nick = rows[q].nick
                                         \/ q = p /\ rows'[q].nick = nick[hello]
      BY <3>1, <2>2, <1>1 DEF File, Filed, Row, TypeOK
    <3>2. ASSUME rows[p] = Nil, Full
          PROVE  \A q \in Filed(rows') : \/ q \in Filed(rows) /\ rows'[q].nick = rows[q].nick
                                         \/ q = p /\ rows'[q].nick = nick[hello]
      <4>1. PICK v \in Evictable : rows' = [rows EXCEPT ![v] = Nil, ![p] = Row(nick[hello], now, FALSE)]
        BY <2>2, <3>2 DEF File
      <4>2. v \in Filed(rows)
        BY <4>1 DEF Evictable
      <4> QED
        BY <1>1, <4>1, <4>2, <3>2 DEF Filed, Row, TypeOK
    <3>3. ASSUME rows[p] = Nil, ~Full
          PROVE  \A q \in Filed(rows') : \/ q \in Filed(rows) /\ rows'[q].nick = rows[q].nick
                                         \/ q = p /\ rows'[q].nick = nick[hello]
      BY <3>3, <2>2, <1>1 DEF File, Filed, Row, TypeOK
    <3> QED
      BY <3>1, <3>2, <3>3
  <2> QED
    BY <2>1, <2>2
<1>4. ASSUME NEW t \in Sessions, NEW u \in Sessions, Bears(t)', Bears(u)', Owner[t] # Owner[u]
      PROVE  nick'[t] = <<>> \/ nick'[t] # nick'[u]
  BY <1>2, <1>4 DEF NamesInv
<1>5. ASSUME NEW t \in Sessions, NEW q \in Filed(rows'), Bears(t)', Owner[t] # q
      PROVE  nick'[t] = <<>> \/ nick'[t] # rows'[q].nick
  <2>1. CASE q \in Filed(rows) /\ rows'[q].nick = rows[q].nick
    BY <2>1, <1>2, <1>5 DEF NamesInv
  <2>2. CASE q = p /\ rows'[q].nick = nick[hello]
    BY <2>2, <1>1, <1>2, <1>5 DEF NamesInv
  <2> QED
    BY <2>1, <2>2, <1>3
<1>6. ASSUME NEW q \in Filed(rows'), NEW r \in Filed(rows'), q # r
      PROVE  rows'[q].nick = <<>> \/ rows'[q].nick # rows'[r].nick
  BY <1>1, <1>3, <1>6 DEF NamesInv
<1> QED
  BY <1>4, <1>5, <1>6 DEF NamesInv

LEMMA NamesKept == ASSUME TypeOK, NamesInv, [Next]_vars PROVE NamesInv'
<1>1. ASSUME NEW s \in Sessions, Close(s) PROVE NamesInv'
  <2> USE <1>1 DEF Close
  <2>1. rows' = rows /\ Filed(rows') = Filed(rows)
    BY DEF Filed
  <2>2. Nil \notin Sessions
    BY DirectoryAssumption
  <2>3. \A t \in Sessions : Bears(t)' => Bears(t) /\ nick'[t] = nick[t]
    BY DEF Bears, TypeOK
  <2> QED
    BY <2>1, <2>3 DEF NamesInv
<1>2. ASSUME NEW s \in Sessions, NEW want \in Wants \cup {<<>>}, Hello(s, want) PROVE NamesInv'
  BY <1>2, GrantKeepsNames DEF Hello
<1>3. ASSUME NEW s \in Sessions, NEW want \in Wants \cup {<<>>}, Rename(s, want) PROVE NamesInv'
  <2>1. open \subseteq open \cup {s} /\ open' = open \cup {s} /\ hello' \in {Nil, s}
    BY <1>3 DEF Rename
  <2> QED
    BY <1>3, <2>1, GrantKeepsNames DEF Rename
<1>4. CASE Remember
  BY <1>4, FileKeepsNames
<1>5. ASSUME NEW p \in People, NEW owed \in BOOLEAN, Owe(p, owed) PROVE NamesInv'
  <2> USE <1>5 DEF Owe
  <2> DEFINE r == [rows[p] EXCEPT !.owed = owed]
  <2>1. r \in Rows /\ r.nick = rows[p].nick /\ rows' = [rows EXCEPT ![p] = r]
    BY DEF TypeOK, Rows
  <2> HIDE DEF r
  <2>2. r # Nil
    BY <2>1, NilAssumption
  <2>3. Filed(rows') = Filed(rows) /\ \A q \in Filed(rows) : rows'[q].nick = rows[q].nick
    BY <2>1, <2>2 DEF Filed, TypeOK
  <2>4. \A t \in Sessions : Bears(t)' <=> Bears(t)
    BY DEF Bears, sessions
  <2>5. nick' = nick
    BY DEF sessions
  <2> HIDE <1>5 DEF Owe
  <2>6. \A q \in Filed(rows') : q \in Filed(rows) /\ rows'[q].nick = rows[q].nick
    BY <2>3
  <2>7. ASSUME NEW t \in Sessions, NEW u \in Sessions, Bears(t)', Bears(u)', Owner[t] # Owner[u]
        PROVE  nick'[t] = <<>> \/ nick'[t] # nick'[u]
    BY <2>4, <2>5, <2>7 DEF NamesInv
  <2>8. ASSUME NEW t \in Sessions, NEW q \in Filed(rows'), Bears(t)', Owner[t] # q
        PROVE  nick'[t] = <<>> \/ nick'[t] # rows'[q].nick
    BY <2>4, <2>5, <2>6, <2>8 DEF NamesInv
  <2>9. ASSUME NEW q \in Filed(rows'), NEW u \in Filed(rows'), q # u
        PROVE  rows'[q].nick = <<>> \/ rows'[q].nick # rows'[u].nick
    BY <2>6, <2>9 DEF NamesInv
  <2> QED
    BY <2>7, <2>8, <2>9 DEF NamesInv
<1>6. ASSUME UNCHANGED <<sessions, rows>> PROVE NamesInv'
  BY <1>6 DEF NamesInv, Bears, Filed, sessions
<1>7. CASE UNCHANGED vars \/ Tick \/ Stop \/ \E v \in Savers : Snapshot(v) \/ Saved(v) \/ SaveFails(v)
  BY <1>6, <1>7 DEF vars, Tick, Stop, Snapshot, Saved, SaveFails
<1> QED
  BY <1>1, <1>2, <1>3, <1>4, <1>5, <1>7 DEF Next

-----------------------------------------------------------------------------
\* The file

\* While the flag is clear the newest copy is right: it is still on its way, or
\* it has landed and whatever is on its way is older.
Newest == flight[Len(flight)]
FileInv ==
  ~dirty => \/ Len(flight) # 0 /\ Newest \in current \ late
            \/ InFlight \subseteq late /\ ("file" \in current \/ overtaken)

LEMMA FileKept == ASSUME TypeOK, FileInv, [Next]_vars PROVE FileInv'
<1>1. ASSUME dirty' = TRUE PROVE FileInv'
  BY <1>1 DEF FileInv
<1>2. ASSUME UNCHANGED <<dirty, saves, current>> PROVE FileInv'
  BY <1>2 DEF FileInv, InFlight, Newest, saves
<1>3. ASSUME UNCHANGED <<dirty, rows, saves>>, Touch PROVE FileInv'
  BY <1>2, <1>3 DEF Touch
<1>4. ASSUME NEW s \in Sessions, NEW want \in Wants \cup {<<>>}, Hello(s, want) \/ Rename(s, want)
      PROVE  FileInv'
  <2>1. Touch /\ UNCHANGED saves
    BY <1>4 DEF Hello, Rename
  <2>2. PICK asked : SetNick(s, want, asked)
    BY <1>4 DEF Hello, Rename
  <2>3. (rows' = rows /\ dirty' = dirty) \/ dirty' = TRUE
    BY <2>2, SetNickGives DEF NickIs
  <2> QED
    BY <2>1, <2>3, <1>1, <1>3
<1>5. ASSUME NEW v \in Savers, Snapshot(v) PROVE FileInv'
  <2>1. Len(flight') # 0 /\ flight'[Len(flight')] = v
    BY <1>5, SnapshotTypes
  <2>2. v \in current' /\ v \notin late'
    BY <1>5 DEF Snapshot, TypeOK
  <2> QED
    BY <2>1, <2>2 DEF FileInv, Newest
<1>6. ASSUME NEW v \in Savers, Saved(v) PROVE FileInv'
  <2> USE <1>6 DEF Saved
  <2> SUFFICES ASSUME ~dirty'
               PROVE  \/ Len(flight') # 0 /\ Newest' \in current' \ late'
                      \/ InFlight' \subseteq late' /\ ("file" \in current' \/ overtaken')
    BY DEF FileInv
  <2>1. /\ InFlight' = InFlight \ {v}
        /\ Newest # v => Len(flight') # 0 /\ Newest' = Newest
        /\ Len(flight) \in Nat \ {0}
    BY LandedRemoves DEF Newest
  <2>2. DOMAIN flight = 1 .. Len(flight)
    BY DEF TypeOK
  <2>3. CASE Len(flight) # 0 /\ Newest \in current \ late /\ Newest # v
    <3>1. Newest # "file"
      BY <2>1, <2>2, DirectoryAssumption DEF Newest, TypeOK
    <3>2. Newest \notin Older(v)
      <4> SUFFICES ASSUME NEW i \in DOMAIN flight, NEW j \in DOMAIN flight, i < j,
                          flight[i] = Newest
                   PROVE  FALSE
        BY DEF Older
      <4>1. i = Len(flight)
        BY <2>1, <2>2 DEF Newest, TypeOK
      <4> QED
        BY <2>1, <2>2, <4>1
    <3> QED
      BY <2>1, <2>3, <3>1, <3>2
  <2>4. CASE Len(flight) # 0 /\ Newest \in current \ late /\ Newest = v
    <3>1. InFlight \ {v} \subseteq Older(v)
      <4> SUFFICES ASSUME NEW i \in DOMAIN flight, flight[i] # v PROVE flight[i] \in Older(v)
        BY DEF InFlight
      <4>1. i < Len(flight) /\ Len(flight) \in DOMAIN flight /\ flight[Len(flight)] = v
        BY <2>1, <2>2, <2>4 DEF Newest
      <4>2. flight[i] \in InFlight
        BY DEF InFlight
      <4> QED
        BY <4>1, <4>2 DEF Older
    <3> QED
      BY <2>1, <2>4, <3>1
  <2>5. CASE InFlight \subseteq late /\ ("file" \in current \/ overtaken)
    <3>1. v \in late
      BY LandedRemoves, <2>5
    <3> QED
      BY <2>1, <2>5, <3>1
  <2> QED
    BY <2>3, <2>4, <2>5 DEF FileInv
<1> QED
  BY <1>1, <1>2, <1>3, <1>4, <1>5, <1>6
  DEF Next, vars, Close, Remember, Owe, Tick, Stop, SaveFails, sessions

-----------------------------------------------------------------------------
\* The theorems

DirectoryInv == TypeOK /\ NamesInv /\ FileInv

\* All of it holds for ever, from any file that an earlier life has left.
LEMMA DirectoryInvHolds == Spec => []DirectoryInv
<1>1. Init => DirectoryInv
  <2> SUFFICES ASSUME Init PROVE DirectoryInv
    OBVIOUS
  <2> USE DEF Init
  <2>1. \A p \in People : <<>> \in NamesOf(p) /\ <<>> \in AllNames
    BY DEF NamesOf, AllNames
  <2>2. \A s \in Sessions : Owner[s] \in People
    BY DirectoryAssumption
  <2>3. nick \in [Sessions -> AllNames] /\ \A s \in Sessions : nick[s] \in NamesOf(Owner[s])
    BY <2>1, <2>2
  <2>4. now \in 0..Horizon
    BY DirectoryAssumption
  <2>5. flight \in Seq(Savers) /\ DOMAIN flight = {} /\ Len(flight) = 0
    OBVIOUS
  <2>6. InFlight = {}
    BY <2>5 DEF InFlight
  <2>7. TypeOK
    <3>1. Size(rows) \in Nat /\ MaxKnownPeers \in Nat
      <4>1. IsFiniteSet(Filed(rows))
        BY DirectoryAssumption, FS_Subset DEF Filed
      <4> QED
        BY <4>1, DirectoryAssumption, FS_CardinalityType DEF Size
    <3>2. Size(rows) <= most /\ most \in Nat /\ MaxKnownPeers <= most
      BY <3>1 DEF Full
    <3> QED
      BY <2>3, <2>4, <2>5, <2>6, <3>2 DEF TypeOK
  <2>8. NamesInv
    BY DirectoryAssumption DEF NamesInv, Bears
  <2>9. FileInv
    BY <2>6 DEF FileInv
  <2> QED
    BY <2>7, <2>8, <2>9 DEF DirectoryInv
<1>2. DirectoryInv /\ [Next]_vars => DirectoryInv'
  BY TypesKept, NamesKept, FileKept DEF DirectoryInv
<1> QED
  BY <1>1, <1>2, PTL DEF Spec

\* Every variable keeps its type, and the directory does not grow beyond the
\* limit, or beyond what was loaded, through evictions for newcomers.
THEOREM TypeCorrect == Spec => []TypeOK
<1>1. DirectoryInv => TypeOK
  BY DEF DirectoryInv
<1> QED
  BY <1>1, DirectoryInvHolds, PTL

\* Two people never carry or are remembered by one name, whatever disconnects
\* in the middle of a HELLO, is renamed, evicted or read from an older file.
THEOREM NamesStayUnique == Spec => []NamesAreUnique
<1>1. DirectoryInv => NamesAreUnique
  <2> SUFFICES ASSUME DirectoryInv, NEW p \in People, NEW q \in People, p # q,
                      NEW x \in {nick[s] : s \in {t \in open : Owner[t] = p}}
                                \cup (IF rows[p] = Nil THEN {} ELSE {rows[p].nick}),
                      x \in {nick[s] : s \in {t \in open : Owner[t] = q}}
                            \cup (IF rows[q] = Nil THEN {} ELSE {rows[q].nick})
               PROVE  x = <<>>
    BY DEF NamesAreUnique
  <2> USE DEF DirectoryInv
  <2>1. \A t \in open : t \in Sessions /\ Bears(t)
    BY DEF TypeOK, Bears
  <2>2. (\E s \in open : Owner[s] = p /\ x = nick[s]) \/ (p \in Filed(rows) /\ x = rows[p].nick)
    BY DEF Filed
  <2>3. (\E s \in open : Owner[s] = q /\ x = nick[s]) \/ (q \in Filed(rows) /\ x = rows[q].nick)
    BY DEF Filed
  <2> QED
    BY <2>1, <2>2, <2>3 DEF NamesInv
<1> QED
  BY <1>1, DirectoryInvHolds, PTL

\* While nobody is writing and the flag is clear the file says what the
\* directory says, whatever saves failed or overlapped, unless an older copy
\* was renamed over a newer one.
THEOREM FileAgreesWhenClear == Spec => []FileAgreesUnlessMarked
<1>1. DirectoryInv => FileAgreesUnlessMarked
  BY DEF DirectoryInv, FileInv, FileAgreesUnlessMarked
<1> QED
  BY <1>1, DirectoryInvHolds, PTL

\* Only filing a newcomer removes a row, and it removes one that is owed
\* something only when all are, and of those that count the longest unseen.
THEOREM OwedGoLast == Spec => OwedAreEvictedLast
<1> DEFINE A == \A p \in People :
                  rows[p] # Nil /\ rows'[p] = Nil =>
                    \A q \in Filed(rows) :
                      /\ rows[p].owed => rows[q].owed
                      /\ rows[q].owed = rows[p].owed => rows[p].seen <= rows[q].seen
<1>1. ASSUME DirectoryInv, [Next]_vars PROVE A
  <2> SUFFICES ASSUME NEW p \in People, rows[p] # Nil, rows'[p] = Nil
               PROVE  \A q \in Filed(rows) :
                        /\ rows[p].owed => rows[q].owed
                        /\ rows[q].owed = rows[p].owed => rows[p].seen <= rows[q].seen
    OBVIOUS
  <2> USE <1>1 DEF DirectoryInv, TypeOK
  <2>1. rows' # rows
    OBVIOUS
  <2>2. ASSUME NEW x \in People, NEW r \in Rows, rows' = [rows EXCEPT ![x] = r] PROVE FALSE
    BY <2>2, NilAssumption
  <2>3. ASSUME NEW s \in Sessions, NEW want \in Wants \cup {<<>>}, NEW asked,
               SetNick(s, want, asked)
        PROVE  FALSE
    <3>1. PICK g \in NamesOf(Owner[s]) :
            rows' = rows \/ (rows[Owner[s]] # Nil /\ rows' = [rows EXCEPT ![Owner[s]].nick = g])
      BY <2>3, SetNickGives DEF NickIs
    <3>2. Owner[s] \in People /\ g \in AllNames
      BY DirectoryAssumption DEF AllNames
    <3> DEFINE r == [rows[Owner[s]] EXCEPT !.nick = g]
    <3>3. rows' = [rows EXCEPT ![Owner[s]] = r] /\ rows[Owner[s]] \in Rows
      BY <2>1, <3>1, <3>2
    <3>4. r \in Rows
      BY <3>2, <3>3 DEF Rows
    <3> HIDE DEF r
    <3> QED
      BY <2>2, <3>2, <3>3, <3>4
  <2>4. ASSUME NEW x \in People, NEW owed \in BOOLEAN, Owe(x, owed) PROVE FALSE
    <3> DEFINE r == [rows[x] EXCEPT !.owed = owed]
    <3>1. rows' = [rows EXCEPT ![x] = r] /\ rows[x] \in Rows
      BY <2>4 DEF Owe
    <3>2. r \in Rows
      BY <3>1 DEF Rows
    <3> HIDE DEF r
    <3> QED
      BY <2>2, <3>1, <3>2
  <2>5. ASSUME Remember PROVE p \in Evictable
    <3>1. hello \in Sessions /\ Owner[hello] \in People /\ nick[hello] \in NamesOf(Owner[hello])
      BY <2>5, DirectoryAssumption DEF Remember
    <3>2. File(Owner[hello], nick[hello])
      BY <2>1, <2>5 DEF Remember
    <3> DEFINE o == Owner[hello]
               r == IF rows[o] # Nil
                      THEN Row(IF nick[hello] # <<>> THEN nick[hello] ELSE rows[o].nick, now, rows[o].owed)
                      ELSE Row(nick[hello], now, FALSE)
    <3>3. \/ rows' = [rows EXCEPT ![o] = r]
          \/ \E v \in Evictable : rows' = [rows EXCEPT ![v] = Nil, ![o] = r]
      BY <3>1, <3>2 DEF File
    <3>4. r # Nil
      <4>1. CASE rows[o] = Nil
        <5> DEFINE m == nick[hello]
                   w == FALSE
        <5>1. m \in NamesOf(o) /\ now \in 0..Horizon /\ w \in BOOLEAN /\ o \in People
          BY <3>1
        <5> HIDE DEF m, w
        <5>2. Row(m, now, w) # Nil
          BY <5>1, RowIsFiled
        <5> QED
          BY <4>1, <5>2 DEF m, w
      <4>2. CASE rows[o] # Nil
        <5> DEFINE m == IF nick[hello] # <<>> THEN nick[hello] ELSE rows[o].nick
        <5>1. rows[o] \in Rows /\ rows[o].nick \in NamesOf(o)
          BY <4>2, <3>1 DEF OwnNames, Filed
        <5>2. m \in NamesOf(o) /\ now \in 0..Horizon /\ rows[o].owed \in BOOLEAN /\ o \in People
          BY <5>1, <3>1 DEF Rows
        <5> HIDE DEF m
        <5>3. Row(m, now, rows[o].owed) # Nil
          BY <5>2, RowIsFiled
        <5> QED
          BY <4>2, <5>3 DEF m
      <4> QED
        BY <4>1, <4>2
    <3> HIDE DEF r, o
    <3> QED
      BY <3>3, <3>4
  <2>6. Remember
    BY <2>1, <2>3, <2>4
    DEF Next, vars, Close, Hello, Rename, Tick, Stop, Snapshot, Saved, SaveFails
  <2>7. \A q \in Filed(rows) : rows[q].owed \in BOOLEAN
    BY DEF Filed, Rows
  <2> QED
    BY <2>5, <2>6, <2>7 DEF Evictable
<1>2. Spec => [][A]_vars
  <2> HIDE DEF A
  <2> QED
    BY <1>1, DirectoryInvHolds, PTL DEF Spec
<1> QED
  BY <1>2 DEF OwedAreEvictedLast
=============================================================================
