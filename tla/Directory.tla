----------------------------- MODULE Directory -----------------------------
(***************************************************************************)
(* Who is called what: hub/nicks.go, the peer directory of hub/mentions.go *)
(* and its file, which hub.go writes and peerreg reads back.               *)
(*                                                                         *)
(* A name is held by the sessions that carry it and by the directory row   *)
(* of the last identity that did, so it outlives a disconnection.  The     *)
(* dispatcher handles one frame at a time; a HELLO grants the name and     *)
(* files its owner in two steps, and a Close by another goroutine may fall *)
(* in between.  The prune loop, the push loop and Stop each copy the       *)
(* directory under the mutex and write the copy without it.  What a copy    *)
(* says is left out, but whether the directory has changed since: a start   *)
(* finds any directory that an earlier life may have written, under another *)
(* configuration too.                                                       *)
(*                                                                         *)
(* The sessions are those of peers that identified.  unique_nicks and      *)
(* mention_notify are on, and names stand for what nickKey folds them to.  *)
(***************************************************************************)
EXTENDS Naturals, Sequences, FiniteSets, SequencesExt

CONSTANTS
  People, Sessions,
  Nil,
  Owner,          \* whose session it is
  Wants,          \* the names peers ask for, as sequences
  MaxSuffix,      \* maxNickSuffix
  MaxKnownPeers,  \* cfg.MaxKnownPeers, which is never left at 0
  Savers,         \* which of the goroutines that save are looked at
  Horizon         \* bound: the seconds that pass

ASSUME DirectoryAssumption ==
  /\ IsFiniteSet(People) /\ Nil \notin People \cup Sessions
  /\ Owner \in [Sessions -> People]
  /\ <<>> \notin Wants /\ Nil \notin Wants
  /\ MaxSuffix \in Nat /\ MaxKnownPeers \in Nat \ {0}
  /\ Savers \subseteq {"prune", "push", "stop"}
  /\ Horizon \in Nat

VARIABLES
  open,      \* Hub.sessions
  nick,      \* Session.nick, <<>> for none
  rows,      \* Hub.peers: person -> row or Nil
  hello,     \* the session whose HELLO is being handled, or Nil
  now,       \* the clock, in seconds
  up,        \* "running", "stopping" (Stop has begun), "flushing" (and is saving)
  dirty,     \* Hub.peersDirty
  flight,    \* who is saving, by the age of their copies
  current,   \* which copies, peers.toml among them, say what the directory says
  late,      \* history: who writes a copy older than one already written
  overtaken, \* history: the file is such a copy
  most       \* history: the rows of the file that was loaded, or the limit

sessions == <<open, nick, hello>>
saves == <<flight, late, overtaken>>
fixed == <<up, most>>
vars == <<sessions, rows, now, dirty, current, saves, fixed>>

Row(name, seen, owed) == [nick |-> name, seen |-> seen, owed |-> owed]
Filed(dir) == {p \in People : dir[p] # Nil}
Size(dir) == Cardinality(Filed(dir))

-----------------------------------------------------------------------------
\* Names

\* nickWithSuffix: "sam", "sam1", "sam2".
Variant(want, n) == IF n = 0 THEN want ELSE Append(want, n)

NamesOf(p) == {Variant(w, n) : w \in Wants, n \in 0..MaxSuffix}
              \cup {Append(w, p) : w \in Wants} \cup {<<>>}
AllNames == UNION {NamesOf(p) : p \in People}
Rows == [nick : AllNames, seen : 0..Horizon, owed : BOOLEAN]

ASSUME NilAssumption == Nil \notin Rows

\* What the comments of nicks.go take for granted of the name with a piece of an
\* identity: it is no variant of a name that somebody else asks for.
ASSUME FallbackAssumption ==
  \A p, q \in People : p # q => \A w \in Wants : Append(w, p) \notin NamesOf(q)

\* A change of the directory leaves every copy behind.
Touch == current' = IF rows' = rows THEN current ELSE {}

\* Mutant: a name is held for as long as somebody connected carries it.
ConnectedHolders(name, asked) == {Owner[s] : s \in {t \in asked : nick[t] = name}}

\* nickOwnerLocked: the sessions are asked first, then the directory.
Holders(name, asked) ==
  LET carried == {Owner[s] : s \in {t \in asked : nick[t] = name}}
  IN  IF carried # {} THEN carried ELSE {p \in Filed(rows) : rows[p].nick = name}

Takes(p, name, asked) == Holders(name, asked) \subseteq {p}

\* assignNickLocked: the first variant nobody else holds, or past the last one
\* the name with a piece of the identity, which is not looked up.
Granted(p, want, asked) ==
  LET free == {n \in 0..MaxSuffix : Takes(p, Variant(want, n), asked)}
  IN  IF free # {} THEN Variant(want, CHOOSE n \in free : \A k \in free : n <= k)
                   ELSE Append(want, p)

\* setNickLocked: only an existing row follows.
SetNick(s, want, asked) ==
  LET p == Owner[s]
      name == IF want = <<>> THEN <<>> ELSE Granted(p, want, asked)
      moves == name # <<>> /\ rows[p] # Nil /\ rows[p].nick # name
  IN  /\ nick' = [nick EXCEPT ![s] = name]
      /\ rows' = IF moves THEN [rows EXCEPT ![p].nick = name] ELSE rows
      /\ dirty' = (dirty \/ moves)

-----------------------------------------------------------------------------
\* Sessions

\* Close, by any goroutine and in the middle of a HELLO too.
Close(s) ==
  /\ s \in open /\ open' = open \ {s}
  /\ nick' = IF hello = s THEN nick ELSE [nick EXCEPT ![s] = <<>>]
  /\ UNCHANGED <<hello, rows, now, dirty, current, saves, fixed>>

\* handleHello, on a new link or a second one.  resetForReHello takes the name
\* away, so the session is not asked, and the row keeps it.  Nobody else handles
\* a frame before a name is granted again.
Hello(s, want) ==
  /\ up = "running" /\ hello = Nil /\ hello' = s
  /\ open' = open \cup {s} /\ SetNick(s, want, open \ {s}) /\ Touch
  /\ UNCHANGED <<now, saves, fixed>>

\* handleMsg with K_NICK: a name is claimed again with a message.
Rename(s, want) ==
  /\ up = "running" /\ hello = Nil /\ s \in open /\ want # <<>> /\ want # nick[s]
  /\ SetNick(s, want, open) /\ Touch
  /\ UNCHANGED <<open, hello, now, saves, fixed>>

\* Mutant: the one not seen for longest goes, whatever it is owed.
OldestOfAll == {p \in Filed(rows) : \A q \in Filed(rows) : rows[p].seen <= rows[q].seen}

\* evictOldestPeerLocked; among rows of one date the identity decides.
Evictable ==
  LET free == {p \in Filed(rows) : ~rows[p].owed}
      pool == IF free # {} THEN free ELSE Filed(rows)
  IN  {p \in pool : \A q \in pool : rows[p].seen <= rows[q].seen}

\* Mutant: a full directory takes one more.
FullAtOneMore == Size(rows) > MaxKnownPeers

Full == Size(rows) >= MaxKnownPeers

\* rememberPeer: one goes for one who comes, so a directory that was loaded
\* above the limit stays above it.
File(p, name) ==
  IF rows[p] # Nil
    THEN rows' = [rows EXCEPT ![p] = Row(IF name # <<>> THEN name ELSE @.nick, now, @.owed)]
  ELSE IF Full
    THEN \E v \in Evictable :
           rows' = [rows EXCEPT ![v] = Nil, ![p] = Row(name, now, FALSE)]
  ELSE rows' = [rows EXCEPT ![p] = Row(name, now, FALSE)]

\* The end of a HELLO; a Close may have taken the identity away before.
Remember ==
  /\ hello # Nil /\ hello' = Nil
  /\ \/ File(Owner[hello], nick[hello]) /\ dirty' = TRUE
     \/ hello \notin open /\ UNCHANGED <<rows, dirty>>
  /\ nick' = IF hello \in open THEN nick ELSE [nick EXCEPT ![hello] = <<>>]
  /\ Touch
  /\ UNCHANGED <<open, now, saves, fixed>>

\* queueMentionLocked, and whatever empties a queue: a hand-over, /mentions
\* clear, /notify off or, no handler being needed, a delivered push.
Owe(p, owed) ==
  /\ up = "running" \/ ~owed
  /\ rows[p] # Nil /\ rows[p].owed # owed
  /\ rows' = [rows EXCEPT ![p].owed = owed] /\ dirty' = TRUE /\ Touch
  /\ UNCHANGED <<sessions, now, saves, fixed>>

Tick ==
  /\ now < Horizon /\ now' = now + 1
  /\ UNCHANGED <<sessions, rows, dirty, current, saves, fixed>>

-----------------------------------------------------------------------------
\* The file

InFlight == {flight[i] : i \in DOMAIN flight}
Landed(v) == \E i \in DOMAIN flight : flight[i] = v /\ flight' = RemoveAt(flight, i)
Older(v) == {w \in InFlight : \E i, j \in DOMAIN flight : i < j /\ flight[i] = w /\ flight[j] = v}

\* Stop, which no handler outlives; the loops do.
Stop ==
  /\ "stop" \in Savers /\ up = "running" /\ hello = Nil /\ up' = "stopping"
  /\ UNCHANGED <<sessions, rows, now, dirty, current, saves, most>>

\* flushPeers, up to the mutex's release; Stop calls it once.
Snapshot(v) ==
  /\ dirty /\ v \notin InFlight
  /\ IF v = "stop" THEN up = "stopping" /\ up' = "flushing" ELSE UNCHANGED up
  /\ flight' = Append(flight, v) /\ current' = current \cup {v}
  /\ dirty' = FALSE
  /\ UNCHANGED <<sessions, rows, now, late, overtaken, most>>

\* peerreg.Save renames a whole file into place.
Saved(v) ==
  /\ Landed(v)
  /\ current' = IF v \in current THEN (current \ {v}) \cup {"file"} ELSE current \ {"file"}
  /\ late' = (late \cup Older(v)) \ {v} /\ overtaken' = (v \in late)
  /\ UNCHANGED <<sessions, rows, now, dirty, fixed>>

\* Mutant: a save that failed is not tried again.
FailAndForget(v) ==
  /\ Landed(v)
  /\ current' = current \ {v} /\ late' = late \ {v}
  /\ UNCHANGED <<sessions, rows, now, dirty, overtaken, fixed>>

SaveFails(v) ==
  /\ Landed(v)
  /\ current' = current \ {v} /\ late' = late \ {v} /\ dirty' = TRUE
  /\ UNCHANGED <<sessions, rows, now, overtaken, fixed>>

-----------------------------------------------------------------------------

OwnNames(dir) == \A p \in Filed(dir) : dir[p].nick \in NamesOf(p)

\* loadPeers: a file that an earlier life of the process wrote, or none.  It may
\* have had a higher limit, and nothing is dropped to keep the one of today.
Init ==
  /\ open = {} /\ nick = [s \in Sessions |-> <<>>] /\ hello = Nil
  /\ rows \in [People -> {row \in Rows : row.seen = 0} \cup {Nil}]
  /\ OwnNames(rows)
  /\ \A p, q \in Filed(rows) : p # q => rows[p].nick = <<>> \/ rows[p].nick # rows[q].nick
  /\ now = 0 /\ dirty = FALSE /\ up = "running"
  /\ most = IF Full THEN Size(rows) ELSE MaxKnownPeers
  /\ flight = <<>> /\ current = {"file"} /\ late = {} /\ overtaken = FALSE

Next ==
  \/ \E s \in Sessions : \/ Close(s)
                         \/ \E want \in Wants \cup {<<>>} : Hello(s, want) \/ Rename(s, want)
  \/ Remember
  \/ \E p \in People, owed \in BOOLEAN : Owe(p, owed)
  \/ Tick \/ Stop
  \/ \E v \in Savers : Snapshot(v) \/ Saved(v) \/ SaveFails(v)

Spec == Init /\ [][Next]_vars

-----------------------------------------------------------------------------
\* Properties

\* Types, and the directory never grows beyond max_known_peers, or beyond what
\* it was when it was loaded.
TypeOK ==
  /\ open \subseteq Sessions
  /\ nick \in [Sessions -> AllNames]
  /\ \A s \in Sessions : nick[s] \in NamesOf(Owner[s])
  /\ hello \in Sessions \cup {Nil}
  /\ rows \in [People -> Rows \cup {Nil}] /\ OwnNames(rows)
  /\ Size(rows) <= most /\ most \in Nat /\ MaxKnownPeers <= most
  /\ up \in {"running", "stopping", "flushing"}
  /\ now \in 0..Horizon /\ dirty \in BOOLEAN
  /\ flight \in Seq(Savers)
  /\ \A i, j \in DOMAIN flight : flight[i] = flight[j] => i = j
  /\ current \subseteq InFlight \cup {"file"}
  /\ late \subseteq InFlight /\ overtaken \in BOOLEAN

\* nicks.go, "a nick is owned by an IDENTITY, not by a session": two people
\* never carry one name, connected or remembered, through disconnections,
\* re-HELLOs, renames, evictions and a restart from an older file.
NamesAreUnique ==
  \A p, q \in People : p # q =>
    LET carried(r) == {nick[s] : s \in {t \in open : Owner[t] = r}}
                      \cup (IF rows[r] = Nil THEN {} ELSE {rows[r].nick})
    IN  carried(p) \cap carried(q) \subseteq {<<>>}

\* evictOldestPeerLocked: a newcomer never costs somebody a held mention while
\* there is a row that is owed nothing, and of those the longest unseen goes,
\* whatever happened between the HELLO and the filing.
OwedAreEvictedLast ==
  [][\A p \in People :
       rows[p] # Nil /\ rows'[p] = Nil =>
         \A q \in Filed(rows) :
           /\ rows[p].owed => rows[q].owed
           /\ rows[q].owed = rows[p].owed => rows[p].seen <= rows[q].seen]_vars

\* flushPeers: while nobody is writing and the flag is clear the file is the
\* directory, unless an older copy was renamed over a newer one.
FileAgreesUnlessMarked ==
  flight = <<>> /\ ~dirty /\ ~overtaken => "file" \in current

\* hub.go: "flushPeers persists the directory when something changed".  The same
\* without the exception, which the code does not keep.
FileAgrees == flight = <<>> /\ ~dirty => "file" \in current
=============================================================================
