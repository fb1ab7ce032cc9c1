# Reticulum relay chat hub: TLA+ models, checks and proofs

This directory models `rrc-hub` (Go, `src/cmd` and `src/internal`), a chat hub
that people reach over Reticulum links.  It says what the hub's concurrent
parts promise, checks that on small instances with TLC, and proves the parts
that matter most with TLAPS.  Paths below are relative to `src/internal/`.

## 1. The system

### Goroutines and locks

* **The dispatcher.** One transport goroutine delivers every inbound packet of
  every link.  `service.onLinkData` finds or makes the session and runs
  `Session.OnInbound` to completion, so two handlers never overlap.
* **Background goroutines.** `pingLoop` (keepalive, may Close), `pruneLoop`
  (idle registered rooms, history, peer addresses, peer file),
  `mentionPushLoop` (pushes offline mentions, peer file), `reaperLoop`
  (resource expectations, idle sweep, registry file), the service's `janitor`
  and the link watchdog (may Close), and one goroutine per notification test
  and per resource transfer.
* **Locks.** `Hub.mu` guards rooms, members, bans, peers; `Session.mu` guards
  one session's fields; `Service.mu` guards the link tables; the history store
  and the node table have their own.  Handlers take them one after the other
  and send frames with none held.  **One critical section is one action**;
  whatever runs between two of them can be anybody's step.

### Components

| component | source | state | operations | what is hard | what makes it correct | module |
|---|---|---|---|---|---|---|
| Rooms, sessions, membership | `hub/session.go`, `room.go`, `hub.go`, `commands.go` | `Hub.rooms`, `Room.members`, `Hub.sessions`, `Session.joined/welcomed/closed`, `Hub.banned`, `Room.bans` | HELLO, JOIN, PART, /kick, /ban, /kline, /register, /unregister, Close, prune | each membership is stored twice, in two lock domains; Close comes from any goroutine; rooms are dropped by name | the copies agree, bans hold, no abandoned rooms, limits hold | `Membership`, `Presence` |
| Mentions | `hub/mentions.go`, `notifier.go` | the pending queue, sequence number and liveness of each known person | queue, flush on return, push over LXMF, drop what was pushed, evict | push runs without the lock; delivery may fail; people come back meanwhile | nothing queued is lost unseen, nothing is dropped that was not told | `Mentions`, `Ledger` |
| Peer directory, nicknames | `hub/nicks.go`, `lookalikes.go`, `mentions.go`, `peerreg` | rows by person, names of sessions, `peersDirty`, `peers.toml` | grant, suffix, remember, evict; snapshot, save, retry | a name has two holders; eviction at a limit; two savers without a common lock | one name, one identity; the owed go last; file or mark | `Directory` |
| Room registry | `roomreg`, `hub.go`, `commands.go` | registered rooms, `registryDirty`, `rooms.toml` | mark, copy, save, prune, /reload, Stop | failing saves; changes during a save; crash at any point | what changed gets to the file; default rooms stand | `Registry` |
| Room modes and lists | `commands.go`, `room.go`, `session.go`, `resource.go` | modes, ops, voices, bans, invites with expiry | every room command, JOIN, messages, transfers | caps, expiry, two copies of the gates | the founder keeps command; only the invited enter; every change is marked | `RoomAcl` |
| Transcripts | `history/history.go`, `hub/history.go` | one append-only file per room and day | append, replay, expire, purge | three limits at once, torn writes, rooms that end between relay and record | bounded, no gaps, no inheritance | `Transcript` |
| Links, keepalive, idle sweep | `service/service.go`, `hub/hub.go`, `session.go` | link -> session, link -> identity, `Hub.sessions`, `pingAwaitMs`, `welcomed` | session creation, identify, Close, janitor, watchdog, ping round, PONG, sweep | five goroutines collect under one lock and close later | the table follows the hub; who answers stays, who is gone is closed | `Links` |
| Notification routes | `service/lxmfnotify.go`, `propnodes.go`, `hub/notifier.go` | propagation nodes with their records, the announce cache, `lastPush` | announce, select, send direct or stored, record, evict, release the throttle | two senders and one cache; verdicts made of many outcomes | pushes are spaced; nothing is dropped unstamped | `Routes` |
| Resources | `resource.go` | announced expectations | announce, match, reap | expiry against arrival | a payload passes the room's gates | gates in `RoomAcl` |
| Rate limit | `ratelimit.go` | token bucket | take | boundary arithmetic | - | one outcome in `Links` |
| Config, wire format, help, stats, addresses | `config`, `rrc`, `commands_help.go`, `stats.go`, `lxmfaddr` | none or counters | parsing and formatting | - | - | not modelled |

## 2. The modules

| module | abstract specification | runs | proofs |
|---|---|---|---|
| `Membership` | `Presence` (refinement checked and proved) | `membership_core`, `membership_people` | `Membership_proofs` |
| `Mentions` | `Ledger` (refinement checked and proved) | `mentions_ledger`, `mentions_reach` | `Mentions_proofs` |
| `RoomAcl` | - | `room_rights` | `RoomAcl_proofs` |
| `Registry` | - | `registry_saves` | `Registry_proofs` |
| `Transcript` | - | `transcript_store`, `transcript_torn` | `Transcript_proofs` |
| `Links` | - | `links_life` | `Links_proofs` |
| `Directory` | - | `directory_names` | `Directory_proofs` |
| `Routes` | - | `routes_throttle`, `routes_untried` | `Routes_proofs` |

Each `X` has an `MC_X` that EXTENDS it and names the model values; every
configuration is `X_<run>.cfg`.  The modules are slices of one hub and meet in
places where one takes the other's subject as a choice: `Membership` lets any
operator act and any goroutine Close, which `RoomAcl` and `Links` model;
`Mentions` lets a push end any way, which `Routes` models; `Mentions` has no
file and no names, which `Directory` has.

What would come next: abstract specifications of `Transcript` (a bounded end of a
conversation) and of `Registry` (a durable map), with their refinements proved
from the invariants of section 13; the order in which JOINED and PARTED reach the
links; the list of resource expectations; the token bucket.

## 3. Rooms and sessions: `Membership`, `Presence`

**State.** `rooms` is `Hub.rooms`, a map from name to *object*, because one
name can lead to two Room objects over time; `name`, `founder`, `registered`,
`bans`, `members` are fields of the objects.  `sessions`, `joined`,
`welcomed`, `banned` are the Go fields of these names, `bound` is the service's
link -> identity table.  `phase` is how far a session and its Close have got:
none, open, marked (`closed` set, `joined` taken), torn (out of the hub), gone
(link dropped).  `held` is the list of rooms a running Close carries from one
section to the next.  `disp` is where the dispatcher stands between two
critical sections of a handler, with the locals it carries.

**Actions.** One per critical section.  JOIN is `Join` (limit, under
`Session.mu`), `JoinNewRoom` / `JoinLiveRoom` / `JoinRefused` (under `Hub.mu`),
`RecordJoin` (under `Session.mu`); PART is `Part`, `LeaveRoom`; a second HELLO
is `ReHello`, `LeaveForReHello`, `WelcomeAgain`; `/kick` and `/ban` are `Kick`,
`BanAdd`, then `Unjoin` once per victim.  Close is `MarkClosed` (inside
`BackgroundClose` or `DispatcherClose`), `Teardown`, `CloseLink`.  Between any
two of these, background Closes and `Prune` interleave.

**Abstractions.**
* Room modes, `/op`, `/voice` and invites are left open: `JoinRefused` lets
  anybody but a founder or server operator be refused, `IsOp` knows founders
  and server operators.  An added operator acts like the founder here.
* `Ident` may turn nil at any time during a handler because the service forgets
  the link: `IdentSinceGate` is what an earlier lookup may have returned.
* Frames sent to clients, topics, histories, timestamps are left out.
* Addresses are reused only when a garbage collector would (`Referenced`,
  `DeadSessions`); collection runs first because nobody can observe it.
  Room objects are interchangeable, hence the symmetry over `Objs`.
* Deadlock is not checked: a ghost session (section 12) is pinned for ever in a
  member set, so the finite supply of sessions can run out.

**Abstract specification.** `Presence` says what people see: who is online, and
in which rooms each is present; one enters alone and within the limit, leaves
alone or is expelled together with one's other sessions, and nobody is moved
by somebody else's JOIN, PART, disconnection or HELLO.  `PeopleSpec` is the
refinement (`online` = open sessions, `present` from the member sets).

## 4. Mentions: `Mentions`, `Ledger`

**State.** `dir`, `queue`, `nextSeq`, `optOut` are the rows of `Hub.peers`; a
queue is the set of its entries, which their `Seq` orders.  `link`, `away`,
`fresh`, `inRoom`, `reach` are what presence is judged by.  `disp` is the
dispatcher between the sections of HELLO (`file`, then `flush`) and of a
message (relayed, then `note`).  `batch`, `sent`, `highSeq`, `proven` are the
locals of `pushPendingMentions` while it has no lock, `throttled` is
`Hub.lastPush`.  `posted`, `told`, `copies`, `declined`, `restarted` are history
variables: what the code cannot see but the properties are about.  `restarted`
are those who were evicted while a notification to them was under way: their
numbers start again when they are filed again (section 12).

**Actions.** `Relay` then `Note` are `handleMsg` and `noteMentions`; `Enqueue`
is `queueMentionLocked`.  `Hello`, `Remember` (`rememberPeer`, with eviction),
`Flush` (`flushMentions`); `Away`, `Back`, `Clear`, `NotifyOff`, `NotifyOn` are
the commands.  `Collect` is the first section of `pushPendingMentions`, then
each notification ends `Delivered`, `Unconfirmed` or `Unavailable` while
everything else goes on, and `DropSent` is its second section.

**Abstractions.** `mention_notify` is on and `ping_interval` is set.  One room,
one person named per message, and the name resolved; `Named` bounds
whom messages name.  Time is left out: a
session may fall silent, and a throttle run out, at any moment.  Close is its
hub section (its interleaving is `Membership`'s subject).  A lookup that walks
a Go map meets any session of a person, so it is a choice.  The sender is not
modelled.  `Init` is what `peerreg.Load` makes of a file: entries numbered from
1, and any number of rows, because `loadPeers` does not trim.  The directory
always has a limit: `config/config.go:417` puts 2048 for anything that is not positive.
Which of the evictable goes is left open here (`Directory` has the dates).

**Abstract specification.** `Ledger` is the hub's debt: a mention owed to
somebody stays until told, displaced by `Limit` newer ones, declined by its owner
who is online to say so, or until the owner is forgotten, which takes a newcomer,
a directory with all places taken, and that nobody in it is owed nothing.
Nothing else may take a mention away.  It knows no links, locks or pushes.  Its
one weak place is the code's: what is let go for somebody in `renumbered` need not
have been told.  `LedgerSpec` is the refinement.

## 5. Room rights: `RoomAcl`

**State.** One room, as a record (founder, registered, modes, ops, voiced,
bans, invited with `left` until expiry, and so on); who is a member, whose
identity the service knows yet (`known`), the dirty flag.  `heard` is the
session whose text the room has just heard, and `pass` what a right to enter by
invitation amounts to, both history variables.

**Actions.** One per command with its guard, its caps and its dirty mark:
/register, /unregister, /mode, /topic, /op, /deop, /voice, /devoice, /ban,
/invite and their forms, JOIN, PART, Close, messages, and a NOTICE that comes
as a resource, which passes a second copy of the gates.  Each is one step: the
dispatcher runs them one at a time and `Membership` has their interleaving.

**Abstractions.** Only the modes that some guard reads are told apart; `/reload`
and the file are in `Registry`; identities may be proved after the session is
made or never.  Time is `Tick`, which ages the invitations.

## 6. The registry and its file: `Registry`

**State.** `table` is `Hub.rooms`.  A room has whether it is registered, whether
it has a founder, the number of the last change of its topic, modes and lists,
and the date of its last use; `here` are the rooms somebody is in.  `saving` has
the copy each of the two savers (reaper, Stop) is writing, `file` is
`rooms.toml`, `up` is where the process stands in its life.  History: `lastUse`
(when a room was really used), `revived` (brought back by /reload, not changed
since), `given` (default rooms given up by their founder).

**Actions.** `Join`, `Talk`, `Leave`; `Register`, `Unregister`, `Edit` change the
table and set the flag; `Copy` is the section of `flushRegistry` under the mutex,
`Write` or `Fail` the save; `Prune`, `Reload`, `Start`, `Close`, `StopFlush`,
`Exit`, and `Crash` at any moment.  The save writes a temporary file and renames
it, so the file changes at once.

**The start.**  The first `rooms.toml` is any file, one from before a room was
put in `default_rooms` included: `ensureDefaultRooms` leaves a room that is there
the founder it has, and this founder may /unregister it, after which it goes with
its last member.  A default room that `ensureDefaultRooms` made has no founder,
and nobody can.

**Abstractions.** A file that cannot be parsed is left out.  `Horizon` and
`MaxEdits` bound the clock and the changes.

## 7. Transcripts: `Transcript`

**State.** `store` is the content of each room's file of each day, where half a
record is the value `Torn`; `relayed` is the room whose message the dispatcher
has fanned out and not yet recorded; `said` is what was recorded since the room
was made or purged, less what a power cut took.

**Actions.** `Create`, `Die`, `Register`, `Unregister`, `PruneRoom`, `Purge`;
`Relay` then `RecordMessage` or `RecordFails`; `PruneStore` with expiry by day,
the cap of a room and the cap of all; `PowerCut`; `Tick`.  `Recent` reads
backwards within the window, the count and the bytes.

**Abstractions.** The dispatcher hands in one message at a time.  A framed
record and its body have one size.  Dates ascend: a clock that is set back is not
modelled (section 14).  `TornAssumption` says that half a record is none.

## 8. Links and their sessions: `Links`

**State.** `filed` and `identities` are the service's tables, `hubSessions` the
hub's; `stage` is how far Close has come with a session; `todo`, `closing` are
what each of five goroutines has collected and is closing; `await`, `toSort`,
`toPing`, `sending` are the ping round's; `dispatcher` is where a frame stands between
`onLinkData`, `sessionFor`, `NewSession`, the filing, `OnInbound` and the end of
a HELLO.

**Actions.** Links are established, hang up (and this is reported) or vanish
(and nothing is).  Close is `MarkClosed`, `LeaveHub`, `CutLink`, `DropSession`,
by any goroutine.  The rest are the dispatcher's steps, `SweepDeadLinks`,
`OnLinkClosed`, `DoIdleSweep`, and the ping round's `DoPingRound` (which lists
the welcomed sessions), `SortByAwait` (which reads `pingAwaitMs` of one of them,
in a section of its own), `StartPing`, `SendPing`.

**Abstractions.** Time only makes a session old (`Age`) and a PONG overdue
(`Overdue`), at any moment.  A session is old long after it was filed: the idle
timeout is minutes, the filing a few statements.  The limiter is one of the
outcomes of `OnInbound`.  A link is established once.  Deadlock is not checked:
links and sessions are used up.

## 9. Names and the peer directory: `Directory`

**State.** `rows` are the rows of `Hub.peers` (name, when last seen, whether
owed anything), `nick` and `open` the sessions', `hello` the session between the
grant of its name and the filing of its owner.  What a copy of the directory
says is folded into whether it is still `current`; `flight` has the savers in
the order of their copies.

**Actions.** `Hello`, `Rename`, `Close`, `Remember` (with eviction), `Owe`;
`Snapshot`, `Saved`, `SaveFails` for the prune loop, the push loop and Stop; `Stop`
begins when no handler runs any more; `Tick`.  `Savers` says which of the three a
run looks at.

**The start.**  `Init` is any directory an earlier life may have left.  `loadPeers`
does not trim: a file from before `max_known_peers` was lowered stays over the
limit, one row going for each that comes, so the bound in `TypeOK` is `most`, the
limit or what was loaded.

**Abstractions.** Names stand for what `nickKey` folds them to.  Names are
sequences so that a suffix is a longer one; that somebody asks for the fallback
name of another identity is left out (`FallbackAssumption`, section 14).  Deadlock is
not checked because the clock stops at `Horizon`.

## 10. Notification routes: `Routes`

**State.** One absent person, and the nodes, which attempts for everybody share;
`known` are the records of `propNodes`, `cache` and `peerCache` the transport's
announce cache for nodes and for the person, `lastPush` the throttle.  `attempt` is
how far each goroutine has come: `"push"`, `"test"` for a `/notify test` of the
same person, and any finite number of others for other people, who may test at
the same time (`hub/commands.go:1614` throttles by identity).  `over`, `spent`,
`overwrote` are history variables.

**Actions.** Announces, `Forget` (the cache is bounded), `Push`, `Test`, then
`Look`, `Restore` (`ensureAddressable`, which locks twice), `ReadPolicy`,
`Proved` / `Unproved` (the direct send), `Select`, `Upload` per node with
`RecordResult`, and the verdict that may release the throttle.
`AttemptForOther` begins at the selection: what comes before concerns only that
other person.

**Abstractions.** Of an outcome only what tells tiers apart is kept.  The
person's own announce, once heard, stays: `PinPeers` keeps it.  One life of the
process.  Deadlock is not checked because the clock stops at `Horizon`.

## 11. Runs

| run | expects | question |
|---|---|---|
| `membership_core` | pass, 349k states | types, agreement of the two copies, room bans, no abandoned rooms, hub bans |
| `membership_people` | pass, 1.3M states | refinement of `Presence`, rooms per session |
| `mentions_ledger` | pass, 2.6M states | refinement of `Ledger` with a full directory, gapless tail, opt-out, exact drop |
| `mentions_reach` | pass, 47k states | liveness: what is held for the absent gets there |
| `room_rights` | pass, 502k states | caps, the founder's command, dirty marks, invitations, the two copies of the gates |
| `registry_saves` | pass, 815k states | file or mark, default rooms, and liveness: a change gets to disk |
| `transcript_store` | pass | no gaps, no inheritance, the window, the caps, the newest record |
| `links_life` | pass, 167k states | the table follows the hub, nobody who answers is waited for, who is swept, and liveness: slots are freed |
| `directory_names` | pass, 3.3M states | unique names, eviction order, size, file or mark |
| `routes_throttle` | pass, 4.8M states | bounded node table, spacing of pushes, stamps |
| `transcript_torn`, `routes_untried` | violation | section 12 |

**Bounds.**
* `Membership`: two sessions of different identities on one name (bans, kicks,
  operators against others) or of one identity on two names (two links of one
  person, one room each), and three Room objects, so that one can be in the
  table, one held by a Close and one by a handler.  Limits are 1 or 2 so that
  every cap is reached.  No counter is cut off: these spaces are finite.
* `Mentions`: `QueueLimit` 2 with three messages displaces entries while others
  are being sent.  Two people share one place: messages name the one who has a
  link, and the other's row, with or without a held mention, may be in the file; so
  rows owed something and owed nothing are evicted, in the middle of a push too, and
  a file with both rows is over the limit.  `LoadLimit` bounds the queues in the file
  and `MaxCopies` how far copies are counted, and no guard depends on either.
* `RoomAcl`: two sessions of two identities, one trusted, lists of one entry and
  an invitation of one tick: every cap is met and every invitation runs out.
* `Registry`: a default room and another, a prune after one tick, one change: the
  file, a copy being written and the table can all differ, by the change, by a
  /register or by a prune.
* `Transcript`: two rooms, two days of two ticks, a window of one tick, caps of
  three with records of one and three, one cut.  A window ends inside a day, a
  record is over a limit alone, and the total is exceeded by two rooms.
* `Links`: one link and the two sessions it can ever have (a second is made when
  a frame meets a Close of the first); `NewSession` lets other links fill the
  hub.  Two links never meet but in that count; `Links_proofs` covers any number.
* `Directory`: three people, two of them connected and one of those twice, two
  rows, one suffix: somebody must be evicted, somebody must get a suffix or the
  fallback, and a file of three rows is over the limit.  The prune loop and Stop
  save over each other; the push loop calls the same function as the prune loop.
* `Routes`: two nodes in a table of one and a fanout of one, a push, a test for the
  same person and an attempt for somebody else, so that a node is evicted while two
  of them still have it to try.  Intervals are of one tick; `routes_untried` takes
  the ratios of the code's constants (`nodeFailureCooldown` under
  `mentionPushInterval`).  A verdict made of several uploads, and a pinned node,
  are in the theorems `Spaced` and `TypeCorrect` only.

**Fairness.**  The other runs have none.
* `mentions_reach`: weak fairness on the dispatcher's remaining sections (a
  handler does not stop in the middle), on the push loop's two sections (a
  ticker), on a send's outcome (it is given a timeout) and on the throttle
  running out.  Strong fairness of `Delivered` is an assumption about the world:
  whoever is tried for ever is reached in the end.
* `registry_saves`: `reaperLoop` ticks and a save ends, weakly; strong fairness of
  `Write` says that a save tried again and again succeeds.
* `links_life`: weak fairness on the steps of handlers and Closes, on reports and
  on time; strong fairness of a ping round and a sweep that find a given session:
  a round that falls into a second HELLO does not see it, and rounds do not fall
  into one for ever.
Nothing makes clients come back, write or leave.

## 12. What the code does not do as documented

Two disagreements with a comment are shown by runs; `findings` of `PROJECT.json`
quotes the lines and tells the traces.
1. *Torn files* (`transcript_torn`, `history/history.go:493`).  Half a record in a
   day's file hides everything recorded after it that day, which is more than
   "the last few messages" (`history.go:16`).
2. *Forgiven too soon* (`routes_untried`, `service/propnodes.go:77`).  A failed
   node is demoted for 20 minutes and the pushes of one person are 30 minutes
   apart, so it is retried ahead of untried ones (`propnodes.go:73`).

The modules state more that one would expect and the code does not keep.  No run
lists these, and a configuration that does finds the trace at once.  What the
passing properties except, they except because of these.
* `Membership`
  * `ClosedLeaveEveryRoom` (`hub/session.go:485`): a Close between JOIN's count of
    rooms and its entry finds nothing to leave; the closed session becomes a member
    and stays one, an unregistered room stays in the table, and a registered one is
    never pruned.
  * `OccupiedRoomsPersist` (`hub/hub.go:493`): a Close still holding the old object
    of a name removes the new room, with its members in it.
  * `BannedAreDisconnected` (`service/service.go:417`): a banned identity that
    identifies after its session exists stays until its next frame.
* `Mentions`
  * `DropsOnlyWhatWasSent` (`hub/notifier.go:292`): a person evicted and filed again
    during an upload is numbered from 1 again, and a mention never sent is dropped by
    the old `highSeq`.
  * `ConnectedAreTold` (`hub/notifier.go:234`), quiet but connected;
    `HandedOverIsSeen` (`hub/mentions.go:344`), emptied first; `SeenAtMostTwice`
    (`hub/notifier.go:256`).
* `Registry`
  * `OnlyTheUnusedArePruned` (`hub/hub.go:499`): a room's use marks nothing, so after
    a restart a room in daily use may be pruned.
  * `StopSavesEverything` (`hub/hub.go:554`): Stop finds the flag clear while the
    reaper is still writing, and the process ends.
  * `AllDefaultRoomsStand`: a default room that somebody founded before it was
    configured is gone once its founder has given it up, until the next start.
  * A room that /reload took from a file about to be replaced lives on unmarked
    (`revived`).
* `Directory`: `FileAgrees` (`hub/hub.go:198`).  Two flushes overlap, the older copy
  is renamed last and the flag is clear.
* `Routes`: `AnnouncesAreKept` (`service/lxmfnotify.go:207`).  `Recall` and `Restore`
  lock separately, and an announce in between is lost to a stub.

`Links` also shows entries that are never dropped: a session that `NewSession`
refused stays in `Service.sessions`, and the identity of a link that ends before
its first frame in `Service.identities`; a sweep in the middle of a second HELLO
closes a session that is welcomed; a PONG dropped by the limiter closes a peer
that answered.  Its properties name these as exceptions.

## 13. Proofs

Everything below holds for all values of the constants, under the named
assumptions of the module (`ConstantsAssumption`, `MentionsAssumption` and so
on; `NilAssumption` says that Nil is none of the values it stands in for).

**`Membership_proofs`.**  `TypeCorrect` first.  Neither bans nor copies are
inductive alone.
* `IdentityInv`: an identity is known from the moment a session can enter a
  room until its link is gone, a JOIN carries that identity or nil (only once
  the link is gone), and it was not banned when the frame was let through.  It
  is why the stale reads in JOIN do no harm, and gives `BansHold` and
  `BannedStayOut`.
* `CopiesInv`: what may differ while `disp` is inside a handler (`Leaving`,
  `Unjoined`), that a name in the table leads to an object of that name, and
  that a live room has members or is registered.  It gives `CopiesAgree` and
  `LiveRoomsKept`.
* `CountInv`: a JOIN counts a session's rooms in one section and records the new
  one in another.  Between them the count it saw still stands, because nobody but
  the dispatcher adds to `joined` and it is in this very JOIN; a Close meanwhile
  only takes rooms away.  It gives `RoomsPerSessionBounded`.
* `PeopleSeePresence` is the refinement of `Presence`, one lemma per kind of step
  that people see (`ConnectSeen`, `JoinSeen`, `PartSeen`, `ExpelSeen` and so on)
  and `NothingSeen` for the rest.  It needs all of the above: a JOIN enters
  within the limit by `CountInv`, and the steps that remove a session from its
  rooms act on what its `joined` says, which `CopiesInv` compares with the rooms.

**`Mentions_proofs`.**
* `Tails`: the queue is a gapless tail of `1 .. nextSeq`; appending and cutting
  to the last `QueueLimit` preserves it (`OneMoreIsATail`, `LastIsRecent`,
  `CutKeepsTail`).  It gives `TypeCorrect`, `TailHolds` and `OptedOut`.
* `PushInv`: for whoever is in `batch` or `proven`, everything still held at or
  below `highSeq` is in `sent`.  Numbers must not restart meanwhile, so those who
  were evicted during the push (`restarted`) are outside it, as they are outside
  `DropsExactlyWhatWasSent`.  It gives `DropsExact` for any directory limit.
* `LedgerKept`: `DebtInv` (what a proven notification said has been told, but for
  `restarted`) and the step-by-step mapping to `Ledger`, for any limits.

**`RoomAcl_proofs`.**
* `Sound` and `RoomInv`: lists within the cap, and the founder among the
  operators.  `/register` adds the founder without asking for a place; it needs
  none because the founder of an unregistered room is already there, and that
  is what no command can undo.  It gives `TypeCorrect` and `FounderKept`.
* `InvitesInv`: whoever is invited has an invitation that is in time, was not
  taken back and not used.  It gives `EntersOnlyByRight`.
* `ChangesMarked` follows action by action.
* `NoBackDoorOpens`: the two copies of the gates, one for text and one for a
  transfer when it arrives, let the same people post.

**`Registry_proofs`.**  `ProcessInv` (nobody is in a room and nothing is being
saved while the process is down, and Stop saves only once the hub is closed)
and `FileInv`: while the registry is unmarked the file is right, or the copy
that the reaper is writing is.  Without its second half a save would not be an
induction step.  They give `TypeCorrect` and `FileAgrees`.  `DefaultsStand` needs
two facts more: whatever file is there, `ensureDefaultRooms` leaves a registered
room for every default name (`LoadedIsRegistered`), and from there only the founder's
`/unregister` unmakes one (`StillRegistered`).

**`Links_proofs`.**  `LinksInv` has ten parts, each kept by a lemma of its own.
The important ones: `ClosingFits` (one goroutine closes a session, though five
may want to), `AllFiled` (what is not closed for good is in the table or about
to be) and `FilingIsPrivate` (nobody but the dispatcher can find a session
before it is filed).  They give `TypeCorrect`, `TableFollows`, `AwaitedAsked`
and `SweptUnwelcomed`.  A ping round lists the sessions in one section and reads
what each awaits in later ones; only a session that was filed can be listed.

**`Routes_proofs`.**  `SpacingInv`: a push that used a node holds the throttle,
because by then the attempt has an upload or a failure that is no reason to
wait, or it is an interval old.  `StampInv`: whoever knows the policy took it
from an announce the cache still has, unless a stub was written over it.  They
give `Spaced` and `Stamped`.  `OverInv` is behind the bound on the node table in
`TypeCorrect`: only an announce evicts, and a node evicted while an attempt has it
in hand is filed again by the upload.  `Slots` are all the uploads there can be, a
fanout for each goroutine, and `Debts` those among them that may still be made;
both are finite sets, so that no sum over goroutines is needed.  What the table is
over by and the debts are together at most the slots (`OverAndDebts`), because an
upload that files a node has left the debts (`DebtsShrink`).  The bound holds for
any finite number of attempts for other people, and is one if the operator pinned a
node.

**`Directory_proofs`.**
* `NamesInv`: two people's sessions, or a session and somebody else's row, or two
  rows never share a name.  Those who were not asked are the difficulty: the
  session of a HELLO under way may be closed between the grant of its name and
  the filing of its owner, and still bring the name into the directory.  So it
  counts as a bearer (`Bears`), and `GrantKeepsNames`, `FileKeepsNames` show that
  neither half of a HELLO can clash.  It gives `NamesStayUnique`.  Beyond the last
  suffix the code grants a name it does not look up; `FallbackAssumption` is what
  the comments of `nicks.go` take for granted of it.
* `FileInv`: while the flag is clear, the newest copy is on its way, or it has
  landed and whatever is on its way is older.  It gives `FileAgreesWhenClear`.
* `OwedGoLast` follows action by action, `Remember` being the only one that evicts.

**`Transcript_proofs`.**  `IInv` is `Types`, `FiledByDay` (a record lies in the
file of its day, none of a day to come) and `SoundInv`: in each room the records
ascend by day and within a file, and their ids are the end of what was said.
* Each way to change a room's files has a lemma: `AppendIsSound` for a record,
  `TornIsSound` for half of one, `WithoutIsSound` for whatever takes the oldest
  days (expiry, the cap of a room, the cap of all), `CutIsSound` for a power cut,
  which shortens the newest file and the conversation together.  Of a prune only
  two facts are needed: what it takes is older than what stays, and what it
  leaves fits (`CapRoomIs`, `CapTotalIs`, `PruneLeaves`, `PruneFits`).
* `NothingInherited` is read off `IInv`.  `PruneIsBounded` and `WindowIsKept` need
  that no other step makes a file disappear that had a record
  (`OnlyPruneExpires`), and that bytes are sums: `IsSum` says what the fold of
  the community modules computes, `SumsCompare` that fewer files weigh less.
* `NoGaps`: in files without half a record, what `Recent` reads is the records in
  the order of their ids (`AllReadableIs`), an upper part of an ascending
  sequence is its end (`UpperPartIsEnd`), so what is held is the end of what was
  said (`HeldIsEnd`), and the window, the count and the bytes cut off an end of
  that (`ReplayIsEnd`).
* `NewestShown`: the record that was just made is the last one held, it is inside
  any window, and the first to be counted is shown whatever its size (`Fresh`).

**How recursion is proved about.**  No module has a RECURSIVE operator: sums and
concatenations are the folds of the community modules, functions that CHOOSE
defines by an equation.  The library's induction theorems take a predicate, which
the installed provers cannot instantiate.  `SetInduction` takes a set of numbers
instead and rests on Nat being well-founded; with it `SumExists` and `FlatIs` show
that the function exists, and the proofs use nothing but its equation.

**Only model-checked.**  The liveness properties: `HeldReachesAbsent`,
`ChangesReachDisk` and `SlotsAreFreed` need fairness and ENABLED, which are beyond
the prover.  Every safety property of a passing run, and both refinements, are
theorems, for all constants that satisfy the modules' assumptions.

## 14. Not modelled

* Statistics, wire format, configuration, LXMF address parsing, help texts and
  the command line: no shared state, or formatting only.
* The token bucket: floating-point arithmetic of one session.
* The list of resource expectations: its gates are in `RoomAcl`, its matching by
  size and its expiry are not.
* The order of JOINED and PARTED on the links: frames are left out of
  `Membership`.
* Announce loops, connecting to the transport, Shutdown; the automatic answer to
  inbound mail, `/notify diagnose`: sequences of library calls.
* The transport library is external: what it does is read off how the code uses
  it (reports of links, the announce cache, outcomes of a send).

What can go wrong here and no property covers, besides what section 12 names and
the hazards of `PROJECT.json` that carry a note:
* JOINED and PARTED are sent after the mutex is released, so two changes of one
  room can be announced in the other order (`session.go:490`).
* `Recent` takes a file's records to ascend by date; a clock that is set back
  makes it stop at the first old one (`history.go:187`).
* Past the last suffix a name with a piece of the identity is granted without
  being looked up (`nicks.go:72`).
* The rate limit comes before the PONG is decoded (`session.go:153`).
* An expectation's expiry is looked at by the reaper only, and it is matched by
  size (`resource.go:106`).
* A `rooms.toml` that cannot be read leaves the registry empty, and the next flush
  writes over it (`hub.go:324`).
