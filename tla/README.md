# NPLN in TLA+

NPLN is OpenPak's server for the online services of Nintendo Switch titles: gRPC over
TLS, one process and one container for each title. This directory holds TLA+ models of
its stateful parts, TLC configurations that check them on small instances, and proofs of
their invariants for every instance. All paths below are relative to the repository; `SV/`
stands for `titles/stardew-valley/npln/`, the title whose text the other titles share, and
`S3/` for `titles/splatoon-3/npln/`.

1. [The system](#1-the-system)
2. [The modules and the code](#2-the-modules-and-the-code)
3. [The runs](#3-the-runs)
4. [The proofs](#4-the-proofs)
5. [What the code does not do](#5-what-the-code-does-not-do)
6. [What is left out](#6-what-is-left-out)
7. [Plan](#7-plan)

To repeat a run: `tlc -workers 2 -config Presence.cfg MCPresence.tla`; to repeat a proof:
`tlapm PresenceProofs.tla`.

## 1. The system

A console signs in (auth), keeps its presence on one stream, searches for rooms or asks the
matchmaker for one, takes a seat, turns the token of the seat into a gamesync session, and
then exchanges documents with the other consoles of the room over the gamesync stream
while the game itself runs peer to peer. Everything lives in the memory of one process,
in Go maps under a mutex for each service; few things are stored.

| Part | Source | State | Operations | Hard because |
|---|---|---|---|---|
| Game sessions | `SV/sessions.go`, `appversion.go` | rooms, member lists, creators' versions and routing, creation tickets | create (evicts the host's old farm), cancel, query, join, sync by the host, drop, erase | six maps have to stay in step; "the host" is the first of a list; the version of a player changes between steps |
| Matchmaker | `SV/matchmaker.go` | tickets, pools (in the maps above) | create, cancel, track ticket; place | tracking lets the mutex go twice; the friend pool's rule is checked at another time than it is used |
| Gamesync sessions | `SV/gamesync.go` | user session -> session and rank; streams | IssueToken, KeepUserSession, its deferred end | two mutexes one after the other; streams end late and out of order |
| Gamesync documents | `SV/gamesync.go` | member and room documents, targets, what each stream was sent last | apply, deliver, push, list, poll | one goroutine for each change; compare and send are different sections |
| Referee | `SV/referee.go` | verdict documents | kickoff, verdict, publish | consoles of one battle ask at different times for one document |
| Messaging | `SV/messaging.go`, `internal/blob/blob.go` | a mailbox for each player, a counter, a copy of each in Postgres | send, ack, receive (stream with resume tokens), expire, trim | writes go through in several statements; the process may die between them |
| Presence | `SV/presence.go`, `S3/presence.go` | players online with their attributes | KeepAlive, publish, subscribe, poll | streams of a player overlap; friend lists and lookups change and fail |
| Erasure | `erase.go`, `SV/erase.go`, `S3/erase.go` | none | one call that removes players everywhere | one lock after another while the players are active |
| Rewards | `SV/rewards.go`, `internal/counted/counted.go` | who shared a room since when, what was counted, file or Postgres | tick, event, mark, load, forget | event and mark are two steps; identities come late; the file is replaced by an erasure |
| Hydro | `SV/hydro.go`, `internal/blob/blob.go` | contents, revisions, trackers, rows | create, read, transform, delete, expire, track | revisions are in memory and read back from what is left |
| UGC store | `SV/ugcstore.go`, `ugcquery.go`, `S3/ugcstore.go` | documents, owners, short codes, one stored blob | commit of several operations, query, short code | operations of a commit see each other; limits on the outcome |
| Cloud save | `S3/cloudsave.go`, `internal/blob/blob.go` | save records in Postgres or files | create, write, rename, delete, import | two places a record may be in; an eraser without the mutex |
| Bans | `bans/bans.go` | cached answers, remembered pids, open streams | check, sweep, remember | two caches and a sweep in a row; slow answers; restarts forget |
| Routing, federation | `internal/routing/`, `SV/federation.go` | a table that is refreshed, accounts cached, the host's copy in a room | resolve, refresh, log in | a graph of fallbacks; late and failing answers |
| Lobby | `S3/lobby.go` | listeners with bounded queues, one cursor | listen, send, deliver | the cursor is taken before the lock |
| Fests | `S3/festfile.go`, `fest.go` | an operator's file, team choices, one stored map | refresh, enter, read | read once, written whole, writes that fail |
| Schedule | `S3/schedule.go`, `titles/splatoon-3/rotation/`, `title.go` there | a rotation file and what is served of it | look every hour, renew, answer | it must cover the present after stops, edits and failed writes |
| The rest | `SV/identity.go`, `auth.go`, `friends.go`, `connectivity.go`, `server.go`, `S3/npln.go`, ... | little or none | tokens, canned answers, start-up | - |

How they meet. The matchmaker's pools are rooms in the maps of the game sessions, under
the same mutex. Every seat comes with a matchmaking id token; gamesync's IssueToken turns
it into a session. The end of a gamesync stream calls `dropMember` of the game sessions
(a callback, under their mutex and not gamesync's). Rewards reads the member lists.
Messaging asks the game sessions who shares a room. Erasure calls each service in turn, without a
lock over all of them. The referee writes its verdict from inside a write of gamesync. Rooms take
their TURN server from the routing table by what their host was at login.
The ban gate stands before every RPC and ends streams, which to the services is a stream
that broke. Friend lists, account data and bans come from other services over HTTP.

What makes each modelled part correct:

* game sessions: the maps agree, a host is the first of its list, a host has one farm,
  nobody is seated twice, above the capacity, or with a version that does not fit;
* matchmaker: a ticket tracked again, or twice at once, gives no second seat; the search
  lists only what can be joined; pools without players go;
* gamesync sessions: ranks are distinct and follow the arrival, a player has one session,
  a host that leaves takes its farm along, a seat does not outlive its session;
* documents: every change is told, the traffic comes to rest, nobody sees placeholder ids,
  views converge;
* messaging: the store agrees with the queues, what needs an ack stays until it is acked,
  an ack ends its message, no wake-up is lost, numbers are not reused;
* presence: who is online is held by a stream, what was published stays, subscribers learn
  the truth;
* bans: a ban bites within a bound, and only a ban refuses;
* referee: a console that asks is told that the battle starts, one that reports that it is decided,
  unless one send overtakes another;
* rewards: one event for each player and session, for those who stayed the minimum, and surely
  for those who stay on;
* hydro: an etag lets through only who read the content it guards;
* documents of users: the promise of `OwnedDocuments`;
* cloud save, fests: what was answered OK is kept, a player is told of one team;
* erasure: what was erased is not served;
* lobby: one order for all, nothing queued is left unsent;
* schedule: every answer covers the present;
* routing: a room's TURN is at the nearest region with a node for its host, and test nodes only
  serve testers.

Section 5 says which of these the code does not have. The things in this code a test hardly reaches
are listed, each at its line, under `hazards` in `PROJECT.json`, with the properties that cover them
or the reason why none does yet.

## 2. The modules and the code

| Module | Models | Composition |
|---|---|---|
| `GameSessions` | `sessions.go`, `appversion.go`, `matchmaker.go`, their part of `erase.go` | the rooms `Gamesync` works on |
| `Gamesync` | IssueToken, KeepUserSession and its end | extends `GameSessions` |
| `MCGhostSeat` | `Gamesync` with a history | for one question |
| `DocSync` | documents, targets, deliver, push and poll | alone: sessions reduced to "present" |
| `Messaging` | `messaging.go` over `internal/blob` | alone: `sharesSession` and friendship are a constant |
| `Presence` | `presence.go` of both titles | alone |
| `BanGate` | `bans/bans.go` | alone: an RPC is a place in the gate |
| `Referee` | `referee.go` and the way of a verdict through `gamesync.go` to one console | in `MCSplatoon` |
| `CloudSave`, `FestEntries`, `UserDocuments` | the three stores of Splatoon 3 | instances of `SplatStores` |
| `SplatStores` | the eraser of Splatoon 3 over them, and the restart they share | composes the three |
| `Lobby` | `S3/lobby.go` | in `MCSplatoon` |
| `Rotation` | the rotation file, its keeper and the Schedule service | in `MCSplatoon` |
| `OwnedDocuments` | the promise of the document store | abstract specification of `UGCStore` |
| `UGCStore` | `SV/ugcstore.go`, its part of `SV/erase.go` | implements `OwnedDocuments` (`CommitsImplemented`) |
| `Hydro` | `SV/hydro.go` over `internal/blob` | in `MCServices` |
| `Rewards` | `SV/rewards.go`, `internal/counted` | in `MCServices`; member lists as `GameSessions` has them |
| `Routing` | the resolver of `internal/routing`, and what a placement must be | pure operators |
| `Federation` | the client of the table, logins, the host's copy | extends `Routing` |
| `GameSessionsProofs`, `GamesyncProofs`, `PresenceProofs`, `BanGateProofs`, `DocSyncProofs`, `MessagingProofs` | - | theorems about the module of that name |
| `SplatoonProofs`, `ServicesProofs` | - | theorems about the parts of `MCSplatoon` and `MCServices`, each for its own specification |
| `MC*` | constants of the instances | `MCSplatoon`, `MCServices` put parts side by side |

The map from each definition to the lines it stands for is under `map` in `PROJECT.json`.
The principles are the same everywhere:

* **A section under a mutex is an action.** An RPC that holds its mutex from the first read
  to the last write is one action. `TrackMatchmakingTicket` (four sections: `TrackRead`,
  `TrackVersion`, `TrackPlaced` or `TrackPlace`, `TrackRecord`), the end of a stream (`StreamEnds`,
  `StreamLeaves`), a document's journey (`FindSession`, `Apply`, `PushCompares`,
  `PushSends`; `ReadSession`, `ReadStore`, `ReadPush`), a presence pass (`LookUp`, `Read` for
  each friend, `Push`) and a ban check (`Check`, `Answer`, `Finish`) are split where the code
  lets go.
* **Go maps** with the zero value for an absent key are total functions where the code never
  tells the two apart, and functions with a domain where it does (`Presence`).
* **Lists** of members are sets of seats with a position; the first is the least position.
  Mailboxes are sets ordered by their numbers.
* **Ids** (uuid4 in the code) are counters and never used again.
* **Map order** (Go's is random) is a choice: `place` takes any pool that fits.
* Requests that change nothing (get, list, batch, track of a creation ticket, heartbeats) are
  no actions; what a query lists is an operator (`Listed`), since a property is about it.

### GameSessions

`sessions`, `members`, `pools`, `versions` and `hosts` are the maps of `sessionServer`;
`tickets` are the creation tickets, `mm` the matchmaking tickets, `call` the
`TrackMatchmakingTicket` calls in progress, `appVersion` the map of `appversion.go`.
Choices that need a word:

* `place` reads the caller's version before it takes the mutex (`TrackVersion`, kept in the call
  as `mine`), and `newPool` reads it again under it: a sign-in may come in between.
* `eraseUsers` takes one lock after the other; within one module its sections touch
  different variables, and are one action.
* Properties a host pushes could name a `FriendGameSessionId`; only pushes that have none
  are modelled (`clear`). A pure keep-alive sync changes nothing.
* A creation ticket is named by the session it made.

### Gamesync

`sess` is `sessions` of `gamesyncServer` (a user session name to player, farm and rank);
`stream` the KeepUserSession calls, of which `leaving` are those whose deferred function is
between the two mutexes. `tokens` remembers the id tokens: a console may present any it was
ever given. `DropMember` of `GameSessions`, which there may drop anybody at any time, here
happens at the end of a stream only, so what is proved of rooms alone carries over.

### DocSync

`store` holds what a member document was last written with, told apart by the number of the
write; a content is that number and whose ids overlay it. `pushes` are goroutines `deliver`
started, `out` pushes that compared under `lastMu` and wait for `sendMu`; `reader` is the
listing of a new target and then the stream's poll; `last` and `view` are what was compared
and what the console was told. The three reads of `collectionDocs` are merged into one, a
stream has one target, and a stream's farm does not change. `w.targets` is written without a
lock while `deliver` reads it: a data race whose outcomes in practice are that a delivery
is missed, which the poll then makes up.

### Messaging

A handler changes memory at once and leaves its database statements in `writes`; `SendMessage`
leaves the receivers it has yet to serve in `todo`, and `Enqueue` serves one after the other, each
with its writes. The mutex is free again when both are empty (`Free`), and `Restart` may come
between any two. The id of a message is the console's (`Ids`), and a receiver may be on a list
twice, so two copies of one message may be queued; `SendAck` drops the oldest that fits. `Load` is
the start. Several acks in one request are several `SendAck`. A stream that takes items
(`Poll`) drops those that need no ack before it sends them, as the code does.

### Presence

`live` is the table, `beat` where each KeepAlive handler is: the console is gone from
`Break` on, the handler returns later, and what the console had sent before may still be
read in between. `sub` is one subscription: subscriptions share nothing. `known` is what
its console was told. A friend without a stream (`u2` of the instance) stands for the
others: rows of the table are independent.

### BanGate

One account. Time is discrete: all that happens between two `Tick`s happens within one
unit, in any order, and a lease may or may not have run out in the unit it ends in. So the
model allows each lease up to one unit more than the code does; it excludes nothing the
code can do. `baas`, `Answer` and `Fail` are external: nx-baas caches "active" as the gate
does, and can be slow or down. `since` counts from the last ban, unban *or request that
failed*: a failed request keeps the player, which the code says and wants, and no bound
holds while nx-baas is out of reach.

### Referee

One battle, so one verdict document. The consoles are those of the comment on top of
`referee.go`: each writes a request, a profile once it saw the request accepted, a report at the
end, and ignores a status that is not the next. One of them, `Me`, has its stream modelled:
`pushes` are deliver's goroutines, `last` and `out` the two sections of push, `reader` the
listing and the poll, as in `DocSync`. The others are taken to see a verdict at once or
arbitrarily late. Contexts and results are left out, so that two verdicts with one status are
equal and the second is dropped by the comparison, which is the harder case. Assumed of the
environment: `Me` watches before it asks and counts what it was shown since, and nobody reports
before `Me` has started. Sends leave in any order, as in `DocSync`; `overtaken` and `told` are
history.

### CloudSave, FestEntries, UserDocuments, SplatStores

Each store has a mutex of its own and does a call under it; only the cloud save lets anything in
between, since the eraser deletes the row without the mutex: load and store are two steps there. A
record is the set of partial saves merged into it, a fest entry is a team, a document its update
time. `pg` is what `blob.Default` decided at the start of the process. `Failures` names what may
fail: `"put"` and `"delete"` (a statement that fails may have been done, except for the files, which
are renamed into place), `"remove"` (the eraser's `os.Remove`, whose error is dropped), `"get"` (a
read or the import at it), `"open"` (the database at the start). `SplatStores` adds the eraser step
by step, with its early returns and its second run, and a restart of all three. `acked`, `answered`,
`quiet`, `gone` and `left` (the save whose file could not be removed) are history.

### Lobby

Taking the cursor and queueing under the lock are two steps (`Build`, `Deliver`), so are queueing
and sending; a keep-alive takes a cursor and sends it at once. `MaxSeq` stops new cursors but
never the keep-alive that opens a stream.

### Rotation

A file is its windows; `seed` stands for stages and rules, so that two files of the same windows
differ. A unit is an hour. The keeper looks once in each (`Check`), at any moment of it, and a
stopped process may stay so for long. `refused` is history. The answers of the service are operators
(`SelectVs`, ...), for a console that asks with the present time.

### OwnedDocuments, UGCStore

`UGCStore` folds the operations of a commit over the staged documents, each seeing those before it,
and counts the owner's documents on the outcome. Contents, times, field masks and sizes are left
out: an operation refused for one of them has the precondition `"never"`. The whole store is written
after each change, to the row in Postgres or to the file; a write that fails leaves `stored` behind.
A start may find the database out of reach, and then serves the file, or fail to read what it finds,
and then serves nothing until its next write replaces what was there. The refinement maps `docs` to
`owner` and drops the codes; the promise is no more than that a start serves something that was
stored, or nothing. `UserDocuments` is Splatoon 3's simpler store: owner by path, and another order
of checks.

### Hydro

A content carries its etag and, as history, the number of the change that made it, so that "the
content that was read" can be said. Names are uuids and used once. An expiry is seen when a content
is looked up. A batch or a bulk call is several requests, since nothing of an earlier element is
taken back. A start has only the contents it could read; the rows of the others stay, out of reach
of an erasure, and are back with a start that reads them.

### Rewards

Time is counted in looks of the loop: `since` is how many looks ago a pair was first seen.
`Report`, `Mark` and the eraser's read and replacement of the file (`Erase`, `Forget`) are steps of
their own. Sessions end with the process.

### Routing, Federation

`Chain` is the code's loop, one turn for each element of a queue that grows while it is walked:
`after[i]` is what there is after i turns, and `Turns` is as many as there can be. Regions named by
a route or a fallback are taken to be in the table, as they are in the built-in one. `Nearest` says
what the answer must be by distances (`Within`), without a walk. `Federation` has the three places a
fetch of the table may run in, the answer apart from the moment it is stored, the lookup of each
login, the caches, and `host`, the copy a room keeps. `TurnOf` is what a member of the room is given
now. A country that only the core knows, and two lookups of one player at a time, are left out.

## 3. The runs

| Run | Instance | Distinct states | What it shows |
|---|---|---|---|
| `game_sessions` | 2 players, 2 sessions, 3 seats, a public and a friend config for 2, rooms for 1 or 2, 1 ticket, 2 calls, 3 versions, u1 signs in with two, u2 erasable | 1,421,306 | the maps agree, `OneSeatEach`, `HostLeads`, `OneFarmPerHost`, `PoolClosesEmpty`, `ListedIsJoinable`; no step seats anybody above the capacity or, by the version its call read, with a foreign version; two calls that track one ticket give one seat |
| `gamesync` | 2 players, 2 farms, 3 seats, 2 streams, ranks to 3 | 216,171 | ranks distinct and by arrival, one session for a player, a host takes its farm along |
| `ghost_seat` | the same with a history | *violated* | a seat outlives its session |
| `doc_sync` | 1 member that comes and goes, 1 watcher, 3 changes | 126,418 | every change is told, no placeholder ids, traffic rests |
| `stale_document` | the same, 2 changes | *violated* | a view stays behind for good |
| `messaging` | 2 players, 2 streams, a queue of 1, 1 message to two or twice to one, 1 id, 1 expiry, restarts anywhere | 468,890 | store and queues agree, nothing owed is lost, an ack ends its message, no lost wake-up |
| `presence` | 2 streams of one player and a friend that stays away, 3 updates, 2 list changes, an erasure | 376,636 | who is online is held, what was published stays, views catch up |
| `ban_gate` | 2 streams and a call of one account, one stream without a pid, 2 bans or unbans, 5 s units | 2,646,595 | a ban bites within 100 s; only a ban refuses |
| `splatoon` | a behaviour is the saves, the fests, the documents, the lobby, the referee or the rotation. 2 players, one erased twice, 2 partial saves, 2 teams, 3 paths, 2 writes, a store of 1 document, writes and deletions that fail, files that cannot be removed, restarts at any time; 2 streams, 2 senders, queues of 2; 2 consoles; 4 files made by hand, 2 edits, 14 hours with periods of 2, 4 and 32 hours, files of 8 hours renewed 4 hours before | 265,611 | `ProgressKept`, `FirstChoiceWins`, `ErasedNotServed`, `SameOrder`, `LoginReturns`, `BattleStarts`, `ServesPresent` |
| `lobby_cursors` | the same | *violated* | a stream sends an older cursor after a newer |
| `erased_returns` | the same | *violated* | a restart brings erased data back |
| `services` | a behaviour is the documents, hydro, rewards or federation. 2 players, 2 paths, 2 operations a commit, 1 document an owner, 2 failures of writes, reads or openings; 2 names, 2 changes, contents that are not read at a start, a tracker with a channel of 1; 1 session, a minimum of 2 looks, 1 restart; 5 regions with a cycle and a region with two parents, 3 nodes, 1 for tests, 2 countries, 1 change of the core | 204,627 | `CommitsImplemented`, `EtagGuards`, `ReportedOnce`, `ReportEarned`, `SharedReported`, `PlacedNearest`, `TestersOnly` |

Why the bounds are enough. The hazards are about two actors: two calls, two streams, two players of
a room, an old session and a new one, two checks. Two players and two sessions give a host and a
guest, a re-host, and a pool beside its base room. Three seats give a rejoin after a leave. One
member and one watcher suffice for documents because a document's state is never compared with
another's; three changes give an update, a delete and a write that comes too late. One place in the
queue makes trimming happen with a second message, the ack. With that place, two copies of one
message are queued only after a death between the put of the second and the deletion of the first it
trims: this is how the run comes to them. `Opens` says which streams a player opens: `s2` is for
both, `s1` for u2 alone, so that two streams of one player are those of u2; the streams are alike,
and the proofs allow all of `Opens`, `Ids`, `Receivers` and bounds. `MaxTurns` 2 gives a ban after
an unban and the other way about; the durations of `BanGate` are those of the code in units of five
seconds (30 s, 30 s, 5 s), and 19 in place of 20 units is violated, so the 100 s are exact in the
model.

For the stores of Splatoon 3, one erased player and one other show that the other keeps what it has;
two partial saves are one that is there and one that comes; two runs of the eraser are a failed one
and its repetition; a file may be there from before at the start. The parts of `MCSplatoon` share
nothing but the eraser and the restart, which touch every store, so a behaviour with calls to one
store at a time loses nothing that a property of that store could see. For commits, two operations
on two paths (one that names a player, one that does not) give an operation that sees the one before
it; one document an owner meets the limit; two failures are a write that is lost and a start that
cannot read, or two starts of which one has no database. One name of hydro that is changed twice, or
two names, give an etag before and after a restart. The regions of the `services` instance have a
chain that meets itself again and one that reaches home past a region with two parents. The hours of
`Rotation` are scaled down, with what `RotationAssumption` asks of them: a file is a whole number of
versus periods, covers one of them and the time of its renewal, and reaches no further than half a
season; the keeper's minimum is two hours or more, since it looks every hour. The constants of the
code keep to it (versus periods of 2 hours, files of 720 renewed 168 before their end, a minimum of
2: `generate.go:23-33`, `rotation.go:29`); 14 hours see two renewals. Bounds named `Max...` only
stop counters; they are in the guards, and `CHECK_DEADLOCK FALSE` stands only where a bound can stop
everything (ids, seats and messages used up). `DocSync`, `Presence` and `BanGate` have deadlock
checked. `MCSymmetry` permutes the calls of `game_sessions`, which has no liveness property.

Failures that are not in the runs, because a property fails under them: `ProgressKept` when a
process starts without the database it had (`"open"`: it serves the old files), or when
CreateSaveRecord cannot read (`"get"`: it takes that for "no record" and stores a new one,
`S3/cloudsave.go:273`); `FirstChoiceWins` when the entries cannot be read at their first use
(`"get"`: nobody has entered, and the next choice overwrites the map, `S3/festfile.go:166-180`);
`EtagGuards` when a write of a content fails before a restart (`"put"`, `SV/hydro.go:105`: its
number is given again; this takes `MaxVersion = 3`, with which all properties of `services` hold
without it, in 1,341,943 states). To see them, add the name to `Failures` in `Splatoon.cfg` or
`Services.cfg`.

Fairness and why the code justifies it:

* `Gamesync`: weak on `StreamLeaves`: a deferred function runs.
* `DocSync`, `Referee`: weak on the poll, on comparing and on sending (in `Referee`, of whichever
  push gets the mutex): tickers fire, goroutines run and Go's mutexes do not starve. None on
  consoles, but for the profile that `Me` writes when it may.
* `Messaging`: weak on `Enqueue`, `Persist`, `Send`, `Wake`; strong on `Poll`, which needs the mutex
  that others take in between (`sync.Mutex` hands over to a waiter that has waited too long). None
  on `Beat`: the property is that nothing waits for the keep-alive.
* `Presence`: weak on the pass; strong on `LookUp`: a lookup that is tried again for ever succeeds
  in the end. That is an assumption about the account service.
* `Lobby`: weak on the sends of an open stream: its goroutine runs.
* `Rewards`: weak on the look and on working through what it found. None on the adapter that tells
  identities: the property asks for a player who is known from some time on.
* The others claim safety only.

Every property of a passing run has a mutant: a definition changed as a plausible bug would change
it, for which TLC finds the property violated (`mutants` in `PROJECT.json`; the changed definitions
stand before the true ones, marked "mutant").

Where a property excepts something, the code does not promise it: `HostLeads`, `OneFarmPerHost` and
`PoolClosesEmpty` except erased players (erasing a host leaves its room to whoever is next in the
list, and an empty pool open); `SeatedWithOwnVersion` and `MatchedOnce` a player that signs in with
another version while its call waits for the mutex (they go by the version the call read);
`NoPlaceholder` players whose stream ended (a write that had found its session is stored and
delivered afterwards); `WakesDeliver` a stream whose mailbox was erased; `BanBites` streams opened
when the player's pid was not known, which are never checked (`bans.go:150`, after a restart);
`BattleStarts` a console to which one send overtook another, which is told of the outcome even so;
`AckEndsMessage` other copies of a message with the same id; `CommitsImplemented` starts, after
which documents may be forgotten and their paths taken by others; `ErasedNotServed` a save whose
file could not be removed, a player that calls again itself (or whose call is in between the
eraser's steps: `quiet`), and what comes after a restart; `ServesPresent` files made by hand that
are refused, have gaps, or have kinds that end before the versus windows.

The type invariants are theorems (`TypeCorrect` of each proof module; for the parts of `MCServices`
and the rotation, within their inductive invariants) and not run again. Not proved are that of
`Referee` and the bound on the lobby's queues. They hold in the instances above; add `TypeOK`
(`TypesOK` in `MCSplatoon`, where it also bounds the lobby's queues, and in `MCServices`) to the
`INVARIANTS` of a cfg to check one.

## 4. The proofs

Proved by TLAPS for all values of the constants. Every safety invariant, every action property and
the refinement that the runs check are theorems; liveness is not. Each proof starts from the named
assumption of its module (`GameSessionsAssumption`, `GamesyncAssumption`, `PresenceAssumption`,
`GateAssumption`, `DocSyncAssumption`, `MessagingAssumption`, `SplatStoresAssumption`,
`LobbyAssumption`, `RotationAssumption`, `HydroAssumption`, `RewardsAssumption`,
`UGCStoreAssumption`, `RoutingAssumption`, `FederationAssumption`), which TLC evaluates for the
instances. Three of the properties are proved under a premise on what may fail besides, which their
theorems name. Bounds are constants too, so nothing depends on them. The modules are laid out alike:
the inductive invariant with a word on each part, one lemma for each action, the theorem that puts
them together, and what follows.

**GameSessionsProofs.** The inductive invariant is `IInv`: the six state properties, and what they
need beyond themselves. `OneSeatEach` and `HostLeads` need positions below the next one to be given
(`Stamped`), or an appended player could come before the host. `MapsAgree` needs that no room has an
id not minted yet, and that no creation ticket names a pool, since cancelling does not clear `pools`
(`Minting`). Types of a call in progress need its ticket to be one that was made (`CallsPoint`).
`AddMemberSeats` says once what `addMember` preserves. Results: `Invariance`, `TypeCorrect`,
`MapsStayInStep`, `NobodyCountedTwice`, `HostStaysFirst`, `OneFarmEach`, `EmptyPoolsClose`. Three
action properties follow from a description of what a step does to one list (`ListStep`: it only
loses seats, or it takes in one player under the rules of `Enters`): `CapacityKept`,
`VersionsKeptApart`, and `RepeatedTicketKeepsSeat`, for which a player with a seat in a pool of the
key must be found there by every placement. The last two go by the version the call read, which is
the player's own or one it has changed since. A capacity is compared with the length of a list, so
these and `SearchAgreesWithJoin` need that lists are finite (`FiniteMembers`).

**GamesyncProofs.** `SyncInv` is `IInv`, the types, `RanksDistinct`, `OneSessionPerPlayer` and
`OneToken`: one token for each user session, present for every seat and every live session. It is
needed because IssueToken keeps the rank of a session that is there: were that session of another
farm than the token, the rank could be taken. `OneToken` in turn rests on `SeatsOfStep`: a step of
the rooms takes at most one new seat, under a fresh name. Results: `SyncTypeCorrect`,
`RanksStayDistinct`, `OneSessionEach`, and `RanksFollowArrival` (an action property). `SyncInv`
contains `IInv`, so what is proved of rooms alone holds under gamesync.

**PresenceProofs.** `IInv` is `TypeOK`, `OnlineIsHeld` and `Undisturbed`: a stream in `told` is the
only running one of its player and the table has what it published. That the stream is alone is what
makes it inductive, since the return of another handler of the player would delete the entry. The
table's actions keep their half, the subscription's the other. Results: `TypeCorrect`,
`OnlineMeansHeld`, `PublishedStays`.

**BanGateProofs.** The bound of a ban is a sum, and the invariant has one budget for each term of
it: how long after the ban nx-baas still has "active" (`BaasRunsOut`), an answer with it is on its
way (`AnswersOnTheWay`), the gate trusts it (`ActiveRunsOut`), a call let in by it is open
(`CallsPass`) and a stream waits for its check (`StreamsAreChecked`). In each, the age of the ban
and what is left of the lease are at most the budget so far; a `Tick` adds to the one what it takes
from the other, and a budget hands over to the next where an answer is passed on. Results:
`TypeCorrect`, `BanEnforced`, and `RefusalsJustified`.

**DocSyncProofs.** `NoPlaceholder` is about what was shown, and follows every content back to where
it got its ids: a content on its way, compared or shown has them (`AllNamed`), because a read in
progress speaks for a player with a session (`ReadsSpeakFor`), as does a write (`WritersPresent`),
each unless its player has left. `OwnSend`: the poll waits for its own send. Results: `TypeCorrect`,
`PlaceholdersNeverSeen`, with the exception of departed players that `NoPlaceholder` makes.

**MessagingProofs.** `MailInv` says what the database will hold when the pending writes are done
(`StoreCatchesUp`); that a number belongs to one item, and that an ack has a later one than the
message it ends (`Numbered`); that what is owed is queued (`OwedQueued`); and where the ack of a
message stands with respect to it (`AcksApart`). Nothing is asked of ids and lists of receivers: a
message is known by its number, and each `Enqueue` is a step of its own. `AcksApart` is about order:
both may be among the writes, the deletion of the message always before the put of its ack, so that
no death of the process in between leaves both. Results: `TypeCorrect`, `StoreIsQueue`, `OwedStays`,
`AckIsFinal`.

**SplatoonProofs.** For the three stores, `ProgressIsKept` and `FirstChoiceStays` have the premise
`Readable`: neither the opening of the database nor a read fails (`"open"`, `"get"`); section 3 says
what happens otherwise, and writes and deletions may fail as they like. Between load and store, the
record a handler holds must have all that was acknowledged (`JobKeeps`); what a player was told of
must be the stored entry, and the entry in memory too (`FestInv`). `ErasedIsGone` needs no premise:
`EraseInv` says what is gone after each step of the eraser (`RowGone`, `FileGone`, `FestGone`,
`DocsGone`), an inclusion that every call of others keeps; a file that was not removed is `left`,
and nothing else of the save may be served. `OneOrder` is by `LobbyInv`: a cursor is held by one
call until it is in all the queues at once, so of two that wait in two queues the order is one.
`PresentServed` is by `RotationInv`: what is served was found fit at the last look, at most an hour
ago; that a generated file covers its time (`Gapless`, `Reaches`) is arithmetic on its windows.

**ServicesProofs.** *Hydro*: `EtagsGuard`, by `HydroInv`: a content in memory is the one in its row
(`RowFollows`), no read is newer than the row, and a read of its etag is of its content
(`ReadsFollow`). The premise `HydroPremise` excludes `"put"`, since a row that was not written
breaks the first of these. *Rewards*: `OneEvent` (who has an event is counted, or the session ended,
and is never due again) and `EventsEarned` (`since` is never more than the run of looks that saw the
pair, and what is due had the minimum). *Routing*: `NearestAnswered`. `Walked` is the invariant of
`Chain`'s loop: regions are listed once; the part of the queue that is done has the same regions as
the list; start and fallbacks of the first regions of the list are a beginning of the queue. A list
without repeats is no longer than there are regions, so the queue is never longer than `Turns`
(`DistinctBounded`, `ChainLayers`). Then the regions at most n fallbacks away are a beginning of the
list for every n (`WithinLayers`), and the first usable element of the list is a nearest one
(`PlacedOf`). *Federation*: `TestersAlone`, by `Called`: every flag of a tester, stored, cached, on
its way or copied, is of a player whom the core once called one. *UGC store*: `DocumentsRefined`,
the refinement of `OwnedDocuments`, by `UgcInv`: what is served, and what is written in either place
and a restart may bring back, are within the owners' limits. A commit is a function of the
operations done so far; that it stays among what its caller may stage (`StagedBy`) is proved for one
operation and carried to any number.

That last argument, and those about `Chain`, `Within`, `InOrder` and the generated rotation, are
inductions over numbers without the library's induction theorem: a set of numbers without a least
element is empty (`LeastNumber`, from the well-foundedness of the naturals), hence what holds at 0
and is kept by each step holds up to n (`UpTo`), and a recursive function whose steps are given does
exist (`StepsExist`).

Only model-checked: all liveness (`HostTakesFarm`, `EveryChangeTold`, `Quiets`, `WakesDeliver`,
`ViewsCatchUp`, `LoginReturns`, `BattleStarts`, `SharedReported`), since the prover treats neither
fairness nor ENABLED. What section 5 says the code does not do is, of course, only shown by runs.

## 5. What the code does not do

Four statements of comments and docs that the code does not keep, each with a run that shows it
and an entry under `findings` with the lines:

* `MembershipFollowsSession`: `SV/gamesync.go:527` has membership follow the gamesync session.
  A player that opens a session elsewhere before its old stream ends keeps the old seat.
* `ViewsConverge`: `SV/gamesync.go:53-54` has push deliver if and only if the content changed.
  Comparing and sending are two sections, pushes overtake each other in between, and the poll
  then finds the newest content recorded as delivered.
* `CursorsClimb`: `S3/lobby.go:13-15` has every delivery carry a strictly increasing cursor. It is
  taken before the lock, and keep-alives pass by the messages in the queue.
* `ErasedStaysErased`: `docs/deploy.md:67-69` has an erasure remove rows and live memory. A save of
  the documents that fails is only logged, and a second run does not repeat the save of the fest
  entries that the first could not do.

More statements are written down in the modules and do not hold either; TLC finds each violated,
but they are in no run. To see one, add its name to the cfg of its component:
`TokensNeverReused`, `AckEndsCopies`, `HolderIsOnline`, `EndsWithinMinute`, `AllOrNothing` and
`ErasedWhateverFails` (these two in `Splatoon.cfg`) to the `INVARIANTS`, `FriendPoolMembersOnly`,
`SeatedWithPresentVersion`, `TesterKept` and `ChangeTold` (these two in `Services.cfg`),
`SetIDChanges` and `BattleAlwaysStarts` (these two in `Splatoon.cfg`) to the `PROPERTIES`.

| Statement | Module | Where it is said | What the code does |
|---|---|---|---|
| `FriendPoolMembersOnly` | `GameSessions` | `SV/matchmaker.go:7-8` | membership is asked when the ticket is made (143), not when it is seated |
| `SeatedWithPresentVersion` | `GameSessions` | `SV/appversion.go:134` | a caller's version is read before the mutex is taken (`SV/matchmaker.go:147-148`), and a sign-in may come in between |
| `AckEndsCopies` | `Messaging` | `SV/messaging.go:324-325` | of two messages with one id, the first found is dropped (337-349) |
| `TokensNeverReused` | `Messaging` | `SV/messaging.go:18-19` | two deaths of the process around the write of the counter bring a number back |
| `HolderIsOnline` | `Presence` | `SV/presence.go:40-41` | the late end of an older stream takes the newer one's entry out |
| `EndsWithinMinute` | `BanGate` | `bans/bans.go:7-10` | two caches and the sweep add up to 100 s |
| `AllOrNothing` | `UserDocuments` | `S3/ugcstore.go:257` | the size limit is looked at once the operations are in place (341-350) |
| `ErasedWhateverFails` | `SplatStores` | `S3/erase.go:40` | an error of `os.Remove` is dropped (51), and the file is served or imported again |
| `BattleAlwaysStarts` | `Referee` | `SV/referee.go:9-10` | a push that overtakes another is ignored by the console (`SV/gamesync.go:496-511`), and the poll finds nothing changed |
| `TesterKept` | `Federation` | `SV/federation.go:78` | a lookup that fails is stored as no tester (87-94) |
| `ChangeTold` | `Hydro` | `SV/hydro.go:11-12` | a full channel, an expiry and an erasure tell nobody |
| `SetIDChanges` | `Rotation` | `S3/schedule.go:74-75` | a file that cannot be written is made anew every hour with other stages, and two within one versus window have one id |

Further divergences, found while modelling, that no definition states: a console that begins to
watch the verdict after the kickoff is shown the kickoff first and ignores it
(`SV/gamesync.go:601-602`); a code of a deleted document answers for the next one at its path
(`SV/ugcstore.go:549`); ChangeUserName does not keep the update time strictly increasing, as
WriteSaveRecord does (`S3/cloudsave.go:353`); DeleteSaveRecord leaves the row in Postgres, so the
record is still served (`S3/cloudsave.go:363-378`); a save record that was deleted as a file only
comes back with a restart without the database.

## 6. What is left out

* Mailboxes (`__stu`), named targets, room documents other than the verdict, transforms and mirrored
  properties of gamesync; `CreateRound`; a stream without a session. They are data of the game that
  is stored and sent on in the way `DocSync` has it.
* Database errors of `Messaging` while the process lives on (`messaging.go:179` only logs them): the
  code then promises nothing.
* The data race of `sessions.go:269` (a ticket sent while the room is synced): the fields
  mixed are not told apart here.
* Queries and field masks of documents, filters on attributes and users, short aliases of rooms,
  STUN servers, latency lists, the built-in table of regions, definitions of fests, stages and rules
  of the rotation (data that is read and answered).
* Tokens (formats and cryptography), connections, TLS, logging, redaction, start-up; friends,
  connectivity reports and canned answers, which keep no state.
* Tools and probes.
* Generated code: 33,520 of the 47,008 lines counted as implementation are `proto/*.pb.go`, which
  hold no logic of this program. Of the other 13,488 the map names 4,244, and what is stateful among
  the rest is listed above.

## 7. Plan

The model is complete as far as the list of section 6 goes, and every safety property, action
property and refinement of the runs is a theorem. What could still be proved or modelled:

1. The promises without a premise: what `ProgressKept`, `FirstChoiceWins` and `EtagGuards` still say
   when the reads or writes their premises exclude do fail (for instance that what is told stays
   right until the failure).
2. Of the referee, safety: that a verdict goes back only when a console asks; `BattleStarts` speaks
   of it only as liveness.
3. The steps of `Gamesync`'s and `DocSync`'s liveness that are safety: what a stream was sent is
   what it would be sent, or a push of it is on its way.
4. Room documents, mailboxes and named targets of gamesync, should their rules come to differ from
   those of member documents.
