# WireDraft verification

TLA+ models of WireDraft, a server in Go with a browser client in plain
JavaScript for drawing and documenting network maps. Several people edit one map
at the same time, organizations separate tenants, and administrators change both
while everybody works. What is hard in this program is what these modules are
about: requests that interleave, locks, lost answers, restarts, and browsers that
must never lose an edit nor show an old map as the current one.

Paths below are relative to the repository (`internal/...`, `web/static/js/...`).
`PROJECT.json` maps every definition to the lines it stands for.

## The system

| Component | State it keeps | Operations |
|---|---|---|
| Topology store, `internal/store/postgres.go` | table `topologies` (document, revision, organization, cached organization name), table `organizations` | list, get, create, mutate at a revision, delete at a revision; create, rename, delete organizations |
| Handlers, `internal/handler` | `directoryMu`, `createMu`, event stream slots per session | the routes of maps, share links, organizations, accounts, photos, events |
| Accounts, `internal/auth` | one aggregate in row `auth_state`; in memory: the same aggregate, a catalog of organizations, sessions, challenges, throttles, all under one mutex | sign in, sessions, update accounts, follow the organizations, authorize |
| Event broker, `internal/sse` | subscribers per map with bounded channels, counters | subscribe, cancel, publish, close |
| Media, `internal/media` | one file per photo | save, open, remove, sweep at the start |
| Process, `cmd/server` | advisory lock of the single instance | migrate, load, sweep, serve, shut down |
| Sign-in, `internal/auth`, `web/static/js/login.js` | challenges, throttles with attempts in flight, failures of second factors, sessions and the count of guests; the step a login page shows | password, code, enrollment, recovery code, guest, sign out, sweep |
| Browser, `web/static/js` | the map on screen, undo history, dirty flag, recovery drafts, queue of writes, event stream; the drag under way; the moves from one map to another | edit, save, undo, drag and drop, open, create and delete maps, receive events, resynchronize |
| Document model, `internal/model` | none: a value, in which racks, devices, ports, cables, groups and notes refer to each other | validation, analysis, spanning tree |

The rest keeps no state that steps of two actors share (export, catalogs and
faceplates, drawing, logging, tools) or leaves it to somebody else
(Entra, migrations, the JSON store of the tests). `PROJECT.json` lists every part with
the reason.

How they interact:

- A **write** resolves its session (accounts), takes the shared side of
  `directoryMu`, opens a transaction that locks the map's row, compares the
  `If-Match` revision, asks the accounts *again* whether the session may still
  write, changes the document, looks up the organization's name, and commits with
  the next revision. After that, outside every lock, it publishes an event.
- An **administrator** takes `directoryMu` exclusively, changes the registry of
  organizations in one transaction and the accounts in another, and then memory.
- A **stream** takes a slot of its session, subscribes, and for each event and
  heartbeat reads the organization of the map and the account again.
- A **browser** puts its writes in a queue, applies answers and events to the map
  on screen by rules that compare revisions, and keeps drafts of what is not
  saved in session storage. A gap in the revisions, or a stream that opens again,
  makes it read the whole map.
- A **drag** writes its preview straight into the map on screen; the drop is a job of
  the queue that reads the map again and stores the placements on top of it.
- A **photo** is a file and a name in a document, written one after the other and put
  together again by the sweep of a start.
- A **sign-in** compares passwords and codes outside the mutex of the accounts, with
  a reservation before and a second look after.

The behaviours that are hard: several writers of one row from stale documents;
checks made before a lock and used after it; accounts and registry in two
transactions that fail separately; answers and events in any order; closing
channels while others send; the process ending at any step; waiting in circles
through mutexes, rows and the connection pool. `PROJECT.json` lists each hazard at
its line with the properties that watch it.

## The modules

| Module | Models | Composes |
|---|---|---|
| `SharedMaps` | the promise of the store: atomic edits, revisions, no reuse of ids | |
| `TopologyStore` | requests on maps, row locks, revisions, authorization, share links, capacity, administrators | refines `SharedMaps` |
| `EventStreams` | broker and events handler | |
| `RequestLocks` | the order of locks of every kind of request, and the pool | |
| `Directory` | organizations, accounts, sessions, failures, restarts | |
| `Collaboration` | browsers on one map | its server is the map of `SharedMaps` |
| `Document` | the content of one map: what its handlers change and prune, what `Validate` demands | a step is the operation `patch` or `replace` of `TopologyStore` |
| `Analysis` | spanning trees, loops, path tracing and VLAN warnings | computed on the documents of `Document` |
| `SignIn` | passwords, challenges, codes, throttles, sessions, guests; the login page | its accounts are one account each of `Directory` |
| `Media` | photos: files and the documents that name them, crashes and the sweep | its commits are the operation `patch` and the creations of `TopologyStore` |
| `Gestures` | drags of devices, queued drops, the dialog of an occupied unit | its queue is that of `Collaboration`, with jobs of its own |
| `Workspace` | one tab that goes from map to map | one browser of `Collaboration` over several maps |
| `...Proofs` | theorems about `TopologyStore`, `Directory`, `Collaboration`, `SignIn`, `Gestures`, `Workspace`; `DocumentProofs` about `Document`, `Analysis` and `Media`, `ServerProofs` about `EventStreams` and `RequestLocks` | extend them |
| `MC...` | instances for TLC: owners, symmetry, access, first documents | extend them |

### SharedMaps and TopologyStore

`SharedMaps` says what a user may rely on: an edit takes effect at once, at most
once, advances the revision by one and removes no earlier edit; a deleted map does
not come back. `TopologyStore` is how the server does it. A document is the set of
the requests whose edits it contains, plus its share tokens; that is all the
properties tell apart.

A request is a program counter through one handler: `sent`, `resolved` (the
organization a replacement names, looked up before any lock), `entered`
(`directoryMu.RLock`), `locked` (`SELECT ... FOR UPDATE` and the precondition),
`authorized` (inside the transaction), `named` (the organization's name),
`committed`, `done`; creations and copies go `entered`, `authorized`, `counted`
(under `createMu`), `named`, `committed`. `Fail` is every early return and every
error at every step; it rolls back and unlocks. The client's `If-Match` revision
and the body it built come from the GET it made before, at any earlier moment, so
a stale body is the normal case. The administrator's handlers are in the same
module, as steps under the exclusive side of `directoryMu`; between the two steps
of a deletion, and when the second one fails, requests see what is left.

Racks, devices, links, VLANs, rooms, groups and comments all go through
`Server.mutate` and differ only in the document; they are the operation `patch`, and
what each does to the document is in `Document`.

### EventStreams

The variables are the fields of `Broker` and of `Server.sessionStreams`, plus the
buffer of each channel and whether it has been closed. `panicked` becomes true
when a channel is closed twice or sent to after its close, which in Go ends the
process. The events handler is a program counter; its checks are two steps because
the organization of the map and the account are read one after the other
(`ReadOrganization`, then `Admit`, `Skip` or `Refuse`), and what was admitted is written
in a third (`Write`), with commits, moves and sign-outs between them. `granted` is
history: since the stream took the event from its channel there was a moment at which
it might have been written. A commit
and its publication are two steps, since `publish` runs after the transaction.
`Close` may happen at any time, which includes the end of `run` where it does.

### RequestLocks

This module forgets the data and keeps what `TopologyStore` abstracts from: the
mutex of `auth.Manager`, the connections of the pool, and Go's rule that a waiting
writer of an `RWMutex` lets no new reader in. A handler is the sequence of the sets
of resources it holds. A request waits wherever the next set contains a resource
that another request withholds, and it may return early, as when its context ends,
but not while it waits for a mutex, because waiting for a mutex does not watch the
context. Circular waiting and answers under fairness are the two questions.

### Directory

The registry (a table), the account aggregate (one row, saved whole) and their
copies in memory are four variables; failures leave them apart and restarts bring
them together. `commitLocked` saves first and changes memory only when the save
returned no error; a save or a registry transaction whose answer is lost took
effect all the same (`savereply`, `reply`). `Crash` may come between any two steps.
Starting takes two: `EnsureOrganizations`, which may create the Guest
organization, and `NewManager`, which drops grants of missing organizations and
binds Guest. Sessions carry a copy of the access of the moment they were opened.
`made`, `removed`, `answered` and `doubts` are history: what administrators were
told, and where the code knows that memory and database may differ.

### Collaboration

Each browser has the fields of `TopologyState`, `AutosaveController`,
`DraftRecovery`, `TopologyWriteQueue` and `TopologyCollaboration`. A revision on the
network is its number; `log[n]` is what it contains. A browser runs one event at a
time and all its microtasks before the next one (`Ready`), which is what makes the
queue of promises a sequence of steps. `ReceiveTopology` is `receiveTopology` with
its four outcomes: ignored as older; kept because the document on screen was
edited after the save was captured; kept because a draft is pending on that
revision; applied. Losses are a write whose answer never comes (and that may take
effect later, `late`), a reading, the event stream, and the page itself, after
which only session storage survives. `strayed` is history: why the screen of a browser,
or a write it has sent, may lack work of the revision it names. That is an undo, or an
answer past the queue that put an older document back (`overtaken`, described below); it
ends when the screen is the document of its revision again, or with the page.

### Document

A document is a record of tables: a function from the ids that exist to records of
what they refer to. `Validate` is `Topology.Validate` with the parts that compare one
element with another; the operators `Without...`, `Configured` and `Repatched` are
the mutations of the handlers; `PrunedGroups`, `PrunedTeams` and `Pruned` what they
clean up. `Commit` is `Server.mutate` and the validation in the store. A refused
request is no step, and since the row is locked meanwhile a handler is one step; what
matters here are sequences. `held` is a document from before: the history of a browser
or a backup, which `ReplaceTopology` submits as it is. Switch systems and firewall
clusters are one family (`teams`), comments, documentation and photos another
(`notes`). A device is one unit high, a rack has one face, a port keeps its type.

### Analysis

`AnalyzeContext`, `simulateSTP` and `TracePath` keep no state; they are operators on a
document. `Domains` gives the spanning trees of a VLAN: the bridges (`BridgeOf`, a system
of switches is one), the edges between them (`Edges`, the cables of a group between the
same two are one, and of a failover group there is only the primary), the connected parts,
their root, the search from it and the role of each port. `Trace` is the path between two
ports, found by the same search over other arcs. The search runs as in the code: `AtRoot`
is its start, and each turn (`Visit`) takes the head of the queue and appends the nodes
first seen from it, each by the first of its arcs, in the order of those arcs. `Explored`
is the tree after as many turns as there are nodes, a recursive function of the number of
turns; `WayTo` goes up the tree. Ids are compared by `Rank`, STP priorities are constants,
since no handler looks at them. What the definitions compute is compared with definitions
that say nothing of queues: cuts (`Connects`), the equation of shortest distances, layers
of hops (`Within`). `AnalysisAssumption` says what the code relies on: a switch may be a
member of a system and a server may not, ids have an order in which no two are equal,
priorities are numbers, and a document has finitely many devices and cables.

### SignIn

The maps, counters and the list of sessions of `auth.Manager` are variables, next to
the accounts in memory and as saved. A login page holds what `login.js` remembers: its
step, its challenge, its cookie, and one request per form. A password and the code of an
authenticator are compared outside the mutex, so `StartLogin`/`FinishLogin` and
`SubmitCode`/`FinishCode` are two steps each, with those of other requests, sweeps,
expiry, `SetDisabled` and `Restart` between them. A save fails, or takes effect without
an answer (`SaveFails`); a restart forgets everything but the saved accounts. Time
counts the periods of the authenticator, and every duration is a constant.
`opened` counts the sessions each code opened, `compared` the codes compared for each
challenge.

### Media

A photo is `<<map, photo>>`: `named` are those the documents name, `files` those on disk.
An upload writes its files one by one and then commits their names; a removal commits
first and removes then; a copy copies files and then inserts its map; a deleted map takes
its directory with it. Each file operation may fail, each commit may lose its answer, and
`Crash` may come anywhere; `Start` sweeps, and may fail half way. `lost` are the photos of
an upload that was told that it failed although it committed, and the files that the
clearing up of such a copy has taken from its map, whoever wrote them; `stray` says that a
mishap may have left files since the last whole sweep.

### Gestures

A place is a rack unit or a free point; `Over` is a device held over an occupied
unit, `Beyond` the point beside the racks where a displaced device goes. `gesture` is
the drag of `canvas.js` with the places at pointerdown (`originals`) and the map it
started from (`snapshot`, which `receiveTopology` refreshes); `queue` the jobs of
`savePlacements` and of a confirmed replacement, each with the stage its promise waits
in. `ReceiveTopology` rebases the queued drops on a new map and previews the drag
again, unless the map is older, or of the same revision while a draft is pending
(`Accepted`). The one draft of this module is what a drop leaves that failed without any
reading (`draft`). The other session moves and deletes devices; a request or its answer
gets lost. `astray` is history: devices that a drag put back, or a failed drop left,
where the map received last does not have them.

### Workspace

One tab, several maps. A task is one call of `loadTopology`, of the scope selection, or
of a creation or deletion, at the `await` it waits in: the tail of the queue, the
question to the user, the save before leaving, the reading. Until a reading is
answered the old map stays on screen and can be edited; several tasks may be under
way. Edits are committed on screen (and saved by `Flush`), queued as operations of
the server, or attached past the queue. Session storage is `drafts`, what each map's
pending entry contains, and `copies`, the entries that a map on its arrival displaced.
`astray` and `rewound` are history: they mark the two cases in which the code does lose
its way, described below. `rewound` are maps that came on screen, by a load or past the
queue, without edits of the save under way of which no copy was made.

## What the runs check

Distinct states in parentheses. All runs finish; none is a sample.

| Run | Question | Instance |
|---|---|---|
| `store_requests` (1.8 M) | Replacements, moves, links and their revocation, or creations, copies, moves and deletions, race with an administrator: is any committed edit lost, does a link outlive a move or come back, is every commit allowed when it happens, are names current and the capacity kept? | 3 map ids, 3 requests, 2 organizations, capacity 2, 1 administrator operation |
| `streams` (363 k) | Can any order of cancel, close and publish panic, leak a slot, or write an event to somebody who could not read its map since the stream took it; and does every stream end when its session or its map does? | 2 streams of 1 session, 1 map with room for one, buffer 1, 3 revisions |
| `locks_order` (82 k) | Can requests wait in a circle, and is every request answered? | 3 requests of any kind, 2 connections, 1 transaction at once |
| `locks_pool` | The same with as many transactions as connections. **Violated.** | 2 connections, 2 transactions |
| `collab_losses` (2.4 M) | Edits on screen, by operations of the server and past the queue, with an undo, a manual save and one loss: is an edit lost, work removed that its browser has not seen, a stale map taken as saved? | 2 browsers, 2 edits, 3 acts |
| `collab_live` (108 k) | The same clients with undo and redo: is everything saved or displaced in the end, do all browsers end with the same map, and is each current once nothing is left to receive? | 2 browsers, 2 edits, 3 acts |
| `directory_faults` (0.9 M) | Two lost answers or failed saves and any number of crashes: do catalog, accounts, sessions and Guest keep what administrators were told? | 4 organizations, 4 names, 1 account |
| `document_edits` (29 k) | Any two edits, with an undo or a backup: are references valid, can everything be deleted and every earlier document be stored again, does a deletion take more than what hangs on it, do removed comments stay removed, and are trees, loops, paths and warnings those of the document? | 3 devices, 7 or 8 ports, 3 or 4 cables; a bundle of switches, a pair of patch panels, or a ring with a failover group |
| `signin` (2.2 M) | Two browsers sign in to one account or as guests, while it is disabled, saves fail and the server restarts: does a code open two sessions, does a session outlive its account, are the counters right? | 1 account, 1 recovery code, 5 requests, 4 tokens, 1 mishap |
| `media` (269 k) | Two requests at a time, with two mishaps: has every named photo its file, and is there no other at rest? | 1 map and a copy, 3 photos |
| `gestures` (610 k) | Two drags, one act of another session, two lost calls: is what is stored what the user saw, is what is shown stored or queued, is every drop decided? | 2 devices, 1 rack unit, 1 point |
| `workspace` (4.8 M) | The first map and two moves, two edits, at most four of these and a mishap in all: is an edit lost, does the tab follow the map it shows? | 2 maps and one to create |

### Properties

- **TopologyStore.** `NoLostUpdate`: a committed edit is in the map until the map
  is deleted. `ImplementsSharedMaps`: the server implements the atomic maps.
  `NamesFresh`: a map carries its organization's current name although moves, renames
  and lookups overlap. `AllowedAtCommit`: access taken away between check and commit
  is noticed. `LinksStayHome`, `LinksOnlyIssued`: links neither follow a map to another
  organization nor come back through a body or a backup. `CapacityBound`: only maps
  that were moved in are beyond an organization's capacity.
- **EventStreams.** `NoPanic`, `CountsExact` (counters equal what they count),
  `DeliveredToReadersOnly`: no event is written of which the stream's session could not
  read the map, in the organization the event is of, at some moment after the event left
  the channel. What ends before that, while the event waits, counts for nothing, and a map
  that moves away and back makes no difference. `StreamsEnd`.
- **RequestLocks.** `NoCircularWait`, `EveryRequestAnswered`.
- **Directory.** `CatalogFaithful`, `AnsweredKept`, `SessionsCurrent`,
  `DeletedGone`, `GuestOnlyOwn`.
- **Collaboration.** `NoEditLost`, `WorkKept`, `BaseKept`, `CleanIsShared`,
  `CurrentAtRest`, `Converges`.
- **Document.** `NeverRefused`: a deletion cleans up so completely that `Validate`
  never refuses it, and an undo or a backup is never refused for what was added
  since. `OnlyDependentsGo`: nothing else is cleaned up. `GoneForGood`: comments and
  photos that were removed come back with no body.
- **Analysis.** `AnalysisRight`, of every document that two edits can come to. Trees: each
  bridge with a port in the VLAN is in one domain; forwarding ports join a domain without
  a loop, by shortest ways to the least bridge; a loop is reported just when some edge
  could be spared; a cable that others can stand in for, the primary of a failover group
  included, can be deleted without parting a domain. Paths: shortest, through no server,
  there and back alike, found when there is one. Warnings: `configureLink` leaves none on
  the cable and its group, and the deletion of a VLAN adds none.
- **SignIn.** `CodesOnce`: a code or recovery code opens one session, across concurrent
  challenges, lost answers and restarts. `SessionsOfEnabled`. `GuestCountExact`: the
  counter is the number of guest sessions, however they end. `TriesBounded`: no
  challenge has more than its share of codes compared, whatever is in flight.
  `NoReservationLeaks`: the throttle holds no reservation that nobody gives back.
- **Media.** `PhotosStored`: what a document names is on disk, but for uploads and copies
  that were told that they failed, and what the clearing up of such a copy takes.
  `NothingStray`: at rest no file is without a name.
- **Gestures.** `StoredAsSeen`: a drop changes only its own devices, each from where the
  drag took it; a confirmed placement puts its devices where the dialog said, over the
  revision of its dialog. `ShownIsTrue`: what is not held shows what the map received last
  has or what is queued, except for what is `astray`. `DropsEnd`.
- **Workspace.** `EditsKept`: an edit is stored, in a draft, or given up by its user.
  `FollowsShown`: the event stream is that of the map on screen.

### Why the bounds are enough to be interesting

- *Three requests.* Two suffice for each lost update; the third lets the row change
  between the reading of one and the commit of another. The constraint `Meeting` keeps
  apart the operations on one map with its links and those that create, copy, move and
  delete maps: the former meet on a row, the latter at a capacity. The operation
  `patch` differs from them in the document only, and the theorems cover any mixture.
- *One administrator operation* in the runs of the store: an operation has up to
  three steps, and its failures between them are states of their own. Sequences of
  operations are the subject of `Directory`.
- *Buffer 1, limits 1 and 2.* A full channel and a full map occur, with a stream that
  is refused by the map while it holds a slot, and so does the step from full to free.
  Three revisions let a map move away and back while an event waits. That two streams
  subscribed at once, or full brokers and sessions, change nothing is what the
  theorems about every limit and number of streams say.
- *Two edits of a document.* The first documents are rich: a bundle of three cables in
  a failover group, three switches in a team, a rack with a device that no longer fits
  a smaller one, a rear mapping beside a patch cord on one port, notes of every type.
  One edit takes each apart; the second meets what the first has left, or undoes it.
  The record inputs (`RackInputs` ... `NoteInputs`) hold a valid and a conflicting
  body each. For the analysis there is a ring of three switches with a failover group on
  one side and ports that carry one VLAN of two on another; a switch may turn into a
  server, a team form or dissolve, and a bundle fall apart into parallel cables. With three
  bridges the order in which the search visits them makes no difference to the costs; that
  it is right in larger maps is what `SearchIsRight` and `AnalysesRight` say.
- *Capacity 2 with 3 ids.* An organization is full, and two creations meet at the
  last place.
- *Three acts of two browsers.* An act is an edit, a click or a loss. Three are an edit
  of each with a loss in between, an edit that is undone and redone while another
  arrives, or a save that loses its answer before the next edit. What an answer past the
  queue can put back while a save is under way takes a third edit of one browser; the
  theorems cover it.
- *One account and two browsers* in the sign-in, with one mishap: two challenges meet
  on one code, a third request finds the throttle full, and the durations are one or two
  periods, so that locks, challenges and sessions expire in the middle of requests.
- *Three photos, two maps.* Photos are uploaded together or one after the other while
  another request removes one, deletes the map or copies it. The second mishap is the
  failing clean-up of the first, or the crash during it.
- *Two drags.* The second one begins while the first drop is queued; two lost calls
  are a write and the reading that should tell what became of it.
- *Two moves* beside the first loading: three loads may overlap, of which two are for
  the same map.
- *Two connections.* One is the smallest pool in which a write can be authorized at
  all by a Manager that saves; two leave room for one holder and one waiter.
- *Two faults in the directory, crashes without bound.* The second fault of the
  directory is the failing retry of the first.
- *History of one document.* Old documents must drop out of the history in the runs.

## Fairness

Liveness is checked only under what the code's environment gives.

- `EventStreams`: a handler that can go on does (goroutines are scheduled); a write
  returns or fails (`Disconnect`). The code sets no deadline for it, so this is assumed of
  clients: they read, or their connection breaks in the end. The
  cases of a `select` are under *strong* fairness, because Go picks at random among
  the ready ones, so that a case that is ready again and again is taken; an event and
  the end of the channel are the two outcomes of one case. Nothing else is
  assumed of publishers, clients, commits or sessions.
- `RequestLocks`: a request that can take the next resource does (weak fairness of
  `Advance`). That clients go away, which would end most waits, is not assumed.
- `Collaboration`: the server answers, publications are delivered, timers fire and
  browsers run their events. Users and losses owe nothing. `Converges`
  therefore holds although the last thing users do may be an edit and the last thing
  the network does may be the loss of a write, a reading or a page. A break of the
  stream is left out of that run, for the reason given under the disagreements.
- `Gestures`: the first job of the queue goes on, since promises settle, a request is
  answered or times out, and what was published arrives. The user may hold a device
  or leave a dialog open for ever.

`CHECK_DEADLOCK FALSE` stands in the runs of the streams, the browsers, the
document, sign-ins, photos, drags and maps: all streams may have ended, all users may
be at rest, and the bounds on what they do may be reached. The other modules have a step
`Finished` or never come to rest, and deadlock is checked.

## What is proved

The theorems hold for all values of the constants under the assumptions named in the
modules: any number of requests, accounts, streams and limits; in `TopologyStore`
finitely many maps, in `EventStreams` finitely many streams, in `RequestLocks` finitely
many requests, in `SignIn` finitely many pages and recovery codes, since cardinalities
are compared.

**TopologyStoreProofs.** `TypeCorrect`, `EditsInvariant`, `NoEditLost`, `Isolation`
and `ServerImplementsSharedMaps`. `NoLostUpdate` alone is not inductive: that a
replacement's body contains the row it overwrites follows from how the body and its
revision were read. `EditsInv` adds the two reasons. While a transaction is open the
row lock is its own (`LockHeld`), so what it read is still the row when it writes
(`TransactionIsolated`), although it asks accounts and registry in between. A map
still at the revision a client read has the content it read (`BodyFresh`), because
every commit advances the revision and ids are not used twice (`IdsMinted`). A
replacement that passes the precondition therefore contains all of the row, every
other mutation starts from the row, and no edit goes. The same invariant gives the
refinement: each commit is one step of `SharedMaps`, every other step stutters.

`ServerInv` adds access, names and links, for `NamesAreFresh`, `LinksStay`,
`LinksAreIssued` and `WritesAreAllowed`. A request inside the shared side of
`directoryMu` keeps administrators out (`adminPc # "out" => readers = {}`), so what it
found out stays true while it holds its locks (`Current`): that its account may reach
the row and the organization named, and the name the registry has. A step of another
request cannot disturb it (`OthersStayCurrent`), and an administrator finds nobody
inside (`NobodyInside`). A link is of a committed request which read the map in the
organization the map is in now (`LinksCommitted`), since a move drops them all.

`CapacityIsKept` needs two facts more. From the count to the insertion `createMu` is
held, so only one creation at a time relies on a count, and nothing else adds a map
that was not moved in (`CapacityInv`). And a replacement that finds its revision writes
the organization the map already has (`ReplacementsStay`), or it would be a move
without being one.

**ServerProofs.** `StreamsInvariant` and from it `StreamsTypeCorrect`,
`NeverPanics`, `CountersExact`, `LimitsKept`; and `ReadersOnly` for the action
property. The argument: only open channels are subscribed and only a subscribed one
is closed by a cancel (`ChannelsOpen`); a slot is held exactly between taking and
giving it back (`SlotsHeld`), so each counter is the cardinality of a set that
every step changes by one element. For `ReadersOnly` the check and the write are apart, and
so are the two readings of the check. The organization read first may be the map's no more
when the account is read, and sessions only end; so if both agree in the end, there was
such a moment when the organization was read, and `GrantsKept` says that the history has it.

`NoRequestsWaitForEachOther`: while fewer transactions are
under way than the pool has connections, no set of requests waits only for its own
members. The paths rank the resources: who holds one waits only for later ones,
`directoryMu` before `createMu` and rows, rows before the mutex, everything before
a connection (`PathsRanked`). In a circle some request waits for the resource of
the highest rank. If that is a connection, all of them are held inside the circle
by requests that wait; only transactions wait with a connection in hand
(`ConnectionsGivenBack`), and there are too few of them. For every other resource
its holder would have to wait for one of a higher rank.
`MaxTransactions < Connections` is the hypothesis the program does not enforce;
`locks_pool` shows that it is needed.

**DirectoryProofs.** The five properties of the run `directory_faults` and the types,
for any number of organizations, names, accounts and failures: `TypesCorrect`,
`SessionsFollowAccounts`, `GuestNeverMade`, `AnswersKept`, `CatalogFollows` and
`DeletedStaysGone`. None of the properties is inductive alone. `DirectoryInv` says what
each copy owes the others at every stage: an id that was used stays used and names are
distinct (`RegistryInv`), without which a restart could give a deleted organization's
grants to a new one and `register` could refuse its own name; what may be bound to Guest
at the next start was never created by an administrator (`GuestInv`); memory is the
saved state unless a save took effect unanswered (`AccountsInv`); the catalog is the
registry except for the organization a handler is at (`CatalogInv`); a deletion is
answered only when memory has forgotten (`RemovedInv`). The two lemmas `AnswerIs` and
`SaveFailedIs` say how a transaction and a save may end, so the failures are treated
once.

**CollaborationProofs.** `TypeCorrect`, `EditsKept`, `ScreensKeepBase`, `CleanMapsShared`
and `OthersWorkStays`, for any number of browsers, edits, clicks and losses, in any mixture
of ways to edit, with undo. What is on screen is said to follow from what was read and
sent: the draft is the document on screen (`DraftInv`), the document contains the revision
it is shown under, and a save under way is part of it, unless its browser strayed
(`BaseInv`), so that the answer of a save which finds a document edited since may advance
the revision alone. A write that was stored is one revision above the one it names, which
its browser has not passed, so its answer is never taken for an older one, and no write
past the queue is stored after a save under the same revision (`RequestInv`). `EditInv`
follows one edit: it is in a revision the server has, in a recovery copy, or on screen, in
the draft of a map that counts as unsaved.

`LatestAtRest` proves `CurrentAtRest` from the hypotheses under which the run
`collab_live` checks it: no stream breaks, nothing is written past the queue, and
not both a page and a reading are lost (or one loss in all). The first two are needed (see
below), and the proof showed that the third is. `CurrentInv` says where the latest revision
is while it is on its way: unpublished, in the channel, in the queue, or on screen
(`Coming`), or to be brought by a GET that was asked for after the server knew of the stream
(`Asking`). An event may be ignored as seen because what was seen is on screen or in the
queue (`SeenInv`); a resynchronization may be left out while another is under way because
its answer is in the queue once and until it is taken from there (`WaitingInv`); and it may
fail as long as only first pages depend on it (`FirstPages`).

**SignInProofs.** `SignInInvariant` and from it `SignInTyped`, `CodesOpenOneSession`,
`EnabledAccountsOnly`, `GuestsAreCounted`, `ChallengesTire` and
`ReservationsAreGivenBack`. A token is drawn once
(`TokensInv`), so a request that comes back finds its own challenge or none. A code that
opened a session is used up both in memory and in what is saved (`UsedUp`, `CodesInv`),
because the save precedes the session and no save undoes it. What was compared for a
challenge is what the challenge counts, also when it has gone (`TriesInv`).
`NoReservationLeaks` is inductive beside them: a request is counted at its two keys of
the throttle, which are different records because no account is named as a kind of key,
from the step that reserves them to the step that gives both back; a sweep, a guest and
a success only ever lower a count (`LeaksReserved`, `LeaksFinished`, `LeaksKept`).

**DocumentProofs.** `DocumentTyped`, and the run's three properties of `Document`:
`DeletionsAccepted`, `NothingElseGoes` and `GoneStaysGone`, for maps of any size and
requests that carry anything of the right type. The inductive invariant is `TypeOK`: the
stored document is typed and valid, which the commit tests. Everything else is about what
the handlers compute from such a document. `Validate` is split into what it demands of the
notes, which the pruning establishes for any document (`PruningValidates`), and the rest
(`Sound`), which each deletion has to keep: without a rack its devices stand in its room
(`WithoutRackSound`); without a device or a cable the groups and teams are those that keep
two members, whose ends are still all physical or all not (`GroupsPrune`, `TeamsPrune`);
without a VLAN the others, and VLAN 1, are still there (`WithoutVlanIs`). For what else
goes, every lost note had a target that is lost (`NotesHang`), so an edit that keeps all
ids loses nothing, and a deletion loses its root, what it cuts, and what hangs on that
(`DeletionOrderly`). Each handler then has its lemma `...Fair`. That ids of different
kinds differ (`IdsAssumption`) is how the model writes down that a reference in the code
names the kind beside the id.

Of `Analysis`, `AnalysesRight`: the property of the run for any number of switches, systems,
servers, cables, groups and VLANs, any priorities and any order of ids. It follows from
`DocumentTyped`, because the analysis is right about every typed document whose references
are valid (`AnalysesAreRight`). The argument has four parts.

- *The search.* `SearchIsRight` says of any arcs that the search sees the nodes that can
  be reached and no others, each by as few arcs as there can be. The invariant of its
  turns is `Searching`: every node of the tree has an arc from a node nearer by one; nodes
  outside the queue are done, that is, their arcs lead to nodes of the tree and to none
  farther than by one; the queue is in the order of the costs, and nothing is farther than
  its head by more than one. Each turn takes one from the number of nodes waiting and
  unseen (`Left`), so there are turns enough. Induction on the turns is by the least
  counterexample (`Smallest`, `Inductive`), from the theorem that `<` is well founded;
  that the recursive functions exist is `RunExists`.
- *Domains and trees.* A component is the least set around a bridge that no edge leaves
  (`ComponentIs`), so two of them are equal or apart, and the domains divide the active
  bridges. The roles follow from the tree: the designated end is the one that precedes the
  other (`RolesAre`), so the forwarding edges are exactly the ways to the root
  (`ForwardingIs`). These connect the domain, since of any bridges without the root the
  nearest has its way from outside (`TreeConnects`), and none can be spared: the bridges
  behind an edge form a cut that no other way crosses (`TreeIsLeast`). An edge that forwards
  nothing is therefore one that can be spared, and the other way round (`LoopsAre`).
- *Cables that go.* Without one cable the bridges, and what is fit for a VLAN, stay
  (`BridgesStay`), what was live is live (`LiveStays`), and a cable of a group whose members
  all fit has a successor, whether the group loses its primary cable or ceases to be one
  (`Successor`). So every cut of a domain that an edge crossed is still crossed (`SparesDo`).
- *Paths.* The way up the tree loses one hop a step (`WayIs`), and `Within` is the tree cut
  off at a cost (`WithinIs`). A way back turned round is a way there (`NoWayBack`): that only
  the two ends may be servers, by the ports asked for, is the same in both directions.

Of `Media`, `NamedPhotosAreStored` and `NoFileIsForgotten`. The invariant says of
each request which files it may still write or remove (`Claimed`): identities are drawn
once, so no request touches those of another (`Apart`, `NewMaps`), what a removal is
about to remove is named no more (`Removed`), and without a mishap every file is named
or somebody's to deal with (`Answered`).

**GesturesProofs.** `WritesFit`, `DragsStoreWhatWasSeen` and `NothingElseIsShown`. A drop
about to be sent was compared with the map it read, and that map is the server's unless
the server has a newer revision (`DropFits`); a confirmed placement is sent under the
revision of its dialog with its devices where the dialog put them (`ReviewedStill`). If
the server still has that revision when it stores, the comparison still holds. What is
shown is the map received last with the queued drops repeated on it, except for what is
held (`MapsShown`) or astray. That survives a new map because `receiveTopology` repeats
the drops in their order, and the answer of a drop because what is stored is newer than
any map received; only a drop that read no map is answered by an older one, and changes
nothing.

**WorkspaceProofs.** `TabFollowsItsMap`. Not inductive alone, because the stream is
closed before the next map is read: `Follows` says that the stream is that of the map
on screen, or it is closed and a load is under way. `WorkspaceTyped`, and `NoEditIsLost`,
which is `EditsKept` for any maps, edits, moves and mishaps. What the server has of a map
only grows, but for what was copied or given up (`Grows`): a write is stored when it
carries the current revision, and whoever shows a document under the current revision has
all of it on screen or in a copy (`Bases`). A draft is dropped when the server is known
to have what it contains (`AllOf` of what was read, or the save it was submitted with), or
it becomes a copy. What is left is the answer of a save after another version came on
screen, which advances the revision alone: `Covers` says that the screen still has what
that save submitted, and fails only for the maps in `rewound`. `DocumentsFit` puts these
together, with what every document in a queue, an answer or a task is a version of.

Every invariant and action property of the passing runs is stated by a theorem. Only
model-checked is liveness (`Converges`, `EveryRequestAnswered`, `StreamsEnd`, `DropsEnd`),
which is out of reach of the prover, as is `ENABLED`.

## Where code and statements disagree

1. **Requests that wait for each other** (`locks_pool`). A sign-in saves the
   accounts while it holds the mutex of the accounts, and waits for a connection.
   A write holds a connection while it asks the same mutex for its authorization.
   When writes hold all 20 connections (each may be waiting for a row), a sign-in
   that comes between stops them all, in every organization, until its client goes
   away; the comment of `directoryMu` says writes in different organizations never
   wait on each other.
2. **A stale browser after a reconnection.** `web/static/js/app.js:184`. A stream that
   opens again asks for the map, but `resyncActiveTopology` hands out a GET that is
   still outstanding from before the break. What was published in between is not
   fetched, and the browser shows an old map until the next event, where
   `e2e/collaboration-chaos.spec.mjs:39` says that editors "resync after reconnect".
   `CurrentAtRest` is violated with `Losses = {"stream"}` and three edits. A failed
   GET has the same effect on a page that was loaded again: it is reported but not
   repeated, and what was published before the stream was open stays missing
   (`Losses = {"page", "read"}`, two losses, one edit). `LatestAtRest` proves that there
   is no third way: without a lost stream, and without both of these, a client at rest
   is current, writes past the queue aside.
3. **Organizations administrators cannot reach.** `internal/auth/manager.go:920`. A
   deletion whose second step fails leaves the name in the catalog; an organization then
   created with that name is registered in the database but not in the catalog,
   and is refused to everyone, administrators included, until a restart.
   `README.md:77` of the repository gives administrators access to all.
4. **An edit lost by loads that overlap.** `web/static/js/app.js:3056`. With three loads
   of one map and a save in flight: the load read after the save took effect
   acknowledges the draft, an older one then puts the earlier revision back on screen,
   and the next edit makes the save's answer advance only the revision of a document
   without the saved edit, so that the following save overwrites it, although unsaved
   changes are "protected when switching maps" (`README.md:73` of the repository).
   `EditsKept` leaves the maps out to which this happened (`rewound`) and is proved for
   all others.
5. **Work lost to an answer past the queue.** `web/static/js/app.js:1003`. `applyTopology`
   compares no revisions. The answer of a comment, a photo or a link group that comes
   late, while a save is under way, puts the older map back on screen; when the user edits
   it, the save's answer advances only its revision. The next save removes what it lacks
   from the server, also what other browsers did, under a revision that is current,
   although displaced work is "never replayed over shared work" (`draft-recovery.js:3`).
   `WorkKept`, `BaseKept` and `CleanIsShared` leave browsers out that were overtaken so
   (`strayed`) and are proved for all others. `NoEditLost` has no exception, as the edit
   has been stored once.
6. **A refused drop that stays on screen.** `web/static/js/app.js:3064`. A drop that fails
   without any reading leaves a draft (`markDirty`, `app.js:3184`). When a later drop is
   refused, the map is read again to roll its preview back (`app.js:3181`), but
   `receiveTopology` ignores a map of the same revision while a draft is pending. The
   preview that the server has refused stays on screen until the next revision, or for
   autosave to submit it; if the second drop was queued while the first was pending, line
   3185 even marks the map as saved. `ShownIsTrue` leaves the devices of such drops out
   (`astray`).
7. **Photos of others that go with a copy.** `internal/handler/duplicate.go:84`. A copy
   that commits but is not told so removes the directory of its map. The map is there,
   so other requests may have uploaded photos to it, with success; their files go too.
   What is removed is called the media of an "incomplete map copy" (`duplicate.go:88`).
   `PhotosStored` leaves out, file by file, what such a removal takes.

### What is not claimed

Some statements one might expect do not hold, and nothing in the repository promises
them; the properties are worded accordingly.

- A move does not count the maps of the organization it moves to
  (`internal/handler/server.go:396`). `CapacityBound` is checked with moves, and leaves
  the maps that were moved in out of the count.
- A drag that is cancelled puts its devices where they were at pointerdown, also when
  another session has moved them since (`canvas.js:2717`); a later save of the whole
  document would bring that place back. A device whose drop is still queued, picked up
  again while a revision arrives, takes its baseline from a map without that drop
  (`app.js:3081`), so its second drop may be refused as moved elsewhere, and a click
  can leave a preview behind. `ShownIsTrue` leaves both out until the next revision
  (`astray`); `StoredAsSeen` does not.
- A confirmed placement is built on the map of the tab as it is in its turn
  (`app.js:1889`), so the preview of a drag under way, or a draft, is stored with it.
  `StoredAsSeen` says of it where its own devices come to be, and over which revision.
- A move, a deletion or a sign-out between the check of a stream (`server.go:1848`) and its
  write (`server.go:1778`) does not stop the event. `DeliveredToReadersOnly` says that
  there was a moment since the event left the channel at which it might have been written.
- A drop gives up at its third conflict (`app.js:3164`). In the run another session acts
  once, which makes one conflict; that the third is the last is not checked.
- A load that fails has already closed the stream of the old map, which stays on
  screen without events. The answer of a write past the queue (`app.js:1003`) is applied
  whatever map is on screen, so after a switch the old map may return under the other
  map's stream. Of two loads that overlap the last answer wins. `FollowsShown` leaves
  these out until the next map is opened (`astray`).
- Who leaves a map is asked before the next one is read. What is edited during the
  reading is not asked about again; it stays as a draft of the old map. An operation
  answered after the switch marks the map then on screen as saved, whose draft stays; one
  that was queued behind the switch may be dropped.
- An upload that commits but loses its answer has its files removed, although the document
  names them. `PhotosStored` leaves out the photos of that upload. For a copy see above.
- Answers of writes past the queue (comments, documentation links, photos, link
  groups, map details) are applied without comparing revisions. `CurrentAtRest` is
  checked without them.
- Undo and redo restore a whole earlier document and submit it under the current
  revision. Another client's edit that arrived since is removed by it, without a
  conflict. `WorkKept` leaves out the writes of a browser that has undone something, until
  its screen is the map of its revision again.
- After a save of the accounts whose answer was lost, memory has the old state and
  the database the new one. `AnsweredKept` excludes that case until the next save
  or start settles it.
- A whole-document replacement may remove VLAN 1, on which nothing is native. After it
  the deletion of a VLAN that is in use falls back to a VLAN that is not there, and is
  refused. `NeverRefused` is checked of VLANs while VLAN 1 exists.
- A comment or documentation on something another request has just deleted is answered
  with success and pruned in the same step; only photos look for their target.
- Deleting a cable puts its ports down, deleting a device leaves the ports at the far
  ends of its cables up. Nothing is claimed of port states.
- A failed resynchronization is not repeated before the next event or reconnection.
- Shutting down waits for the event streams until its timeout, because the broker is
  closed after the wait (`cmd/server/main.go:171`).

## What is not modelled

- In `TopologyStore`: guests (they have one organization and otherwise the same
  path), the document's structure (that is `Document`), and photos' files.
- In `Document`: names, coordinates, sizes and limits; messages and states of comments;
  rear channels; cable media; the order of ports. Rooms and annotations change by
  replacements only, as in the code.
- In `Directory`: roles, disabled accounts and Entra bindings, which change under
  the same lock and in the same save as grants.
- In `Collaboration`: the page's dialogs and forms, and events that the broker drops for
  a full channel (they are the gaps that `OnEvent` handles; a dropped last event is
  noticed only by the next one).
- In `Gestures`: drags of racks and rooms, devices of several units, cabling gestures,
  the expiry of the editor lock, autosave and the undo history. A rack drag stores
  through the same queue with the same comparison.
- In `Workspace`: a manual save of a map without changes (`autosave.js:62`); an event
  received between two writes of the queue, where `onTopology` waits only for those queued
  before it (`app.js:164`); the cabling mode of the editor lock, several tabs on one map,
  undo, reloading. The latter three are in `Collaboration`.
- In `EventStreams`: how much of an event reaches a client that goes away.
- In `SignIn`: the moment between opening a session and the end of the one that the
  request's cookie names (`handler/auth.go:464`), which nothing here can tell apart;
  passwords that change, an authenticator that is reset, the first
  administrator, and Entra, whose tokens come from an external provider.
- Migrations and the advisory lock of the single instance: their state is in the
  migration library and in PostgreSQL. What a start does to organizations, accounts and
  photos is in `Directory` and `Media`.
- In `Analysis`: an unconfigured port that keeps a native VLAN (`validation.go:761` does
  not look at it; here a port without a mode has none); the limits on the size of the
  answer and the warnings about the shape, media and speed of LACP and MC-LAG groups.
- Export, catalogs and faceplates, drawing and geometry:
  computations on one document or data tables, without steps that could interleave. They
  are most of the lines of `web/static/js`.
- Configuration, logging, middleware, tools: `PROJECT.json` gives the reason for each.

## What could come next

1. `Gestures` with autosave and the undo history, which `Collaboration` has: a
   cancelled drag, an undo and a queued drop on one document.
2. `Workspace` as an implementation of several instances of `Collaboration`.
3. In `Analysis`, the warnings about the shape and media of LACP and MC-LAG groups, and the
   budgets, which may cut an answer off at any entry.
