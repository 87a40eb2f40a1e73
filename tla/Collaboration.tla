---------------------------- MODULE Collaboration ----------------------------
(***************************************************************************)
(* Browsers that edit one map together (web/static/js): the local document *)
(* with its undo history, autosave, the queue that serializes writes, the  *)
(* recovery drafts, the event stream and the resynchronization it asks     *)
(* for.  The server is the atomic map of SharedMaps: a write succeeds when *)
(* it names the current revision.                                          *)
(*                                                                         *)
(* A document is the set of edits in it; log[n] is revision n, so that a   *)
(* snapshot on its way through the network is its revision.  A browser     *)
(* runs one event at a time and all its microtasks before the next one.    *)
(***************************************************************************)
EXTENDS Naturals, Sequences, FiniteSets

CONSTANTS
    Clients,       \* browser tabs on the map
    Edits,         \* every edit happens at most once
    Owner,         \* the client that makes an edit
    NoEdit,        \* the edit of a job that makes none
    Ways,          \* how edits are made: "commit", "patch", "direct"
    Clicks,        \* what else users do: "undo", "redo", "save"
    Losses,        \* what may be lost: "write", "read", "stream", "page"
    HistoryLimit,  \* the longest undo history
    MaxClicks,     \* bound: undo, redo and manual saves
    MaxLosses,     \* bound: losses
    MaxActs        \* bound: edits, clicks and losses together

ASSUME OwnerAssumption == Owner \in [Edits -> Clients]
ASSUME WaysAssumption ==
    /\ Ways \subseteq {"commit", "patch", "direct"}
    /\ Clicks \subseteq {"undo", "redo", "save"}
    /\ Losses \subseteq {"write", "read", "stream", "page"}
ASSUME LimitAssumption ==
    HistoryLimit \in Nat \ {0} /\ {MaxClicks, MaxLosses, MaxActs} \subseteq Nat

VARIABLES
    log,          \* the server's document at each revision
    unpublished,  \* revisions whose event has not been published yet
    late,         \* writes that each client gave up on, still on their way
    doc,          \* state.topology
    rev,          \* state.topology.revision
    history,      \* state.history
    future,       \* state.future
    dirty,        \* autosave.isDirty
    touched,      \* autosave.version moved since the running save captured it
    draft,        \* the pending entry of drafts: none, or one document
    recovered,    \* the displaced entries of drafts
    jobs,         \* topologyWrites, and the callbacks that wait for its tail
    req,          \* the request of the job at its head
    direct,       \* a request sent past the queue
    resync,       \* resyncPromise, and the revision it was answered with
    stream,       \* the event stream of each client
    channel,      \* revisions published on it and not received yet
    seen,         \* events.revision
    made,         \* edits made so far
    committed,    \* those made by state.commit, and not undone since
    strayed,      \* for the properties: why what a client shows, or a write it has
                  \* sent, may lack work of the revision it names
    clicks, losses

serverVars == <<log, unpublished>>
viewVars   == <<doc, rev, history, future>>
draftVars  == <<draft, recovered>>
netVars    == <<stream, channel, seen>>
userVars   == <<made, committed, strayed>>
vars == <<serverVars, late, viewVars, dirty, touched, draftVars, jobs, req, direct, resync,
          netVars, userVars, clicks, losses>>

Docs == SUBSET Edits

NoRequest == [stage |-> "idle", base |-> 0, body |-> {}, rev |-> 0]

Jobs == [kind : {"save", "patch", "undo", "redo", "receive", "resync"},
         edit : Edits \cup {NoEdit}, rev : Nat]

Requests == [stage : {"idle", "sent", "done", "conflict", "failed", "asking", "fetched"},
             base : Nat, body : Docs, rev : Nat]

Init ==
    /\ log = <<{}>> /\ unpublished = {}
    /\ late = [c \in Clients |-> {}]
    /\ doc = [c \in Clients |-> {}]
    /\ rev = [c \in Clients |-> 1]
    /\ history = [c \in Clients |-> <<>>]
    /\ future = [c \in Clients |-> <<>>]
    /\ dirty = [c \in Clients |-> FALSE]
    /\ touched = [c \in Clients |-> FALSE]
    /\ draft = [c \in Clients |-> {}]
    /\ recovered = [c \in Clients |-> {}]
    /\ jobs = [c \in Clients |-> <<>>]
    /\ req = [c \in Clients |-> NoRequest]
    /\ direct = [c \in Clients |-> NoRequest]
    /\ resync = [c \in Clients |-> [stage |-> "none", rev |-> 0]]
    /\ stream = [c \in Clients |-> "open"]
    /\ channel = [c \in Clients |-> <<>>]
    /\ seen = [c \in Clients |-> 1]
    /\ made = {} /\ committed = {}
    /\ strayed = [c \in Clients |-> {}]
    /\ clicks = 0 /\ losses = 0

-----------------------------------------------------------------------------
(* One browser.                                                             *)

\* The bounds leave another act.
Room == Cardinality(made) + clicks + losses < MaxActs

Job(kind, e, r) == [kind |-> kind, edit |-> e, rev |-> r]

\* setTimeout, network and input events wait for the microtasks of the last
\* one: callbacks at the head of the queue run, and so does the next write.
Ready(c) ==
    jobs[c] # <<>> => Head(jobs[c]).kind \notin {"receive", "resync"} /\ req[c].stage # "idle"

Running(c, kinds, stage) ==
    jobs[c] # <<>> /\ Head(jobs[c]).kind \in kinds /\ req[c].stage = stage

\* The last HistoryLimit documents: slice(-50).
Remembered(h, d) ==
    LET longer == Append(h, d) IN
    IF Len(longer) > HistoryLimit THEN Tail(longer) ELSE longer

\* state.commit, or setTopology with remember.
Remember(c) ==
    /\ history' = [history EXCEPT ![c] = Remembered(@, doc[c])]
    /\ future' = [future EXCEPT ![c] = <<>>]

Acknowledged(c, body) == draft[c] \ {body}

\* DraftRecovery.accept: a pending draft whose content has not arrived is kept.
Displaced(c, r, d) == recovered[c] \cup (d \ {log[r]})

\* applyTopology, after the pending draft has become d.  An accepted draft is
\* displaced unless its content has arrived; either way the map counts as saved.
ApplyTopology(c, r, d, remember, saved) ==
    /\ recovered' = [recovered EXCEPT ![c] = Displaced(c, r, d)]
    /\ draft' = [draft EXCEPT ![c] = {}]
    /\ doc' = [doc EXCEPT ![c] = log[r]]
    /\ rev' = [rev EXCEPT ![c] = r]
    /\ dirty' = [dirty EXCEPT ![c] = @ /\ d = {} /\ ~saved]
    /\ IF remember THEN Remember(c) ELSE UNCHANGED <<history, future>>

\* What c shows is the revision it names again, and no write of its that could
\* lack some of it is on its way.
Settle(c) ==
    strayed' = [strayed EXCEPT ![c] =
        IF doc'[c] = log[rev'[c]] /\ direct[c].stage # "sent" /\ late[c] = {} THEN {} ELSE @]

\* variant: an older snapshot is applied as well
OlderNever(c, r) == FALSE

Older(c, r) == r < rev[c]

Kept(c, r, d) == r = rev[c] /\ d # {}

\* receiveTopology.  "current" tells whether the submitted version is still
\* the one on screen; "saved" whether the caller marks the map saved after it.
ReceiveTopology(c, r, d, current, remember, saved) ==
    \/ /\ Older(c, r)
       /\ draft' = [draft EXCEPT ![c] = d]
       /\ dirty' = [dirty EXCEPT ![c] = @ /\ ~saved]
       /\ UNCHANGED <<viewVars, recovered>>
    \/ /\ ~Older(c, r) /\ ~current
       /\ rev' = [rev EXCEPT ![c] = r]
       /\ draft' = [draft EXCEPT ![c] = {doc[c]}]
       /\ UNCHANGED <<doc, history, future, recovered, dirty>>
    \/ /\ ~Older(c, r) /\ current /\ Kept(c, r, d)
       /\ draft' = [draft EXCEPT ![c] = d]
       /\ dirty' = [dirty EXCEPT ![c] = @ /\ ~saved]
       /\ UNCHANGED <<viewVars, recovered>>
    \/ /\ ~Older(c, r) /\ current /\ ~Kept(c, r, d)
       /\ ApplyTopology(c, r, d, remember, saved)

\* An edit of the document on screen: commit, then markDirty with its capture.
Commit(c, e) ==
    /\ "commit" \in Ways /\ Ready(c)
    /\ e \notin made /\ Owner[e] = c /\ Room
    /\ made' = made \cup {e} /\ committed' = committed \cup {e}
    /\ doc' = [doc EXCEPT ![c] = @ \cup {e}]
    /\ draft' = [draft EXCEPT ![c] = {doc[c] \cup {e}}]
    /\ dirty' = [dirty EXCEPT ![c] = TRUE]
    /\ touched' = [touched EXCEPT ![c] = TRUE]
    /\ Remember(c)
    /\ UNCHANGED <<serverVars, late, rev, recovered, jobs, req, direct, resync, netVars,
                   strayed, clicks, losses>>

Enqueue(c, job) == jobs' = [jobs EXCEPT ![c] = Append(@, job)]

\* updateFrom with an operation of the server: devices, links, VLANs, ...
Patch(c, e) ==
    /\ "patch" \in Ways /\ Ready(c)
    /\ e \notin made /\ Owner[e] = c /\ Room
    /\ made' = made \cup {e}
    /\ Enqueue(c, Job("patch", e, 0))
    /\ UNCHANGED <<serverVars, late, viewVars, dirty, touched, draftVars, req, direct, resync,
                   netVars, committed, strayed, clicks, losses>>

Undo(c, kind) ==
    /\ kind \in Clicks \cap {"undo", "redo"} /\ Ready(c)
    /\ clicks < MaxClicks /\ Room /\ clicks' = clicks + 1
    /\ Enqueue(c, Job(kind, NoEdit, 0))
    /\ UNCHANGED <<serverVars, late, viewVars, dirty, touched, draftVars, req, direct, resync,
                   netVars, userVars, losses>>

\* flush: the timer saves a dirty map, the user any; both give way to a write
\* that is pending.
StartSave(c) ==
    /\ Ready(c) /\ jobs[c] = <<>>
    /\ Enqueue(c, Job("save", NoEdit, 0))
    /\ touched' = [touched EXCEPT ![c] = FALSE]
    /\ UNCHANGED <<serverVars, late, viewVars, dirty, draftVars, req, direct, resync, netVars,
                   userVars, losses>>

Flush(c) == dirty[c] /\ StartSave(c) /\ UNCHANGED clicks

SaveNow(c) ==
    /\ "save" \in Clicks
    /\ clicks < MaxClicks /\ Room /\ clicks' = clicks + 1
    /\ StartSave(c)

Send(c, body) == req' = [req EXCEPT ![c] = [stage |-> "sent", base |-> rev[c], body |-> body, rev |-> 0]]

StartOver(c) ==
    /\ jobs' = [jobs EXCEPT ![c] = Tail(@)]
    /\ req' = [req EXCEPT ![c] = NoRequest]

\* variant: the map counts as saved once its save has been sent
BeginSaveEarly(c) ==
    /\ Running(c, {"save"}, "idle")
    /\ Send(c, doc[c])
    /\ dirty' = [dirty EXCEPT ![c] = FALSE]
    /\ UNCHANGED <<viewVars, touched, draft, jobs, committed, strayed>>

\* The write at the head of the queue starts.
BeginSave(c) ==
    /\ Running(c, {"save"}, "idle")
    /\ Send(c, doc[c])
    /\ UNCHANGED <<viewVars, dirty, touched, draft, jobs, committed, strayed>>

\* The server applies the operation to the revision it names: its document
\* there, and not the one on screen, gets the edit.
BeginPatch(c) ==
    /\ Running(c, {"patch"}, "idle")
    /\ Send(c, log[rev[c]] \cup {Head(jobs[c]).edit})
    /\ dirty' = [dirty EXCEPT ![c] = TRUE]
    /\ touched' = [touched EXCEPT ![c] = TRUE]
    /\ UNCHANGED <<viewVars, draft, jobs, committed, strayed>>

Restore(c, from, to) ==
    LET restored == from[c][Len(from[c])] IN
    /\ doc' = [doc EXCEPT ![c] = restored]
    /\ from' = [from EXCEPT ![c] = SubSeq(@, 1, Len(@) - 1)]
    /\ to' = [to EXCEPT ![c] = Append(@, doc[c])]
    /\ draft' = [draft EXCEPT ![c] = {restored}]
    /\ dirty' = [dirty EXCEPT ![c] = TRUE]
    /\ touched' = [touched EXCEPT ![c] = TRUE]
    /\ Send(c, restored)
    /\ committed' = {e \in committed : Owner[e] = c => e \in restored}
    /\ strayed' = [strayed EXCEPT ![c] = @ \cup {"undo"}]
    /\ UNCHANGED <<rev, jobs>>

\* state.undo and state.redo restore a whole document under the revision on
\* screen; without one to restore the job ends.
BeginUndo(c) ==
    \/ Running(c, {"undo"}, "idle") /\ history[c] # <<>> /\ Restore(c, history, future)
    \/ Running(c, {"redo"}, "idle") /\ future[c] # <<>> /\ Restore(c, future, history)
    \/ /\ \/ Running(c, {"undo"}, "idle") /\ history[c] = <<>>
          \/ Running(c, {"redo"}, "idle") /\ future[c] = <<>>
       /\ StartOver(c)
       /\ UNCHANGED <<viewVars, dirty, touched, draft, committed, strayed>>

Begin(c) ==
    /\ BeginSave(c) \/ BeginPatch(c) \/ BeginUndo(c)
    /\ UNCHANGED <<serverVars, late, recovered, direct, resync, netVars, made, clicks, losses>>

-----------------------------------------------------------------------------
(* The server and the network.                                              *)

\* variant: the revision a write names is not compared
CurrentAnyway(base) == TRUE

Current(base) == base = Len(log)

Save(body) ==
    /\ log' = Append(log, body)
    /\ unpublished' = unpublished \cup {Len(log) + 1}

\* A request is answered with the new revision or refused.
Answer(q) ==
    /\ q.stage = "sent"
    /\ IF Current(q.base) THEN Save(q.body) ELSE UNCHANGED serverVars

Answered(q) ==
    [q EXCEPT !.stage = IF Current(q.base) THEN "done" ELSE "conflict",
              !.rev = IF Current(q.base) THEN Len(log) + 1 ELSE 0]

Serve(c) ==
    /\ Answer(req[c])
    /\ req' = [req EXCEPT ![c] = Answered(@)]
    /\ UNCHANGED <<late, viewVars, dirty, touched, draftVars, jobs, direct, resync, netVars,
                   userVars, clicks, losses>>

ServeDirect(c) ==
    /\ Answer(direct[c])
    /\ direct' = [direct EXCEPT ![c] = Answered(@)]
    /\ UNCHANGED <<late, viewVars, dirty, touched, draftVars, jobs, req, resync, netVars,
                   userVars, clicks, losses>>

\* A write its browser no longer waits for may still take effect.
ServeLate(c, q) ==
    /\ Answer(q)
    /\ late' = [late EXCEPT ![c] = @ \ {q}]
    /\ UNCHANGED <<viewVars, dirty, touched, draftVars, jobs, req, direct, resync, netVars,
                   userVars, clicks, losses>>

Abandoned(q) == IF q.stage = "sent" THEN {q} ELSE {}

Lose(kind) == kind \in Losses /\ losses < MaxLosses /\ Room /\ losses' = losses + 1

\* The request or its answer is lost, or the browser stops waiting.
Fail(c) ==
    /\ Lose("write")
    /\ req[c].stage \in {"sent", "done", "conflict"}
    /\ late' = [late EXCEPT ![c] = @ \cup Abandoned(req[c])]
    /\ req' = [req EXCEPT ![c].stage = "failed"]
    /\ UNCHANGED <<serverVars, viewVars, dirty, touched, draftVars, jobs, direct, resync,
                   netVars, userVars, clicks>>

\* A GET reads the map some time before its answer arrives.
ServeGet(c) ==
    /\ req[c].stage = "asking"
    /\ req' = [req EXCEPT ![c].stage = "fetched", ![c].rev = Len(log)]
    /\ UNCHANGED <<serverVars, late, viewVars, dirty, touched, draftVars, jobs, direct, resync,
                   netVars, userVars, clicks, losses>>

ServeResync(c) ==
    /\ resync[c].stage = "asked"
    /\ resync' = [resync EXCEPT ![c] = [stage |-> "answered", rev |-> Len(log)]]
    /\ UNCHANGED <<serverVars, late, viewVars, dirty, touched, draftVars, jobs, req, direct,
                   netVars, userVars, clicks, losses>>

\* Handlers publish outside the transaction, in any order.
Publish(r) ==
    /\ r \in unpublished
    /\ unpublished' = unpublished \ {r}
    /\ channel' = [c \in Clients |->
                      IF stream[c] = "offline" THEN channel[c] ELSE Append(channel[c], r)]
    /\ UNCHANGED <<log, late, viewVars, dirty, touched, draftVars, jobs, req, direct, resync,
                   stream, seen, userVars, clicks, losses>>

-----------------------------------------------------------------------------
(* Answers.                                                                 *)

Finish(c, d, current, remember, saved) ==
    /\ ReceiveTopology(c, req[c].rev, d, current, remember, saved)
    /\ Settle(c)
    /\ StartOver(c)
    /\ UNCHANGED <<serverVars, late, touched, direct, resync, netVars, made, committed, clicks,
                   losses>>

\* A write succeeded.  The guard of api.js acknowledges the submitted document
\* first; a save counts only for the version it submitted.
Saved(c) ==
    /\ Running(c, {"save"}, "done")
    /\ Finish(c, Acknowledged(c, req[c].body), ~touched[c], FALSE, ~touched[c])

\* variant: an operation counts only for the version it found, as a save does
PatchedAsSave(c) ==
    /\ Running(c, {"patch"}, "done")
    /\ Finish(c, draft[c], ~touched[c], TRUE, ~touched[c])

Patched(c) ==
    /\ Running(c, {"patch"}, "done")
    /\ Finish(c, draft[c], TRUE, TRUE, TRUE)

Undone(c) ==
    /\ Running(c, {"undo", "redo"}, "done")
    /\ Finish(c, Acknowledged(c, req[c].body), TRUE, FALSE, TRUE)

\* A write failed: the map is read again, except after a save without a conflict.
Reread(c) ==
    /\ \/ Running(c, {"save", "patch", "undo", "redo"}, "conflict")
       \/ Running(c, {"patch", "undo", "redo"}, "failed")
    /\ req' = [req EXCEPT ![c].stage = "asking"]
    /\ UNCHANGED <<serverVars, late, viewVars, dirty, touched, draftVars, jobs, direct, resync,
                   netVars, userVars, clicks, losses>>

Fetched(c) ==
    /\ Running(c, {"save", "patch", "undo", "redo"}, "fetched")
    /\ Finish(c, draft[c], TRUE, FALSE, FALSE)

\* A save that failed, or the reading after a failed write, leaves all as it is.
GiveUp(c) ==
    /\ \/ Running(c, {"save"}, "failed") /\ UNCHANGED losses
       \/ Running(c, {"save", "patch", "undo", "redo"}, "asking") /\ Lose("read")
       \/ Running(c, {"save", "patch", "undo", "redo"}, "fetched") /\ Lose("read")
    /\ StartOver(c)
    /\ UNCHANGED <<serverVars, late, viewVars, dirty, touched, draftVars, direct, resync,
                   netVars, userVars, clicks>>

\* Comments, documentation links, photos and link groups are written past the
\* queue; the details of the map go with the document on screen.
SendDirect(c, e) ==
    /\ "direct" \in Ways /\ Ready(c)
    /\ e \notin made /\ Owner[e] = c /\ Room
    /\ direct[c].stage = "idle"
    /\ made' = made \cup {e}
    /\ \E body \in {log[rev[c]] \cup {e}, doc[c] \cup {e}} :
          direct' = [direct EXCEPT ![c] =
                        [stage |-> "sent", base |-> rev[c], body |-> body, rev |-> 0]]
    /\ UNCHANGED <<serverVars, late, viewVars, dirty, touched, draftVars, jobs, req, resync,
                   netVars, committed, strayed, clicks, losses>>

\* The answer comes after its revision, under a write that started from there.
Overtaken(c) == direct[c].rev <= rev[c] /\ req[c].stage \in {"sent", "done"}

\* The answer goes to applyTopology, whatever has arrived since; only photos
\* and map details mark the map saved as well.
DirectDone(c) ==
    /\ Ready(c) /\ direct[c].stage = "done"
    /\ \E saved \in BOOLEAN :
          ApplyTopology(c, direct[c].rev, Acknowledged(c, direct[c].body), FALSE, saved)
    /\ direct' = [direct EXCEPT ![c] = NoRequest]
    /\ strayed' = [strayed EXCEPT ![c] = IF Overtaken(c) THEN @ \cup {"overtaken"} ELSE @]
    /\ UNCHANGED <<serverVars, late, touched, jobs, req, resync, netVars, made, committed, clicks,
                   losses>>

DirectRefused(c) ==
    /\ Ready(c)
    /\ \/ direct[c].stage = "conflict" /\ UNCHANGED <<late, losses>>
       \/ /\ direct[c].stage \in {"sent", "done"} /\ Lose("write")
          /\ late' = [late EXCEPT ![c] = @ \cup Abandoned(direct[c])]
    /\ direct' = [direct EXCEPT ![c] = NoRequest]
    /\ UNCHANGED <<serverVars, viewVars, dirty, touched, draftVars, jobs, req, resync, netVars,
                   userVars, clicks>>

-----------------------------------------------------------------------------
(* The event stream.                                                        *)

\* variant: a stream that opens trusts the map it has
AskedNever(c) == resync

\* resyncActiveTopology: an outstanding GET is reused.
Asked(c) ==
    [resync EXCEPT ![c] = IF @.stage = "none" THEN [stage |-> "asked", rev |-> 0] ELSE @]

\* The server subscribes the stream, ...
Connect(c) ==
    /\ stream[c] = "offline"
    /\ stream' = [stream EXCEPT ![c] = "connected"]
    /\ UNCHANGED <<serverVars, late, viewVars, dirty, touched, draftVars, jobs, req, direct,
                   resync, channel, seen, userVars, clicks, losses>>

\* ... and its browser learns that it is open.
OnOpen(c) ==
    /\ Ready(c) /\ stream[c] = "connected"
    /\ stream' = [stream EXCEPT ![c] = "open"]
    /\ resync' = Asked(c)
    /\ UNCHANGED <<serverVars, late, viewVars, dirty, touched, draftVars, jobs, req, direct,
                   channel, seen, userVars, clicks, losses>>

Break(c) ==
    /\ Lose("stream") /\ stream[c] # "offline"
    /\ stream' = [stream EXCEPT ![c] = "offline"]
    /\ channel' = [channel EXCEPT ![c] = <<>>]
    /\ UNCHANGED <<serverVars, late, viewVars, dirty, touched, draftVars, jobs, req, direct,
                   resync, seen, userVars, clicks>>

\* TopologyCollaboration.receive: an event seen before is ignored, a gap asks
\* for the map, and the topology waits for the writes that are pending.
OnEvent(c) ==
    /\ Ready(c) /\ stream[c] = "open" /\ channel[c] # <<>>
    /\ channel' = [channel EXCEPT ![c] = Tail(@)]
    /\ LET r == Head(channel[c]) IN
       \/ /\ r <= seen[c]
          /\ UNCHANGED <<seen, resync, jobs>>
       \/ /\ r > seen[c]
          /\ seen' = [seen EXCEPT ![c] = r]
          /\ resync' = IF r > seen[c] + 1 THEN Asked(c) ELSE resync
          /\ Enqueue(c, Job("receive", NoEdit, r))
    /\ UNCHANGED <<serverVars, late, viewVars, dirty, touched, draftVars, req, direct, stream,
                   userVars, clicks, losses>>

\* The answer of a resynchronization waits for the writes that are pending.
OnResync(c) ==
    /\ Ready(c) /\ resync[c].stage = "answered"
    /\ Enqueue(c, Job("resync", NoEdit, resync[c].rev))
    /\ resync' = [resync EXCEPT ![c].stage = "waiting"]
    /\ UNCHANGED <<serverVars, late, viewVars, dirty, touched, draftVars, req, direct, netVars,
                   userVars, clicks, losses>>

ResyncFails(c) ==
    /\ Lose("read") /\ resync[c].stage \in {"asked", "answered"}
    /\ resync' = [resync EXCEPT ![c] = [stage |-> "none", rev |-> 0]]
    /\ UNCHANGED <<serverVars, late, viewVars, dirty, touched, draftVars, jobs, req, direct,
                   netVars, userVars, clicks>>

\* What waited for the writes reaches the head of the queue.
Receive(c) ==
    /\ Running(c, {"receive", "resync"}, "idle")
    /\ ReceiveTopology(c, Head(jobs[c]).rev, draft[c], TRUE, FALSE, FALSE)
    /\ jobs' = [jobs EXCEPT ![c] = Tail(@)]
    /\ resync' = IF Head(jobs[c]).kind = "resync"
                 THEN [resync EXCEPT ![c] = [stage |-> "none", rev |-> 0]] ELSE resync
    /\ Settle(c)
    /\ UNCHANGED <<serverVars, late, touched, req, direct, netVars, made, committed, clicks,
                   losses>>

\* variant: the pending draft is not in the storage of the tab
DraftForgotten(c) == recovered[c]

\* DraftRecovery's constructor offers what was pending.
Stored(c) == recovered[c] \cup draft[c]

\* The page is loaded again: only the drafts, in session storage, survive.
Reload(c) ==
    /\ Lose("page")
    /\ recovered' = [recovered EXCEPT ![c] = Stored(c)]
    /\ draft' = [draft EXCEPT ![c] = {}]
    /\ late' = [late EXCEPT ![c] = @ \cup Abandoned(req[c]) \cup Abandoned(direct[c])]
    /\ strayed' = [strayed EXCEPT ![c] = IF late'[c] = {} THEN {} ELSE @]
    /\ doc' = [doc EXCEPT ![c] = log[Len(log)]]
    /\ rev' = [rev EXCEPT ![c] = Len(log)]
    /\ seen' = [seen EXCEPT ![c] = Len(log)]
    /\ history' = [history EXCEPT ![c] = <<>>]
    /\ future' = [future EXCEPT ![c] = <<>>]
    /\ dirty' = [dirty EXCEPT ![c] = FALSE]
    /\ touched' = [touched EXCEPT ![c] = FALSE]
    /\ jobs' = [jobs EXCEPT ![c] = <<>>]
    /\ req' = [req EXCEPT ![c] = NoRequest]
    /\ direct' = [direct EXCEPT ![c] = NoRequest]
    /\ resync' = [resync EXCEPT ![c] = [stage |-> "none", rev |-> 0]]
    /\ stream' = [stream EXCEPT ![c] = "offline"]
    /\ channel' = [channel EXCEPT ![c] = <<>>]
    /\ UNCHANGED <<serverVars, made, committed, clicks>>

-----------------------------------------------------------------------------

User(c) ==
    \/ \E e \in Edits : Commit(c, e) \/ Patch(c, e) \/ SendDirect(c, e)
    \/ \E kind \in Clicks : Undo(c, kind)
    \/ SaveNow(c)

Browser(c) ==
    \/ Begin(c) \/ Saved(c) \/ Patched(c) \/ Undone(c) \/ Reread(c) \/ Fetched(c)
    \/ DirectDone(c) \/ DirectRefused(c) \/ OnOpen(c) \/ OnEvent(c) \/ OnResync(c) \/ Receive(c)
    \/ GiveUp(c)

Server ==
    \/ \E c \in Clients : Serve(c) \/ ServeDirect(c) \/ ServeGet(c) \/ ServeResync(c) \/ Connect(c)
    \/ \E r \in unpublished : Publish(r)

Loss ==
    \/ \E c \in Clients : Fail(c) \/ Break(c) \/ ResyncFails(c) \/ Reload(c)
    \/ \E c \in Clients : \E q \in late[c] : ServeLate(c, q)

Next == (\E c \in Clients : User(c) \/ Flush(c) \/ Browser(c)) \/ Server \/ Loss

Spec == Init /\ [][Next]_vars

\* Timers fire, the network answers and browsers run their events; users and
\* losses owe nothing.
CollaborationFairness ==
    /\ WF_vars(Server)
    /\ \A c \in Clients : WF_vars(Flush(c)) /\ WF_vars(Browser(c))

FairSpec == Spec /\ CollaborationFairness

-----------------------------------------------------------------------------
(* Properties.                                                              *)

\* The types of the variables.
TypeOK ==
    /\ log \in Seq(Docs) /\ unpublished \subseteq 1..Len(log) /\ late \in [Clients -> SUBSET Requests]
    /\ doc \in [Clients -> Docs]
    /\ rev \in [Clients -> 1..Len(log)]
    /\ history \in [Clients -> Seq(Docs)] /\ future \in [Clients -> Seq(Docs)]
    /\ dirty \in [Clients -> BOOLEAN] /\ touched \in [Clients -> BOOLEAN]
    /\ draft \in [Clients -> SUBSET Docs]
    /\ recovered \in [Clients -> SUBSET Docs]
    /\ jobs \in [Clients -> Seq(Jobs)]
    /\ req \in [Clients -> Requests] /\ direct \in [Clients -> Requests]
    /\ resync \in [Clients -> [stage : {"none", "asked", "answered", "waiting"}, rev : Nat]]
    /\ stream \in [Clients -> {"offline", "connected", "open"}]
    /\ channel \in [Clients -> Seq(1..Len(log))]
    /\ seen \in [Clients -> 1..Len(log)]
    /\ made \subseteq Edits /\ committed \subseteq made
    /\ strayed \in [Clients -> SUBSET {"undo", "overtaken"}]
    /\ clicks \in 0..MaxClicks /\ losses \in 0..MaxLosses

Persisted == UNION {log[n] : n \in 1..Len(log)}

\* "Completed local edits also receive a recovery snapshot ... If a server update
\* replaces those edits, or you reload before saving, the save menu shows
\* Recovery": an edit on screen is saved, offered for recovery, or in the draft
\* of a map that still counts as unsaved.
NoEditLost ==
    \A e \in committed :
        LET c == Owner[e] IN
        \/ e \in Persisted
        \/ e \in UNION recovered[c]
        \/ dirty[c] /\ e \in UNION draft[c]

Answering(c) == req'[c] # req[c] \/ direct'[c] # direct[c] \/ late'[c] # late[c]

\* "A displaced draft is never replayed over shared work": no write removes an
\* edit of the revision before it, other than one of a client that strayed.
WorkKept ==
    [][log' # log /\ ~(log[Len(log)] \subseteq log'[Len(log')]) =>
          \E c \in Clients : Answering(c) /\ strayed[c] # {}]_vars

\* What a client shows contains the revision it names, so that the server's
\* comparison of revisions protects everything the client has not seen.
BaseKept == \A c \in Clients : strayed[c] = {} => log[rev[c]] \subseteq doc[c]

\* A map that counts as saved shows the revision it names.
CleanIsShared ==
    \A c \in Clients : ~dirty[c] /\ "overtaken" \notin strayed[c] => doc[c] = log[rev[c]]

AtRest(c) ==
    /\ stream[c] = "open" /\ channel[c] = <<>> /\ unpublished = {}
    /\ jobs[c] = <<>> /\ resync[c].stage = "none" /\ direct[c].stage = "idle"

\* A client that is online, and has nothing left to receive, shows the latest
\* revision: "concurrent editors reject stale writes and resync after reconnect",
\* "collaboration applies fresh snapshots and ignores stale echoes".
CurrentAtRest == \A c \in Clients : AtRest(c) => rev[c] = Len(log)

\* Once users rest, every unsaved map is saved, or displaced into a recovery copy,
\* and everyone shows the same map, in the end.
Converges == <>[](\A c \in Clients : ~dirty[c] /\ rev[c] = Len(log) /\ doc[c] = log[rev[c]])
=============================================================================
