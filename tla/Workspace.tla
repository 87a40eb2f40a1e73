------------------------------ MODULE Workspace -------------------------------
(***************************************************************************)
(* One tab and the maps it opens one after the other (web/static/js/app.js,*)
(* autosave.js, draft-recovery.js, save-recovery-ui.js).  Whoever leaves a *)
(* map waits for its writes and is asked about what is not saved; the next *)
(* map is read while the old one is still on screen and can be edited, and *)
(* what the tab asked for before may be answered after another map came.   *)
(*                                                                         *)
(* Which map comes next (the remembered one, the first in a scope) is any; *)
(* several tabs on one map, undo and reloading are Collaboration's.        *)
(***************************************************************************)
EXTENDS Naturals, Sequences, SequencesExt

CONSTANTS
    Maps, Existing,   \* identities of maps; those that exist at the start
    None,             \* no map
    MaxEdits,         \* bound: edits made, in the tab or by the server
    MaxMoves,         \* bound: maps opened, scopes chosen, maps created and deleted
    MaxMishaps,       \* bound: requests that fail, or whose answer is lost
    MaxActs           \* bound: edits, moves and mishaps together

ASSUME WorkspaceAssumption ==
    /\ Existing \subseteq Maps /\ Existing # {} /\ None \notin Maps
    /\ {MaxEdits, MaxMoves, MaxMishaps, MaxActs} \subseteq Nat

VARIABLES
    server,      \* the maps of the server: whether they exist, revision, content
    shown,       \* state.topology
    dirty,       \* autosave.isDirty
    unlocked,    \* editLock.mode is "all"
    drafts,      \* pending entries of DraftRecovery: the content of each map's, if any
    copies,      \* its other entries, the recovery copies
    queue,       \* topologyWrites: its jobs, of which the first is running
    direct,      \* a write outside the queue, under way
    news,        \* a map that was published or read again, not received yet
    tasks,       \* what the tab does about each move
    stream,      \* events.topologyID
    remembered,  \* the map in localStorage
    made,        \* history: edits made on screen, as <<map, number>>
    discarded,   \* history: edits not stored that their user gave up
    astray,      \* history: the map on screen is not the one opened last
    rewound,     \* history: maps that came on screen without edits of their running save
    left         \* what the bounds leave

page == <<shown, dirty, unlocked, drafts, copies>>
sent == <<queue, direct, news>>
place == <<stream, remembered>>
history == <<made, discarded, astray, rewound>>
vars == <<server, page, sent, tasks, place, history, left>>

Documents == [map : Maps \cup {None}, rev : Nat, edits : SUBSET Nat]
Stages == {"tail", "ask", "saving", "left", "get", "got", "act", "acted", "done"}

Version(m, rev, edits) == [map |-> m, rev |-> rev, edits |-> edits]
Nothing == Version(None, 0, {})
Document(m) == Version(m, server[m].rev, server[m].edits)
Live == {m \in Maps : server[m].live}

Job(kind, stage, edit, asked) ==
    [kind |-> kind, stage |-> stage, map |-> shown.map, edit |-> edit, asked |-> asked,
     body |-> shown, doc |-> Nothing, fresh |-> TRUE]

Idle == [stage |-> "idle", edit |-> 0, saves |-> FALSE, doc |-> Nothing]

Task(kind, to, stage) == [kind |-> kind, to |-> to, stage |-> stage, wait |-> 0, copies |-> 0, doc |-> Nothing]
Done == Task("none", None, "done")

\* initialize opens a map; task 0 is its loading.
Init ==
    /\ server = [m \in Maps |-> [live |-> m \in Existing, rev |-> IF m \in Existing THEN 1 ELSE 0, edits |-> {}]]
    /\ shown = Nothing /\ dirty = FALSE /\ unlocked = FALSE
    /\ drafts = [m \in Maps \cup {None} |-> {}] /\ copies = <<>>
    /\ queue = <<>> /\ direct = Idle /\ news = Nothing
    /\ \E m \in Existing : tasks = [i \in 0..MaxMoves |-> IF i = 0 THEN Task("open", m, "get") ELSE Done]
    /\ stream = None /\ remembered = None
    /\ made = {} /\ discarded = {} /\ astray = FALSE /\ rewound = {}
    /\ left = [edits |-> MaxEdits, moves |-> MaxMoves, mishaps |-> MaxMishaps, acts |-> MaxActs]

Calm == UNCHANGED left
Count(field) == left[field] > 0 /\ left.acts > 0 /\ left' = [left EXCEPT ![field] = @ - 1, !.acts = @ - 1]
Mishap == Count("mishaps")
Edit == MaxEdits - left.edits + 1

-----------------------------------------------------------------------------
(* Drafts and documents.                                                    *)

HasPending(entries, m) == entries[m] # {}
Recoveries(entries) == Len(entries)
CopiedOf(entries, m) == UNION {entries[i].edits : i \in {j \in DOMAIN entries : entries[j].map = m}}

\* DraftRecovery.capture: the pending entry of the map, or a new one.
Captured(entries, doc) == [entries EXCEPT ![doc.map] = {doc.edits}]

\* DraftRecovery.acknowledge: what was submitted is stored.
Acknowledged(doc) == [drafts EXCEPT ![doc.map] = @ \ {doc.edits}]

\* DraftRecovery.discardPending.
WithoutPending(m) == [drafts EXCEPT ![m] = {}]

\* Mutant: a map that arrives replaces the pending draft.
CopiedNever(entries, doc) == copies

\* DraftRecovery.accept: a pending draft of another content becomes a recovery copy.
Accepted(entries, doc) == [entries EXCEPT ![doc.map] = {}]
Copied(entries, doc) ==
    IF entries[doc.map] \subseteq {doc.edits} THEN copies
    ELSE Append(copies, [map |-> doc.map, edits |-> UNION entries[doc.map]])

\* applyTopology, and setTopology; saved: markSaved follows.
Apply(entries, doc, saved) ==
    /\ drafts' = Accepted(entries, doc) /\ copies' = Copied(entries, doc)
    /\ shown' = doc
    /\ unlocked' = (unlocked /\ doc.map = shown.map)
    /\ dirty' = (dirty /\ ~saved /\ ~HasPending(entries, doc.map))

\* A save of the map is under way.
Saving(m) == queue # <<>> /\ queue[1].kind = "save" /\ queue[1].stage \in {"sent", "stored"} /\ queue[1].map = m

\* Edits of m that are in a recovery copy, or were given up.
SafeIn(entries, m) == CopiedOf(entries, m) \cup {n \in 1..MaxEdits : <<m, n>> \in discarded}
Safe(m) == SafeIn(copies, m)

\* History: what comes on screen lacks edits of the save under way, which are in no
\* recovery copy.
Lacks(doc) == Saving(doc.map) /\ ~(queue[1].body.edits \subseteq doc.edits \cup SafeIn(copies', doc.map))
Rewinds(doc) == rewound' = rewound \cup {m \in {doc.map} : Lacks(doc)}

\* Mutant: the answer of any map is received.
NeverForeign(doc) == FALSE

\* The answer is about a map that is no longer on screen.
Foreign(doc) == doc.map # shown.map

\* receiveTopology, given the drafts that are left; fresh: the version on screen is
\* the submitted one.
Receive(entries, doc, fresh, saved) ==
    \/ /\ Foreign(doc) \/ doc.rev < shown.rev \/ (fresh /\ doc.rev = shown.rev /\ HasPending(entries, doc.map))
       /\ drafts' = entries /\ dirty' = (dirty /\ ~saved)
       /\ UNCHANGED <<shown, unlocked, copies>>
    \/ /\ ~Foreign(doc) /\ doc.rev >= shown.rev /\ ~fresh
       /\ drafts' = Captured(entries, shown)
       /\ shown' = Version(shown.map, doc.rev, shown.edits)
       /\ UNCHANGED <<dirty, unlocked, copies>>
    \/ /\ ~Foreign(doc) /\ doc.rev >= shown.rev /\ fresh
       /\ ~(doc.rev = shown.rev /\ HasPending(entries, doc.map))
       /\ Apply(entries, doc, saved)

-----------------------------------------------------------------------------
(* Leaving a map and opening another.                                       *)

Becomes(i, task) == tasks' = [tasks EXCEPT ![i] = task]
At(i, stage) == [tasks[i] EXCEPT !.stage = stage]

\* leavingMap
Leaving == \E i \in DOMAIN tasks : tasks[i].stage \in {"tail", "ask", "saving"}

\* The dialog of askToLeave is modal.
Free == \A i \in DOMAIN tasks : tasks[i].stage # "ask"

\* canLeaveMap begins.
Waiting(kind, to) == [Task(kind, to, "tail") EXCEPT !.wait = Len(queue)]

\* loadTopology, past its first check: the old map stays, locked and without events.
Loading(i, m) ==
    /\ Becomes(i, Task("open", m, "get"))
    /\ unlocked' = FALSE /\ stream' = None

\* loadTopology: a map on screen has to be left first.
Enter(i, m) ==
    \/ shown.map = None /\ Loading(i, m)
    \/ shown.map # None /\ Becomes(i, IF Leaving THEN Done ELSE Waiting("open", m)) /\ UNCHANGED <<unlocked, stream>>

\* clearActiveTopologyForScope
Clear == shown' = Nothing /\ unlocked' = FALSE /\ astray' = FALSE /\ stream' = None

\* A user chooses a map, a scope, a new map, or to delete the map on screen.
Choose(kind, to) ==
    LET i == MaxMoves - left.moves + 1 IN
    /\ Count("moves") /\ Free
    /\ \/ kind = "open" /\ to \in Live /\ (to = shown.map => \E j \in DOMAIN tasks : tasks[j].stage # "done") /\ ~(Leaving /\ shown.map # None) /\ Enter(i, to)
       \/ /\ kind \in {"scope", "create"} /\ ~Leaving
          /\ Becomes(i, Waiting(kind, to))
          /\ UNCHANGED <<unlocked, stream>>
       \/ /\ kind = "delete" /\ unlocked /\ to = shown.map /\ to # None
          /\ Becomes(i, [Task("delete", to, "act") EXCEPT !.doc = shown])
          /\ UNCHANGED <<unlocked, stream>>
    /\ UNCHANGED <<server, shown, dirty, drafts, copies, sent, remembered, history>>

\* canLeaveMap: the writes before it are done.
Drained(i) ==
    /\ tasks[i].stage = "tail" /\ tasks[i].wait = 0
    /\ Becomes(i, At(i, IF dirty THEN "ask" ELSE "left"))
    /\ UNCHANGED <<server, page, sent, place, history>> /\ Calm

\* canLeaveMap: the answer of the dialog.
Discard(i) ==
    /\ tasks[i].stage = "ask" /\ Becomes(i, At(i, "left"))
    /\ drafts' = WithoutPending(shown.map) /\ dirty' = FALSE
    /\ discarded' = discarded \cup
          {<<shown.map, n>> : n \in {k \in UNION drafts[shown.map] : k \notin server[shown.map].edits}}
    /\ UNCHANGED <<server, shown, unlocked, copies, sent, place, made, astray, rewound>> /\ Calm

Stay(i) ==
    /\ tasks[i].stage = "ask" /\ Becomes(i, Done)
    /\ UNCHANGED <<server, page, sent, place, history>> /\ Calm

\* saveNow: nothing is saved behind another write.
SaveFirst(i) ==
    /\ tasks[i].stage = "ask"
    /\ IF shown.map = None \/ queue # <<>>
       THEN Becomes(i, Done) /\ UNCHANGED queue
       ELSE /\ Becomes(i, [At(i, "saving") EXCEPT !.copies = Recoveries(copies)])
            /\ queue' = <<Job("save", "sent", 0, TRUE)>>
    /\ UNCHANGED <<server, page, direct, news, place, history>> /\ Calm

\* The map may be left: what was chosen goes on.
Left(i) ==
    /\ tasks[i].stage = "left"
    /\ \/ tasks[i].kind = "open" /\ Loading(i, tasks[i].to) /\ UNCHANGED <<shown, astray>>
       \/ tasks[i].kind = "create" /\ Becomes(i, At(i, "act")) /\ UNCHANGED <<shown, unlocked, stream, astray>>
       \/ /\ tasks[i].kind = "scope"
          /\ \/ shown.map # None /\ Becomes(i, Done) /\ UNCHANGED <<shown, unlocked, stream, astray>>
             \/ Becomes(i, Done) /\ Clear
             \/ \E m \in Live : Enter(i, m) /\ UNCHANGED <<shown, astray>>
    /\ UNCHANGED <<server, dirty, drafts, copies, sent, remembered, made, discarded, rewound>> /\ Calm

\* getTopology of a load, answered or failed.  A failure leaves the old map.
Get(i) ==
    /\ tasks[i].stage = "get"
    /\ \/ /\ tasks[i].to \in Live
          /\ Becomes(i, [At(i, "got") EXCEPT !.doc = Document(tasks[i].to)])
          /\ UNCHANGED astray /\ Calm
       \/ /\ Becomes(i, Done) /\ astray' = (astray \/ stream # shown.map)
          /\ IF tasks[i].to \in Live THEN Mishap ELSE Calm
    /\ UNCHANGED <<server, page, sent, place, made, discarded, rewound>>

\* The map arrives: it is shown, counts as saved, and its events are followed.
Arrive(i) ==
    LET doc == tasks[i].doc IN
    /\ tasks[i].stage = "got" /\ Becomes(i, Done)
    /\ Apply(drafts, doc, TRUE)
    /\ stream' = doc.map /\ remembered' = doc.map /\ astray' = FALSE /\ Rewinds(doc)
    /\ UNCHANGED <<server, sent, made, discarded>> /\ Calm

\* createTopology on the server.
Create(i) ==
    /\ tasks[i].kind = "create" /\ tasks[i].stage = "act"
    /\ \/ \E m \in Maps :
            /\ server[m].rev = 0
            /\ server' = [server EXCEPT ![m] = [live |-> TRUE, rev |-> 1, edits |-> {}]]
            /\ \/ Becomes(i, [At(i, "acted") EXCEPT !.to = m]) /\ Calm
               \/ Becomes(i, Done) /\ Mishap
       \/ Becomes(i, Done) /\ Mishap /\ UNCHANGED server
    /\ UNCHANGED <<page, sent, place, history>>

\* deleteTopology on the server, at the revision that was on screen.
Delete(i) ==
    LET doc == tasks[i].doc
        current == server[doc.map].live /\ server[doc.map].rev = doc.rev
    IN  /\ tasks[i].kind = "delete" /\ tasks[i].stage = "act"
        /\ \/ /\ current /\ server' = [server EXCEPT ![doc.map].live = FALSE]
              /\ \/ Becomes(i, At(i, "acted")) /\ Calm
                 \/ Becomes(i, Done) /\ Mishap
           \/ /\ Becomes(i, Done) /\ UNCHANGED server
              /\ IF current THEN Mishap ELSE Calm
        /\ UNCHANGED <<page, sent, place, history>>

\* The new map is listed and opened.
Created(i) ==
    /\ tasks[i].kind = "create" /\ tasks[i].stage = "acted"
    /\ \/ Enter(i, tasks[i].to) /\ Calm
       \/ Becomes(i, Done) /\ Mishap /\ UNCHANGED <<unlocked, stream>>
    /\ UNCHANGED <<server, shown, dirty, drafts, copies, sent, remembered, history>>

\* The map is gone, its draft too; another one is opened, or a first one is made.
Deleted(i) ==
    /\ tasks[i].kind = "delete" /\ tasks[i].stage = "acted"
    /\ drafts' = WithoutPending(tasks[i].to) /\ dirty' = FALSE
    /\ \/ /\ \E m \in Live : Enter(i, m)
          /\ UNCHANGED <<shown, astray>> /\ Calm
       \/ Becomes(i, Done) /\ Clear /\ Calm
       \/ Live = {} /\ Becomes(i, Task("create", None, "act")) /\ UNCHANGED <<shown, unlocked, stream, astray>> /\ Calm
       \/ Becomes(i, Done) /\ Mishap /\ UNCHANGED <<shown, unlocked, stream, astray>>
    /\ UNCHANGED <<server, copies, sent, remembered, made, discarded, rewound>>

-----------------------------------------------------------------------------
(* Edits and writes.                                                        *)

\* editLock: unlocked by the user, locked again by the user or for idleness.
Lock(open) ==
    /\ unlocked # open /\ unlocked' = open /\ (open => Free)
    /\ UNCHANGED <<server, shown, dirty, drafts, copies, sent, tasks, place, history>> /\ Calm

Editing == unlocked /\ shown.map # None /\ Free /\ Count("edits")

\* state.commit and markDirty: the draft is captured.
Commit ==
    LET doc == Version(shown.map, shown.rev, shown.edits \cup {Edit}) IN
    /\ Editing
    /\ shown' = doc /\ drafts' = Captured(drafts, doc) /\ dirty' = TRUE
    /\ made' = made \cup {<<shown.map, Edit>>}
    /\ queue' = [k \in DOMAIN queue |-> [queue[k] EXCEPT !.fresh = FALSE]]
    /\ UNCHANGED <<server, unlocked, copies, direct, news, tasks, place, discarded, astray, rewound>>

\* updateFrom: an operation of the server takes its turn in the queue.
Operate ==
    /\ Editing /\ queue' = Append(queue, Job("op", "wait", Edit, FALSE))
    /\ UNCHANGED <<server, page, direct, news, tasks, place, history>>

\* Comments, documentation and photos are written past the queue; photos mark the map saved.
Attach(saves) ==
    /\ Editing /\ direct = Idle
    /\ direct' = [stage |-> "sent", edit |-> Edit, saves |-> saves, doc |-> shown]
    /\ UNCHANGED <<server, page, queue, news, tasks, place, history>>

\* flush of the timer, or of a user: not behind another write.  What a user saves
\* without a change is left out.
Flush ==
    /\ shown.map # None /\ queue = <<>> /\ dirty
    /\ queue' = <<Job("save", "sent", 0, FALSE)>>
    /\ UNCHANGED <<server, page, direct, news, tasks, place, history>> /\ Calm

Running(stages) == queue # <<>> /\ queue[1].stage \in stages
Runs(job) == queue' = [queue EXCEPT ![1] = job]

\* The running job ends, with the moves that waited for it, and the one that saves.
Ends(succeeded) ==
    /\ queue' = Tail(queue)
    /\ tasks' = [i \in DOMAIN tasks |->
          IF tasks[i].stage = "tail" /\ tasks[i].wait > 0 THEN [tasks[i] EXCEPT !.wait = @ - 1]
          ELSE IF tasks[i].stage # "saving" \/ ~queue[1].asked THEN tasks[i]
          ELSE IF succeeded /\ Recoveries(copies') <= tasks[i].copies /\ ~dirty'
          THEN [tasks[i] EXCEPT !.stage = "left"] ELSE Done]

\* An operation in its turn: dropped when another map is on screen, refused when locked.
Begin ==
    /\ Running({"wait"})
    /\ IF queue[1].map # shown.map \/ ~unlocked
       THEN Ends(FALSE) /\ UNCHANGED dirty
       ELSE Runs([queue[1] EXCEPT !.stage = "sent", !.body = shown]) /\ dirty' = TRUE /\ UNCHANGED tasks
    /\ UNCHANGED <<server, shown, unlocked, drafts, copies, direct, news, place, history>> /\ Calm

\* The server stores a write, if its revision is the current one.
Current(doc) == server[doc.map].live /\ server[doc.map].rev = doc.rev
Stored(doc, edits) == [doc EXCEPT !.rev = @ + 1, !.edits = edits]
Stores(doc) == server' = [server EXCEPT ![doc.map] = [live |-> TRUE, rev |-> doc.rev, edits |-> doc.edits]]

\* The write is answered, refused, or lost; only a conflict, and any failed
\* operation, is followed by a reading.
Serve ==
    LET job == queue[1]
        doc == Stored(job.body, IF job.kind = "save" THEN job.body.edits
                                ELSE server[job.map].edits \cup {job.edit})
        failed == [job EXCEPT !.stage = IF job.kind = "op" THEN "reread" ELSE "failed"]
    IN  /\ Running({"sent"})
        /\ \/ /\ Current(job.body) /\ Stores(doc)
              /\ \/ Runs([job EXCEPT !.stage = "stored", !.doc = doc]) /\ Calm
                 \/ Runs(failed) /\ Mishap
           \/ /\ ~Current(job.body) /\ UNCHANGED server /\ Calm
              /\ Runs(IF server[job.map].live THEN [job EXCEPT !.stage = "reread"] ELSE failed)
           \/ Runs(failed) /\ Mishap /\ UNCHANGED server
        /\ UNCHANGED <<page, direct, news, tasks, place, history>>

\* The map of a failed write is read again.
Reread ==
    /\ Running({"reread"})
    /\ \/ /\ server[queue[1].map].live
          /\ Runs([queue[1] EXCEPT !.stage = "read", !.doc = Document(queue[1].map)]) /\ Calm
       \/ /\ Runs([queue[1] EXCEPT !.stage = "failed"])
          /\ IF server[queue[1].map].live THEN Mishap ELSE Calm
    /\ UNCHANGED <<server, page, direct, news, tasks, place, history>>

\* The answer of the running job is received.
Finish ==
    LET job == queue[1]
        stored == job.stage = "stored"
    IN  /\ Running({"stored", "read", "failed"})
        /\ IF job.stage = "failed" THEN UNCHANGED page
           ELSE Receive(IF stored /\ job.kind = "save" THEN Acknowledged(job.body) ELSE drafts, job.doc,
                        ~stored \/ job.kind = "op" \/ job.fresh, stored /\ (job.kind = "op" \/ job.fresh))
        /\ Ends(stored)
        /\ UNCHANGED <<server, direct, news, place, history>> /\ Calm

\* A write past the queue on the server.
Attached ==
    LET doc == Stored(direct.doc, server[direct.doc.map].edits \cup {direct.edit}) IN
    /\ direct.stage = "sent"
    /\ \/ /\ Current(direct.doc) /\ Stores(doc)
          /\ \/ direct' = [direct EXCEPT !.stage = "stored", !.doc = doc] /\ Calm
             \/ direct' = Idle /\ Mishap
       \/ /\ direct' = Idle /\ UNCHANGED server
          /\ IF Current(direct.doc) THEN Mishap ELSE Calm
    /\ UNCHANGED <<page, queue, news, tasks, place, history>>

\* Its answer is applied whatever map is on screen.
ApplyAttached ==
    /\ direct.stage = "stored" /\ direct' = Idle
    /\ Apply(drafts, direct.doc, direct.saves)
    /\ astray' = (astray \/ direct.doc.map # shown.map) /\ Rewinds(direct.doc)
    /\ UNCHANGED <<server, queue, news, tasks, place, made, discarded>> /\ Calm

\* An event, or the reading of resyncActiveTopology.
Publish ==
    /\ news = Nothing /\ stream # None /\ stream \in Live /\ server[stream].rev > shown.rev
    /\ news' = Document(stream)
    /\ UNCHANGED <<server, page, queue, direct, tasks, place, history>> /\ Calm

\* It waits for the writes before it.
OnTopology ==
    /\ news # Nothing /\ queue = <<>> /\ news' = Nothing
    /\ Receive(drafts, news, TRUE, FALSE)
    /\ UNCHANGED <<server, queue, direct, tasks, place, history>> /\ Calm

-----------------------------------------------------------------------------

Moves == {<<"create", None>>, <<"scope", None>>} \cup ({"open", "delete"} \X Maps)

Step ==
    \/ \E move \in Moves : Choose(move[1], move[2])
    \/ \E i \in DOMAIN tasks :
          \/ Drained(i) \/ Discard(i) \/ Stay(i) \/ SaveFirst(i)
          \/ Get(i) \/ Arrive(i) \/ Create(i) \/ Delete(i) \/ Created(i) \/ Deleted(i)
    \/ \E open \in BOOLEAN : Lock(open)
    \/ Commit
    \/ Operate
    \/ \E saves \in BOOLEAN : Attach(saves)
    \/ Flush \/ Begin \/ Serve \/ Reread \/ Finish
    \/ Attached \/ ApplyAttached
    \/ Publish \/ OnTopology

\* What follows canLeaveMap runs before anything else does.
Next ==
    \/ \E i \in DOMAIN tasks : Left(i)
    \/ (\A i \in DOMAIN tasks : tasks[i].stage # "left") /\ Step

Spec == Init /\ [][Next]_vars

-----------------------------------------------------------------------------
(* Properties.                                                              *)

TypeOK ==
    /\ server \in [Maps -> [live : BOOLEAN, rev : Nat, edits : SUBSET Nat]]
    /\ shown \in Documents /\ news \in Documents
    /\ {dirty, unlocked, astray} \subseteq BOOLEAN /\ rewound \subseteq Maps
    /\ drafts \in [Maps \cup {None} -> SUBSET (SUBSET Nat)]
    /\ stream \in Maps \cup {None} /\ remembered \in Maps \cup {None}
    /\ tasks \in [0..MaxMoves -> [kind : {"open", "scope", "create", "delete", "none"}, to : Maps \cup {None},
                                  stage : Stages, wait : Nat, copies : Nat, doc : Documents]]

\* No edit made on screen is lost by opening, creating or deleting maps, though maps
\* arrive and writes are answered in any order (README.md: "Unsaved map changes are
\* protected when switching maps"; canLeaveMap, loadTopology, DraftRecovery): while its
\* map exists, it is stored, kept in a draft of this tab, or was given up by the user
\* who left.  Excepted are maps that came on screen without edits of their save under
\* way, of which no copy was made (README.md of the models says how).
EditsKept ==
    \A edit \in made : server[edit[1]].live /\ edit[1] \notin rewound =>
        edit[2] \in server[edit[1]].edits \cup (UNION drafts[edit[1]]) \cup Safe(edit[1])

\* When no move is under way, the tab follows the events of the map on screen, and
\* would open it again (loadTopology, clearActiveTopologyForScope, receiveTopology).
\* Excepted are a load that failed after it closed the stream and a write past the
\* queue answered after another map came, until the next map is opened.
FollowsShown ==
    ~astray /\ (\A i \in DOMAIN tasks : tasks[i].stage = "done") =>
        stream = shown.map /\ (shown.map # None => remembered = shown.map)
=============================================================================
