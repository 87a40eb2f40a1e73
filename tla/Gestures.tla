------------------------------- MODULE Gestures -------------------------------
(***************************************************************************)
(* Moving devices on the canvas (web/static/js/canvas.js, app.js,          *)
(* placement-sync.js, rack-placement.js).  A drag writes its preview into  *)
(* the map of the tab; the drop becomes a job in the queue of writes that  *)
(* reads the map again, repeats the placements on it and stores it, while  *)
(* revisions of other sessions arrive and the next drag is under way.  A   *)
(* drop on an occupied rack unit is stored after a dialog only.            *)
(*                                                                         *)
(* A place is a rack unit (of a rack and a face) or a free point.  Other   *)
(* edits of the tab, its undo history and autosave are Collaboration's.    *)
(***************************************************************************)
EXTENDS Naturals, FiniteSets, Sequences, SequencesExt

CONSTANTS
    Devices, Units, Points,
    Over,        \* the point of a device held over an occupied unit
    Beyond,      \* the free point beside the racks where displaced devices go
    Gone,        \* the place of a device that was deleted
    MaxDrags,    \* bound: drags begun
    MaxOthers,   \* bound: moves and deletions by other sessions
    MaxMishaps   \* bound: requests and answers lost

Free == Points \cup {Over, Beyond}
Places == Units \cup Free

ASSUME GesturesAssumption ==
    /\ Units \cap Free = {} /\ Gone \notin Places /\ Over \notin Points /\ Over # Beyond
    /\ {MaxDrags, MaxOthers, MaxMishaps} \subseteq Nat

VARIABLES
    shared,   \* the map the server has: its revision and the places
    tab,      \* state.topology
    gesture,  \* canvas.drag
    dialog,   \* pendingRackPlacement
    queue,    \* topologyWrites: its jobs, of which the first is running
    news,     \* revisions published on the event stream
    left,     \* what the bounds leave
    base,     \* history: the map the tab received last
    draft,    \* drafts.hasPending: the tab has a recovery copy of this map
    astray    \* history: devices that a drag or a failed drop left where that map does not have them

vars == <<shared, tab, gesture, dialog, queue, news, left, base, draft, astray>>

NoMoves == [d \in {} |-> Gone]
Still == [held |-> <<>>, active |-> FALSE, snapshot |-> [revision |-> 0, at |-> NoMoves],
          originals |-> NoMoves, occupied |-> NoMoves]
NoDialog == [open |-> FALSE, changes |-> NoMoves, revision |-> 0]
Unread == [revision |-> 0, at |-> NoMoves]

Seated(at) == \A u \in Units : Cardinality({d \in DOMAIN at : at[d] = u}) <= 1

Init ==
    /\ \E at \in [Devices -> Units \cup Points] : Seated(at) /\ shared = [revision |-> 1, at |-> at]
    /\ tab = shared /\ base = shared
    /\ gesture = Still /\ dialog = NoDialog /\ queue = <<>> /\ news = <<>>
    /\ left = [drags |-> MaxDrags, others |-> MaxOthers, mishaps |-> MaxMishaps]
    /\ draft = FALSE /\ astray = {}

Calm == UNCHANGED left
Mishap == left.mishaps > 0 /\ left' = [left EXCEPT !.mishaps = @ - 1]

-----------------------------------------------------------------------------
(* Placements.                                                              *)

\* placementChanges: of the devices that both maps have, those with another place.
PlacementChanges(snapshot, at, items) ==
    [d \in {d \in items : snapshot.at[d] # Gone /\ at[d] \notin {Gone, snapshot.at[d]}} |->
        [before |-> snapshot.at[d], after |-> at[d]]]

\* Mutant: the map read last is taken for the map of the drag.
ConflictsNever(map, changes) == FALSE

\* applyPlacements with checkConflicts: a competing move or deletion.
Conflicts(map, changes) ==
    \E d \in DOMAIN changes : map.at[d] \notin {changes[d].before, changes[d].after}

Moved(at, changes) ==
    [d \in Devices |-> IF d \in DOMAIN changes /\ at[d] # Gone THEN changes[d].after ELSE at[d]]

ApplyPlacements(map, changes) == [map EXCEPT !.at = Moved(@, changes)]

\* The queued drops of a device.
DropsOf(jobs, d) == {k \in DOMAIN jobs : jobs[k].kind = "drop" /\ d \in DOMAIN jobs[k].changes}

\* Where the queued drops put a device, one after the other: the last one decides.
Placed(map, jobs, d) ==
    LET drops == DropsOf(jobs, d) IN
    IF drops = {} \/ map.at[d] = Gone THEN map.at[d] ELSE jobs[Max(drops)].changes[d].after

\* planRackReplacement: the devices under the dropped ones go to a free point.
Replaced(at, changes) ==
    [d \in Devices |->
        IF d \notin DOMAIN changes /\ \E e \in DOMAIN changes : changes[e].after \in Units
                                                              /\ changes[e].after = at[d]
        THEN Beyond ELSE at[d]]

-----------------------------------------------------------------------------
(* The gesture.                                                             *)

Held == {gesture.held[i] : i \in DOMAIN gesture.held}
Resting == gesture = Still

\* pointerDown on a device, of one or several selected ones.
PointerDown(held) ==
    /\ Resting /\ ~dialog.open
    /\ left.drags > 0 /\ left' = [left EXCEPT !.drags = @ - 1]
    /\ \A i \in DOMAIN held : tab.at[held[i]] # Gone
    /\ gesture' = [held |-> held, active |-> FALSE, snapshot |-> tab, occupied |-> NoMoves,
                   originals |-> [d \in ToSet(held) |-> tab.at[d]]]
    /\ UNCHANGED <<shared, tab, dialog, queue, news, base, draft, astray>>

\* The i-th device of a drag finds a rack unit occupied; those before it have moved.
Occupied(at, i, unit) ==
    LET before == {gesture.held[j] : j \in 1..(i - 1)} IN
    \E e \in Devices \ {gesture.held[i]} : unit = IF e \in before THEN at[e] ELSE tab.at[e]

\* Each device of a drag, one after the other, lands on a free unit or a free point.
Preview(at, to) ==
    /\ \A d \in Devices \ Held : at[d] = tab.at[d]
    /\ \A i \in DOMAIN gesture.held :
          LET d == gesture.held[i] IN
          at[d] = IF tab.at[d] = Gone THEN Gone
                  ELSE IF to[d] \in Units /\ Occupied(at, i, to[d]) THEN Over ELSE to[d]

\* pointerMove: the preview is written into the map of the tab.
PointerMove(to) ==
    /\ ~Resting
    /\ \E at \in [Devices -> Places \cup {Gone}] :
          /\ Preview(at, to)
          /\ tab' = [tab EXCEPT !.at = at]
          /\ gesture' = [gesture EXCEPT !.active = TRUE,
                                        !.occupied = [d \in {d \in Held : at[d] = Over} |-> to[d]]]
    /\ UNCHANGED <<shared, dialog, queue, news, base, draft, astray>> /\ Calm

Restored == [d \in Devices |-> IF d \in Held /\ tab.at[d] # Gone THEN gesture.originals[d] ELSE tab.at[d]]

Job(kind, changes, revision, stage, map) ==
    [kind |-> kind, changes |-> changes, revision |-> revision, stage |-> stage, map |-> map, tries |-> 0]

Stage(kinds, stages) == queue # <<>> /\ queue[1].kind \in kinds /\ queue[1].stage \in stages

\* A failed drop waits for the reading that takes it back.
Failing == Stage({"drop"}, {"refresh", "read"})

\* The jobs whose drops are not decided yet.
Pending == IF Failing THEN Tail(queue) ELSE queue

\* History: devices of the drag are back on places that another session took them from.
PutBack(at, devices) ==
    astray' = astray \cup {d \in devices : at[d] \notin {Gone, Placed(base, Pending, d)}}

\* pointerUp with every device on a free place: savePlacements.
Release ==
    LET changes == IF gesture.active THEN PlacementChanges(gesture.snapshot, tab.at, Held) ELSE NoMoves IN
    /\ ~Resting /\ gesture.occupied = NoMoves
    /\ gesture' = Still
    /\ queue' = IF changes = NoMoves THEN queue
                ELSE Append(queue, Job("drop", changes, 0, "get", Unread))
    /\ PutBack(tab.at, Held \ DOMAIN changes)
    /\ UNCHANGED <<shared, tab, dialog, news, base, draft>> /\ Calm

\* pointerUp over an occupied unit: the map is restored, and requestRackPlacement
\* opens its dialog unless the dropped devices are in each other's way.
ReleaseOccupied ==
    LET wanted == [d \in Devices |-> IF d \in DOMAIN gesture.occupied THEN gesture.occupied[d]
                                     ELSE IF d \in Held THEN tab.at[d] ELSE gesture.snapshot.at[d]]
        moved == PlacementChanges(gesture.snapshot, wanted, Held)
        planned == Replaced(ApplyPlacements(gesture.snapshot, moved).at, moved)
        plan == PlacementChanges(gesture.snapshot, planned, Devices)
    IN  /\ ~Resting /\ gesture.occupied # NoMoves
        /\ gesture' = Still
        /\ tab' = [tab EXCEPT !.at = Restored]
        /\ dialog' = IF \A d \in DOMAIN moved, e \in Devices :
                            d # e /\ planned[d] \in Units => planned[e] # planned[d]
                     THEN [open |-> TRUE, changes |-> plan, revision |-> gesture.snapshot.revision]
                     ELSE dialog
        /\ PutBack(Restored, Held)
        /\ UNCHANGED <<shared, queue, news, base, draft>> /\ Calm

\* cancelInteraction: Escape, another tool, an expired lock, a lost pointer.
Cancel ==
    /\ ~Resting
    /\ gesture' = Still
    /\ tab' = [tab EXCEPT !.at = Restored]
    /\ PutBack(Restored, Held)
    /\ UNCHANGED <<shared, dialog, queue, news, base, draft>> /\ Calm

\* The dialog is confirmed or closed.
Answer(confirmed) ==
    /\ dialog.open /\ dialog' = NoDialog
    /\ queue' = IF confirmed
                THEN Append(queue, Job("replace", dialog.changes, dialog.revision, "start", Unread))
                ELSE queue
    /\ UNCHANGED <<shared, tab, gesture, news, base, draft, astray>> /\ Calm

-----------------------------------------------------------------------------
(* The queue of writes.                                                     *)

Becomes(job) == queue' = [queue EXCEPT ![1] = job]
At(stage) == [queue[1] EXCEPT !.stage = stage]

\* Mutant: a refused drop is tried again, without an end.
FailedAgain == [queue[1] EXCEPT !.stage = IF queue[1].kind = "drop" THEN "get" ELSE "refresh", !.map = Unread]

\* A job that fails reads the map again; only a drop keeps what it read before.
Failed == [queue[1] EXCEPT !.stage = "refresh", !.map = IF queue[1].kind = "drop" THEN @ ELSE Unread]

\* The reading of a drop, which its placements must still fit.
Get ==
    /\ Stage({"drop"}, {"get"})
    /\ \/ /\ Becomes(IF Conflicts(shared, queue[1].changes) THEN [Failed EXCEPT !.map = shared]
                     ELSE [At("put") EXCEPT !.map = shared])
          /\ Calm
       \/ Becomes(Failed) /\ Mishap
    /\ UNCHANGED <<shared, tab, gesture, dialog, news, base, draft, astray>>

\* The map is still the one the dialog showed.
Reviewed(job) == tab.revision = job.revision /\ ~Conflicts(tab, job.changes)

\* A confirmed placement begins, in its turn.
Begin ==
    /\ Stage({"replace"}, {"start"})
    /\ Becomes(IF Reviewed(queue[1]) THEN [At("put") EXCEPT !.map = ApplyPlacements(tab, queue[1].changes)]
               ELSE Failed)
    /\ UNCHANGED <<shared, tab, gesture, dialog, news, base, draft, astray>> /\ Calm

Body == IF queue[1].kind = "drop" THEN ApplyPlacements(queue[1].map, queue[1].changes) ELSE queue[1].map

\* replaceTopology: the server takes the map, refuses it, or the call is lost.
Put ==
    LET map == [Body EXCEPT !.revision = @ + 1]
        fresh == Body.revision = shared.revision
    IN  /\ Stage({"drop", "replace"}, {"put"})
        /\ \/ /\ fresh /\ Seated(Body.at)
              /\ shared' = map /\ news' = Append(news, map)
              /\ \/ Becomes([At("stored") EXCEPT !.map = map]) /\ Calm
                 \/ Becomes(Failed) /\ Mishap
           \/ /\ ~fresh
              /\ Becomes(IF queue[1].kind = "drop" /\ queue[1].tries < 2
                         THEN [At("get") EXCEPT !.tries = @ + 1] ELSE Failed)
              /\ UNCHANGED <<shared, news>> /\ Calm
           \/ /\ fresh /\ ~Seated(Body.at)
              /\ Becomes(Failed)
              /\ UNCHANGED <<shared, news>> /\ Calm
           \/ /\ Becomes(Failed) /\ Mishap
              /\ UNCHANGED <<shared, news>>
        /\ UNCHANGED <<tab, gesture, dialog, base, draft, astray>>

\* After a failure the map is read; that may fail too.
Refresh ==
    /\ Stage({"drop", "replace"}, {"refresh"})
    /\ \/ Becomes([At("read") EXCEPT !.map = shared]) /\ Calm
       \/ Becomes(At("read")) /\ Mishap
    /\ UNCHANGED <<shared, tab, gesture, dialog, news, base, draft, astray>>

\* Mutant: a revision replaces the map of the tab.
RebasedNever(map, jobs) == map

\* A revision with the drops that wait for their turn.
Rebased(map, jobs) == [map EXCEPT !.at = [d \in Devices |-> Placed(map, jobs, d)]]

\* An older revision is not received, nor the same one over a draft.
Accepted(map) == map.revision > tab.revision \/ (map.revision = tab.revision /\ ~draft)

\* receiveTopology, with the jobs that are left: their drops and the preview of
\* the gesture are repeated on the map.
ReceiveTopology(map, jobs) ==
    LET preview == PlacementChanges(gesture.snapshot, tab.at, Held)
        original == [d \in DOMAIN preview |-> [preview[d] EXCEPT !.after = preview[d].before]]
    IN  IF ~Accepted(map)
        THEN UNCHANGED <<tab, gesture, base>>
        ELSE /\ base' = map
             /\ tab' = ApplyPlacements(Rebased(map, jobs), preview)
             /\ gesture' = IF Resting THEN gesture
                           ELSE [gesture EXCEPT !.snapshot = ApplyPlacements(map, original)]

\* The answer of the job, or a revision in its turn, is received: a draft it displaces
\* is pending no more (applyTopology).  A drop that failed without any reading leaves a
\* draft to autosave (markDirty).
Finish ==
    LET job == queue[1] IN
    /\ Stage({"drop", "replace", "receive"}, {"stored", "read"})
    /\ queue' = Tail(queue)
    /\ ReceiveTopology(job.map, Tail(queue))
    /\ draft' = (~Accepted(job.map) /\ (draft \/ (job.kind = "drop" /\ job.map = Unread)))
    /\ astray' = IF Accepted(job.map) THEN {}
                 ELSE IF job.kind = "drop" /\ job.stage = "read" THEN astray \cup DOMAIN job.changes
                 ELSE astray
    /\ UNCHANGED <<shared, dialog, news>> /\ Calm

\* onTopology: an event waits for the writes before it.
OnTopology ==
    /\ news # <<>> /\ news' = Tail(news)
    /\ queue' = Append(queue, Job("receive", NoMoves, 0, "read", news[1]))
    /\ UNCHANGED <<shared, tab, gesture, dialog, base, draft, astray>> /\ Calm

\* Another session moves or deletes a device.
Other(d, place) ==
    LET map == [revision |-> shared.revision + 1, at |-> [shared.at EXCEPT ![d] = place]] IN
    /\ left.others > 0 /\ left' = [left EXCEPT !.others = @ - 1]
    /\ shared.at[d] \notin {Gone, place} /\ Seated(map.at)
    /\ shared' = map /\ news' = Append(news, map)
    /\ UNCHANGED <<tab, gesture, dialog, queue, base, draft, astray>>

-----------------------------------------------------------------------------

Selections == {s \in SeqOf(Devices, Cardinality(Devices)) : s # <<>> /\ Cardinality(ToSet(s)) = Len(s)}

Work == Get \/ Begin \/ Put \/ Refresh \/ Finish

Next ==
    \/ \E held \in Selections : PointerDown(held)
    \/ \E to \in [Held -> Units \cup Points] : PointerMove(to)
    \/ Release
    \/ ReleaseOccupied
    \/ Cancel
    \/ \E confirmed \in BOOLEAN : Answer(confirmed)
    \/ Work
    \/ OnTopology
    \/ \E d \in Devices, place \in Units \cup Points \cup {Gone} : Other(d, place)

Spec == Init /\ [][Next]_vars

\* Calls are answered or fail, and the browser runs its jobs.
FairSpec == Spec /\ WF_vars(Work) /\ WF_vars(OnTopology)

-----------------------------------------------------------------------------
(* Properties.                                                              *)

TypeOK ==
    /\ shared.at \in [Devices -> Places \cup {Gone}] /\ tab.at \in [Devices -> Places \cup {Gone}]
    /\ tab.revision \in 1..shared.revision
    /\ Held \subseteq Devices /\ draft \in BOOLEAN /\ astray \subseteq Devices

\* The server stores what the tab sent.
Storing == Stage({"drop", "replace"}, {"put"}) /\ shared' # shared /\ left'.others = left.others

\* What a drag stores is what its user saw.  A drop moves nothing on the server
\* but its own devices, each from the place the drag took it from, though other
\* sessions moved or deleted devices while it was held, queued, read, refused and
\* tried again (savePlacements); a confirmed placement puts its devices where the dialog
\* said, over the revision of its dialog, or is not stored at all, though it waits for
\* other writes (README.md: "a map changed by another edit must be reviewed again").
StoredAsSeen ==
    [][Storing =>
         LET job == queue[1] IN
         \/ job.kind = "drop" /\ \A d \in Devices : shared'.at[d] # shared.at[d] =>
               d \in DOMAIN job.changes
               /\ job.changes[d] = [before |-> shared.at[d], after |-> shared'.at[d]]
         \/ job.kind = "replace" /\ shared.revision = job.revision /\ \A d \in DOMAIN job.changes :
               shared'.at[d] = job.changes[d].after]_vars

\* What may be shown elsewhere for a while: a failed drop until the map is read again,
\* and what was left astray.
Unsettled == astray \cup IF Failing THEN DOMAIN queue[1].changes ELSE {}

\* A device that is not held shows where the map received last has it, or where a
\* queued drop puts it: no revision that arrives erases a queued drop, no
\* failed drop, cancelled drag or declined dialog leaves its preview
\* (receiveTopology, savePlacements, cancelInteraction).  Excepted, until the next
\* revision, are the devices of a drop that failed without any reading, or whose reading
\* is ignored because such a draft is pending, and devices that a drag put back where
\* the map does not have them (README.md says when).
ShownIsTrue == \A d \in Devices \ (Held \cup Unsettled) : tab.at[d] = Placed(base, Pending, d)

\* Every drop is stored or refused, and every write behind it gets its turn.
DropsEnd == queue # <<>> ~> queue = <<>>
=============================================================================
