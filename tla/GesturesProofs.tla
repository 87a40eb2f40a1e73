--------------------------- MODULE GesturesProofs ---------------------------
(***************************************************************************)
(* What a drag stores is what its user saw, and what is shown is stored or *)
(* queued, for any devices, racks and points, and any number of drags,     *)
(* other sessions and lost calls.                                          *)
(*                                                                         *)
(* The revision a write is compared with stands for the whole map: a drop  *)
(* about to be sent was built from a map that fits it, and when the        *)
(* revision of that map is still the server's, that map is the server's.   *)
(* A confirmed placement about to be sent has the revision of its dialog   *)
(* and the places it proposed.                                             *)
(* What is shown is the map received last with the queued drops repeated   *)
(* on it, but for the devices of a drop whose reading after its failure is *)
(* not received; the answer to a write that was stored always is.          *)
(***************************************************************************)
EXTENDS Gestures, SequenceTheorems, WellFoundedInduction, TLAPS

IsMap(map) == DOMAIN map = {"revision", "at"} /\ map.revision \in Nat

\* Placements are pairs of places.
IsChanges(changes) ==
    \A d \in DOMAIN changes : changes[d] = [before |-> changes[d].before, after |-> changes[d].after]

\* What a dialog proposes moves devices that are there.
IsPlan(changes) ==
    /\ IsChanges(changes) /\ DOMAIN changes \subseteq Devices
    /\ \A d \in DOMAIN changes : Gone \notin {changes[d].before, changes[d].after}

IsJob(job) ==
    /\ DOMAIN job = {"kind", "changes", "revision", "stage", "map", "tries"}
    /\ job.kind \in {"drop", "replace", "receive"}
    /\ IsMap(job.map)
    /\ IsChanges(job.changes) /\ (job.kind = "replace" => IsPlan(job.changes))

\* The map a drop is about to send fits it, and is the server's unless it is older.
DropFits(job) ==
    job.kind = "drop" /\ job.stage = "put" =>
        /\ job.map.revision <= shared.revision
        /\ job.map.revision = shared.revision => job.map = shared
        /\ ~Conflicts(job.map, job.changes)

\* What a dialog confirmed is sent as it was proposed, under the revision it showed.
ReviewedStill(job) ==
    job.kind = "replace" /\ job.stage = "put" =>
        /\ job.map.revision = job.revision
        /\ \A d \in DOMAIN job.changes : job.map.at[d] = job.changes[d].after

\* The jobs are a sequence; what they consist of is said below.
Sequences == (\E S : queue \in Seq(S)) /\ (\E S : news \in Seq(S))

Bounds == left \in [drags : Nat, others : Nat, mishaps : Nat]

Jobs == \A k \in DOMAIN queue : IsJob(queue[k]) /\ DropFits(queue[k]) /\ ReviewedStill(queue[k])

GInv ==
    /\ Sequences
    /\ Bounds
    /\ IsMap(shared) /\ IsMap(tab)
    /\ IsPlan(dialog.changes)
    /\ \A k \in DOMAIN news : IsMap(news[k])
    /\ Jobs

-----------------------------------------------------------------------------
(* Sequences and placements.                                                *)

\* What is appended comes after the rest.
LEMMA Appended ==
    ASSUME NEW q, \E S : q \in Seq(S), NEW x
    PROVE  /\ \E S : Append(q, x) \in Seq(S)
           /\ \A k \in DOMAIN Append(q, x) : Append(q, x)[k] = x \/ (k \in DOMAIN q /\ Append(q, x)[k] = q[k])
<1>1. PICK S : q \in Seq(S)
  OBVIOUS
<1>2. q \in Seq(S \cup {x})
  BY <1>1
<1>3. Append(q, x) \in Seq(S \cup {x})
  BY <1>2
<1>4. QED
  BY <1>2, <1>3

\* The tail keeps the other elements, one place earlier.
LEMMA TailOf ==
    ASSUME NEW q, \E S : q \in Seq(S), q # <<>>
    PROVE  /\ \E S : Tail(q) \in Seq(S)
           /\ 1 \in DOMAIN q
           /\ \A k \in DOMAIN Tail(q) : k + 1 \in DOMAIN q /\ Tail(q)[k] = q[k + 1]
<1>1. PICK S : q \in Seq(S)
  OBVIOUS
<1>2. QED
  BY <1>1

\* The first element is replaced.
LEMMA HeadReplaced ==
    ASSUME NEW q, \E S : q \in Seq(S), q # <<>>, NEW x
    PROVE  /\ \E S : [q EXCEPT ![1] = x] \in Seq(S)
           /\ DOMAIN [q EXCEPT ![1] = x] = DOMAIN q
           /\ [q EXCEPT ![1] = x][1] = x
           /\ \A k \in DOMAIN q : k # 1 => [q EXCEPT ![1] = x][k] = q[k]
<1>1. PICK S : q \in Seq(S)
  OBVIOUS
<1>2. q \in Seq(S \cup {x}) /\ 1 \in DOMAIN q
  BY <1>1
<1>3. [q EXCEPT ![1] = x] \in Seq(S \cup {x})
  BY <1>2
<1>4. QED
  BY <1>2, <1>3

\* placementChanges returns pairs of places, of the devices asked for.
LEMMA ChangesArePairs ==
    ASSUME NEW snapshot, NEW at, NEW items
    PROVE  /\ IsChanges(PlacementChanges(snapshot, at, items))
           /\ items \subseteq Devices => IsPlan(PlacementChanges(snapshot, at, items))
BY DEF IsChanges, IsPlan, PlacementChanges

\* Nothing is moved.
LEMMA NoMovesArePairs == IsChanges(NoMoves) /\ IsPlan(NoMoves)
BY DEF IsChanges, IsPlan, NoMoves

\* applyPlacements keeps the revision.
LEMMA ApplyKeepsRevision ==
    ASSUME NEW map, IsMap(map), NEW changes
    PROVE  /\ IsMap(ApplyPlacements(map, changes))
           /\ ApplyPlacements(map, changes).revision = map.revision
BY DEF IsMap, ApplyPlacements

\* So do all the drops that wait.
LEMMA RebaseKeepsRevision ==
    ASSUME NEW map, IsMap(map), NEW jobs
    PROVE  IsMap(Rebased(map, jobs))
BY DEF IsMap, Rebased, Placed

-----------------------------------------------------------------------------
(* The invariant.                                                           *)

\* The invariant holds when a map is opened.
LEMMA GInvInit == ASSUME GesturesAssumption, Init PROVE GInv
<1>1. Sequences
  BY DEF Init, Sequences
<1>2. QED
  BY <1>1, NoMovesArePairs DEF Init, GInv, Bounds, IsMap, Jobs, NoDialog, GesturesAssumption

\* A job joins the queue before it has read anything.
LEMMA Enqueues ==
    ASSUME GInv, NEW job, IsJob(job), job.stage # "put",
           queue' = Append(queue, job), UNCHANGED shared
    PROVE  (\E S : queue' \in Seq(S)) /\ Jobs'
<1>1. (\E S : queue' \in Seq(S)) /\ (\A k \in DOMAIN queue' : queue'[k] = job \/ (k \in DOMAIN queue /\ queue'[k] = queue[k]))
  BY Appended DEF GInv, Sequences
<1>2. ASSUME NEW k \in DOMAIN queue' PROVE (IsJob(queue[k]) /\ DropFits(queue[k]) /\ ReviewedStill(queue[k]))'
  <2>1. CASE queue'[k] = job
    BY <2>1 DEF IsJob, DropFits, ReviewedStill, Conflicts, IsMap, IsChanges, IsPlan
  <2>2. CASE k \in DOMAIN queue /\ queue'[k] = queue[k]
    BY <2>2 DEF GInv, Jobs, IsJob, DropFits, ReviewedStill, Conflicts, IsMap, IsChanges, IsPlan
  <2>3. QED
    BY <1>1, <2>1, <2>2
<1>3. QED
  BY <1>1, <1>2 DEF Jobs

\* The head of the queue goes on; the server has the same map, or a newer one.
LEMMA HeadGoesOn ==
    ASSUME GInv, NEW job, IsJob(job), queue # <<>>, Becomes(job),
           shared' = shared \/ (IsMap(shared') /\ shared'.revision = shared.revision + 1),
           DropFits(job)', ReviewedStill(job)
    PROVE  (\E S : queue' \in Seq(S)) /\ Jobs'
<1>1. /\ \E S : queue' \in Seq(S)
      /\ DOMAIN queue' = DOMAIN queue /\ queue'[1] = job
      /\ \A k \in DOMAIN queue : k # 1 => queue'[k] = queue[k]
  BY HeadReplaced DEF GInv, Sequences, Becomes
<1>2. ASSUME NEW k \in DOMAIN queue' PROVE (IsJob(queue[k]) /\ DropFits(queue[k]) /\ ReviewedStill(queue[k]))'
  <2>1. CASE k = 1
    BY <1>1, <2>1 DEF IsJob, DropFits, ReviewedStill, Conflicts, IsMap, IsChanges, IsPlan
  <2>2. CASE k # 1
    <3>1. queue'[k] = queue[k] /\ IsJob(queue[k]) /\ DropFits(queue[k]) /\ ReviewedStill(queue[k])
      BY <1>1, <2>2 DEF GInv, Jobs
    <3>2. QED
      BY <3>1 DEF GInv, IsJob, DropFits, ReviewedStill, Conflicts, IsMap, IsChanges, IsPlan
  <2>3. QED
    BY <2>1, <2>2
<1>3. QED
  BY <1>1, <1>2 DEF Jobs

\* A job that is put back to a stage before its write claims nothing.
LEMMA HeadWaits ==
    ASSUME GInv, NEW job, IsJob(job), queue # <<>>, Becomes(job), job.stage # "put",
           shared' = shared \/ (IsMap(shared') /\ shared'.revision = shared.revision + 1)
    PROVE  (\E S : queue' \in Seq(S)) /\ Jobs'
BY HeadGoesOn DEF DropFits, ReviewedStill

\* The job that runs is one of the queue.
LEMMA HeadIsJob ==
    ASSUME GInv, queue # <<>>
    PROVE  /\ 1 \in DOMAIN queue /\ IsJob(queue[1]) /\ DropFits(queue[1]) /\ ReviewedStill(queue[1])
           /\ IsJob(Failed) /\ Failed.stage = "refresh"
<1>1. 1 \in DOMAIN queue /\ IsJob(queue[1]) /\ DropFits(queue[1]) /\ ReviewedStill(queue[1])
  BY TailOf DEF GInv, Sequences, Jobs
<1>2. IsMap(Unread)
  BY DEF IsMap, Unread
<1>3. IsJob(Failed) /\ Failed.stage = "refresh"
  BY <1>1, <1>2 DEF IsJob, Failed
<1>4. QED
  BY <1>1, <1>3

\* A new job of the queue.
LEMMA NewJob ==
    ASSUME NEW kind \in {"drop", "replace", "receive"}, NEW changes, IsChanges(changes),
           kind = "replace" => IsPlan(changes), NEW revision, NEW stage, NEW map, IsMap(map)
    PROVE  IsJob(Job(kind, changes, revision, stage, map)) /\ Job(kind, changes, revision, stage, map).stage = stage
BY DEF IsJob, Job

\* What a published map leaves of the news.
LEMMA Published ==
    ASSUME GInv, NEW map, IsMap(map), news' = Append(news, map)
    PROVE  (\E S : news' \in Seq(S)) /\ \A k \in DOMAIN news' : IsMap(news'[k])
BY Appended DEF GInv, Sequences

\* The rest of the invariant, when nothing it speaks of changes but the queue.
LEMMA OnlyQueue ==
    ASSUME GInv, (\E S : queue' \in Seq(S)) /\ Jobs', IsMap(tab'), IsPlan(dialog'.changes),
           UNCHANGED <<shared, news>>, Bounds'
    PROVE  GInv'
BY DEF GInv, Sequences, IsMap, IsChanges, IsPlan

\* Nothing happens.
LEMMA StutterKeeps == ASSUME GInv, UNCHANGED vars PROVE GInv'
BY DEF vars, GInv, Sequences, Bounds, Jobs, IsJob, DropFits, ReviewedStill, Conflicts, IsMap, IsChanges, IsPlan

\* The jobs stay good when neither they nor the map of the server change.
LEMMA JobsStay ==
    ASSUME GInv, UNCHANGED <<queue, shared>>
    PROVE  (\E S : queue' \in Seq(S)) /\ Jobs'
BY DEF GInv, Sequences, Jobs, IsJob, DropFits, ReviewedStill, Conflicts, IsMap, IsChanges, IsPlan

\* A lost call counts, and otherwise nothing does.
LEMMA BoundsStay == ASSUME GInv, Calm \/ Mishap PROVE Bounds'
BY DEF GInv, Bounds, Calm, Mishap

\* A drag begins, is dragged on and is cancelled.
LEMMA DragKeeps ==
    ASSUME GInv,
           \/ \E held \in Selections : PointerDown(held)
           \/ \E to \in [Held -> Units \cup Points] : PointerMove(to)
           \/ Cancel
    PROVE  GInv'
<1>1. CASE \E held \in Selections : PointerDown(held)
  <2>1. Bounds' /\ UNCHANGED <<shared, tab, dialog, queue, news>>
    BY <1>1 DEF PointerDown, GInv, Bounds
  <2>2. QED
    BY <2>1, JobsStay, OnlyQueue DEF GInv
<1>2. CASE \E to \in [Held -> Units \cup Points] : PointerMove(to)
  <2>1. Calm /\ IsMap(tab') /\ UNCHANGED <<shared, dialog, queue, news>>
    BY <1>2 DEF PointerMove, GInv, IsMap
  <2>2. QED
    BY <2>1, JobsStay, OnlyQueue, BoundsStay DEF GInv
<1>3. CASE Cancel
  <2>1. Calm /\ IsMap(tab') /\ UNCHANGED <<shared, dialog, queue, news>>
    BY <1>3 DEF Cancel, GInv, IsMap
  <2>2. QED
    BY <2>1, JobsStay, OnlyQueue, BoundsStay DEF GInv
<1>4. QED
  BY <1>1, <1>2, <1>3

\* A drag is dropped, on free places or on occupied ones.
LEMMA ReleaseKeeps == ASSUME GInv, Release \/ ReleaseOccupied PROVE GInv'
<1>1. CASE Release
  <2> DEFINE changes == IF gesture.active THEN PlacementChanges(gesture.snapshot, tab.at, Held) ELSE NoMoves
  <2>1. IsChanges(changes) /\ IsMap(Unread)
    BY ChangesArePairs, NoMovesArePairs DEF IsMap, Unread
  <2>2. /\ Calm /\ UNCHANGED <<shared, tab, dialog, news>>
        /\ queue' = queue \/ queue' = Append(queue, Job("drop", changes, 0, "get", Unread))
    BY <1>1 DEF Release
  <2> HIDE DEF changes
  <2>3. IsJob(Job("drop", changes, 0, "get", Unread)) /\ Job("drop", changes, 0, "get", Unread).stage # "put"
    BY <2>1, NewJob
  <2>4. (\E S : queue' \in Seq(S)) /\ Jobs'
    BY <2>2, <2>3, JobsStay, Enqueues
  <2>5. QED
    BY <2>2, <2>4, OnlyQueue, BoundsStay DEF GInv
<1>2. CASE ReleaseOccupied
  <2>1. Calm /\ IsMap(tab') /\ UNCHANGED <<shared, queue, news>>
    BY <1>2 DEF ReleaseOccupied, GInv, IsMap
  <2>2. IsPlan(dialog'.changes)
    BY <1>2, ChangesArePairs DEF ReleaseOccupied, GInv
  <2>3. QED
    BY <2>1, <2>2, JobsStay, OnlyQueue, BoundsStay
<1>3. QED
  BY <1>1, <1>2

\* The dialog is answered; an event takes its place in the queue.
LEMMA QueueingKeeps ==
    ASSUME GInv, (\E confirmed \in BOOLEAN : Answer(confirmed)) \/ OnTopology
    PROVE  GInv'
<1>1. CASE \E confirmed \in BOOLEAN : Answer(confirmed)
  <2> DEFINE job == Job("replace", dialog.changes, dialog.revision, "start", Unread)
  <2>1. /\ Calm /\ UNCHANGED <<shared, tab, news>> /\ dialog' = NoDialog
        /\ queue' = queue \/ queue' = Append(queue, job)
    BY <1>1 DEF Answer
  <2>2. IsMap(Unread) /\ IsPlan(dialog'.changes)
    BY <2>1, NoMovesArePairs DEF IsMap, Unread, NoDialog
  <2>3. IsJob(job) /\ job.stage # "put"
    BY <2>2, NewJob DEF GInv, IsPlan
  <2> HIDE DEF job
  <2>4. (\E S : queue' \in Seq(S)) /\ Jobs'
    BY <2>1, <2>3, JobsStay, Enqueues
  <2>5. QED
    BY <2>1, <2>2, <2>4, OnlyQueue, BoundsStay DEF GInv
<1>2. CASE OnTopology
  <2> DEFINE job == Job("receive", NoMoves, 0, "read", news[1])
  <2>1. /\ Calm /\ UNCHANGED <<shared, tab, dialog>> /\ news # <<>> /\ news' = Tail(news)
        /\ queue' = Append(queue, job)
    BY <1>2 DEF OnTopology
  <2>2. /\ (\E S : news' \in Seq(S)) /\ 1 \in DOMAIN news
        /\ \A k \in DOMAIN news' : k + 1 \in DOMAIN news /\ news'[k] = news[k + 1]
    BY <2>1, TailOf DEF GInv, Sequences
  <2>3. IsJob(job) /\ job.stage # "put"
    BY <2>2, NewJob, NoMovesArePairs DEF GInv
  <2> HIDE DEF job
  <2>4. (\E S : queue' \in Seq(S)) /\ Jobs'
    BY <2>1, <2>3, Enqueues
  <2>5. \A k \in DOMAIN news' : IsMap(news'[k])
    BY <2>2 DEF GInv
  <2>6. Bounds'
    BY <2>1, BoundsStay
  <2>7. QED
    BY <2>1, <2>2, <2>4, <2>5, <2>6 DEF GInv, Sequences, IsMap, IsChanges, IsPlan
<1>3. QED
  BY <1>1, <1>2

\* What the head of the queue becomes while it reads and reviews; dom: the fields stay.
LEMMA HeadEdited ==
    ASSUME GInv, queue # <<>>, NEW stage, NEW map, IsMap(map)
    PROVE  /\ IsJob(At(stage)) /\ At(stage).stage = stage
           /\ At(stage).kind = queue[1].kind /\ At(stage).changes = queue[1].changes
           /\ At(stage).revision = queue[1].revision /\ At(stage).map = queue[1].map
           /\ IsJob([At(stage) EXCEPT !.map = map])
           /\ [At(stage) EXCEPT !.map = map].stage = stage
           /\ [At(stage) EXCEPT !.map = map].kind = queue[1].kind
           /\ [At(stage) EXCEPT !.map = map].changes = queue[1].changes
           /\ [At(stage) EXCEPT !.map = map].revision = queue[1].revision
           /\ [At(stage) EXCEPT !.map = map].map = map
<1>1. IsJob(queue[1])
  BY HeadIsJob
<1>2. QED
  BY <1>1 DEF IsJob, At

\* A drop reads the map, and goes on with it if its placements still fit.
LEMMA GetKeeps == ASSUME GInv, Get PROVE GInv'
<1>1. queue # <<>> /\ queue[1].kind = "drop" /\ UNCHANGED <<shared, tab, dialog, news>> /\ Bounds'
  BY BoundsStay DEF Get, Stage
<1>2. IsMap(shared) /\ IsJob(Failed) /\ Failed.stage = "refresh"
  BY <1>1, HeadIsJob DEF GInv
<1>3. IsJob([Failed EXCEPT !.map = shared]) /\ [Failed EXCEPT !.map = shared].stage = "refresh"
  BY <1>2 DEF IsJob
<1>4. CASE Conflicts(shared, queue[1].changes) /\ Becomes([Failed EXCEPT !.map = shared])
  BY <1>1, <1>3, <1>4, HeadWaits, OnlyQueue DEF GInv
<1>5. CASE ~Conflicts(shared, queue[1].changes) /\ Becomes([At("put") EXCEPT !.map = shared])
  <2> DEFINE job == [At("put") EXCEPT !.map = shared]
  <2>1. IsJob(job) /\ job.stage = "put" /\ job.kind = "drop" /\ job.map = shared /\ job.changes = queue[1].changes
    BY <1>1, <1>2, HeadEdited
  <2>2. Becomes(job)
    BY <1>5
  <2> HIDE DEF job
  <2>3. PICK j : j = job
    OBVIOUS
  <2>4. DropFits(j)' /\ ReviewedStill(j)
    BY <1>1, <1>2, <1>5, <2>1, <2>3 DEF DropFits, ReviewedStill, Conflicts, IsMap
  <2>5. IsJob(j) /\ Becomes(j)
    BY <2>1, <2>2, <2>3
  <2>6. (\E S : queue' \in Seq(S)) /\ Jobs'
    BY <1>1, <2>4, <2>5, HeadGoesOn
  <2>7. QED
    BY <1>1, <2>6, OnlyQueue DEF GInv
<1>6. CASE Becomes(Failed)
  BY <1>1, <1>2, <1>6, HeadWaits, OnlyQueue DEF GInv
<1>7. QED
  BY <1>4, <1>5, <1>6 DEF Get

\* A confirmed placement is built on the map of the tab, under the revision reviewed.
LEMMA BeginKeeps == ASSUME GInv, Begin PROVE GInv'
<1>1. queue # <<>> /\ queue[1].kind = "replace" /\ UNCHANGED <<shared, tab, dialog, news>> /\ Bounds'
  BY BoundsStay DEF Begin, Stage
<1>2. IsJob(Failed) /\ Failed.stage = "refresh"
  BY <1>1, HeadIsJob
<1>3. CASE Reviewed(queue[1]) /\ Becomes([At("put") EXCEPT !.map = ApplyPlacements(tab, queue[1].changes)])
  <2> DEFINE map == ApplyPlacements(tab, queue[1].changes)
             job == [At("put") EXCEPT !.map = map]
  <2>1. IsMap(map) /\ map.revision = queue[1].revision
    BY <1>3, ApplyKeepsRevision DEF GInv, Reviewed
  <2> HIDE DEF map
  <2>2. /\ IsJob(job) /\ job.stage = "put" /\ job.kind = "replace" /\ job.map = map
        /\ job.revision = queue[1].revision /\ job.changes = queue[1].changes
    BY <1>1, <2>1, HeadEdited
  <2>3. Becomes(job)
    BY <1>3 DEF map
  <2> HIDE DEF job
  <2>4. PICK j : j = job
    OBVIOUS
  <2>5. ASSUME NEW d \in DOMAIN queue[1].changes PROVE map.at[d] = queue[1].changes[d].after
    <3>1. IsPlan(queue[1].changes) /\ ~Conflicts(tab, queue[1].changes)
      BY <1>1, <1>3, HeadIsJob DEF IsJob, Reviewed
    <3>2. d \in Devices /\ tab.at[d] # Gone
      BY <2>5, <3>1 DEF IsPlan, Conflicts
    <3>3. map.at = Moved(tab.at, queue[1].changes)
      BY DEF map, ApplyPlacements, GInv, IsMap
    <3>4. QED
      BY <2>5, <3>2, <3>3 DEF Moved
  <2>6. DropFits(j)' /\ ReviewedStill(j) /\ IsJob(j) /\ Becomes(j)
    BY <2>1, <2>2, <2>3, <2>4, <2>5 DEF DropFits, ReviewedStill
  <2>7. QED
    BY <1>1, <2>6, HeadGoesOn, OnlyQueue DEF GInv
<1>4. CASE Becomes(Failed)
  BY <1>1, <1>2, <1>4, HeadWaits, OnlyQueue DEF GInv
<1>5. QED
  BY <1>3, <1>4 DEF Begin

\* After a failure the map is read, or not.
LEMMA RefreshKeeps == ASSUME GInv, Refresh PROVE GInv'
<1>1. queue # <<>> /\ UNCHANGED <<shared, tab, dialog, news>> /\ Bounds' /\ IsMap(shared)
  BY BoundsStay DEF Refresh, Stage, GInv
<1>2. /\ IsJob(At("read")) /\ At("read").stage = "read"
      /\ IsJob([At("read") EXCEPT !.map = shared]) /\ [At("read") EXCEPT !.map = shared].stage = "read"
  BY <1>1, HeadEdited
<1>3. Becomes(At("read")) \/ Becomes([At("read") EXCEPT !.map = shared])
  BY DEF Refresh
<1>4. (\E S : queue' \in Seq(S)) /\ Jobs'
  BY <1>1, <1>2, <1>3, HeadWaits
<1>5. QED
  BY <1>1, <1>4, OnlyQueue DEF GInv

\* What is sent is a map, under the revision the job has.
LEMMA BodyIsMap ==
    ASSUME GInv, queue # <<>>
    PROVE  IsMap(Body) /\ Body.revision = queue[1].map.revision
<1>1. IsMap(queue[1].map)
  BY HeadIsJob DEF IsJob
<1>2. QED
  BY <1>1, ApplyKeepsRevision DEF Body

\* The server stores the map, refuses it, or the call is lost.
LEMMA PutKeeps == ASSUME GInv, Put PROVE GInv'
<1> DEFINE map == [Body EXCEPT !.revision = @ + 1]
<1>1. queue # <<>> /\ UNCHANGED <<tab, dialog>> /\ Bounds'
  BY BoundsStay DEF Put, Stage
<1>2. IsMap(Body) /\ IsMap(map) /\ map.revision = Body.revision + 1
  BY <1>1, BodyIsMap DEF IsMap
<1> HIDE DEF map
<1>3. IsJob(Failed) /\ Failed.stage = "refresh" /\ IsJob(queue[1])
  BY <1>1, HeadIsJob
<1>4. IsJob([At("stored") EXCEPT !.map = map]) /\ [At("stored") EXCEPT !.map = map].stage = "stored"
  BY <1>1, <1>2, HeadEdited
<1>5. IsJob([At("get") EXCEPT !.tries = @ + 1]) /\ [At("get") EXCEPT !.tries = @ + 1].stage = "get"
  BY <1>3 DEF IsJob, At
<1>6. /\ Becomes([At("stored") EXCEPT !.map = map]) \/ Becomes(Failed) \/ Becomes([At("get") EXCEPT !.tries = @ + 1])
      /\ \/ UNCHANGED <<shared, news>>
         \/ shared' = map /\ news' = Append(news, map) /\ map.revision = shared.revision + 1
  BY <1>2 DEF Put, map
<1>7. shared' = shared \/ (IsMap(shared') /\ shared'.revision = shared.revision + 1)
  BY <1>2, <1>6
<1>8. (\E S : queue' \in Seq(S)) /\ Jobs'
  BY <1>1, <1>3, <1>4, <1>5, <1>6, <1>7, HeadWaits
<1>9. (\E S : news' \in Seq(S)) /\ \A k \in DOMAIN news' : IsMap(news'[k])
  BY <1>2, <1>6, Published DEF GInv, Sequences
<1>10. IsMap(shared') /\ IsMap(tab') /\ IsPlan(dialog'.changes)
  BY <1>1, <1>2, <1>6 DEF GInv
<1>11. QED
  BY <1>1, <1>8, <1>9, <1>10 DEF GInv, Sequences, IsMap, IsChanges, IsPlan

\* The answer of the job is received, and the next one runs.
LEMMA FinishKeeps == ASSUME GInv, Finish PROVE GInv'
<1>1. queue # <<>> /\ queue' = Tail(queue) /\ UNCHANGED <<shared, dialog, news>> /\ Bounds'
  BY BoundsStay DEF Finish, Stage
<1>2. /\ \E S : queue' \in Seq(S)
      /\ \A k \in DOMAIN queue' : k + 1 \in DOMAIN queue /\ queue'[k] = queue[k + 1]
  BY <1>1, TailOf DEF GInv, Sequences
<1>3. Jobs'
  BY <1>1, <1>2 DEF GInv, Jobs, IsJob, DropFits, ReviewedStill, Conflicts, IsMap, IsChanges, IsPlan
<1>4. IsMap(queue[1].map)
  BY <1>1, HeadIsJob DEF IsJob
<1>5. IsMap(tab')
  <2> DEFINE based == Rebased(queue[1].map, Tail(queue))
             preview == PlacementChanges(gesture.snapshot, tab.at, Held)
  <2>1. IsMap(ApplyPlacements(based, preview))
    BY <1>4, RebaseKeepsRevision, ApplyKeepsRevision
  <2>2. tab' = tab \/ tab' = ApplyPlacements(based, preview)
    BY DEF Finish, ReceiveTopology
  <2> HIDE DEF based, preview
  <2>3. QED
    BY <2>1, <2>2 DEF GInv
<1>6. QED
  BY <1>1, <1>2, <1>3, <1>5, OnlyQueue DEF GInv

\* Another session advances the revision, so no map that was read is taken for it.
LEMMA OtherKeeps ==
    ASSUME GInv, NEW d \in Devices, NEW place, Other(d, place)
    PROVE  GInv'
<1> DEFINE map == [revision |-> shared.revision + 1, at |-> [shared.at EXCEPT ![d] = place]]
<1>1. shared' = map /\ news' = Append(news, map) /\ Bounds' /\ UNCHANGED <<tab, dialog, queue>>
  BY DEF Other, GInv, Bounds
<1>2. IsMap(map) /\ map.revision = shared.revision + 1
  BY DEF GInv, IsMap
<1> HIDE DEF map
<1>3. (\E S : news' \in Seq(S)) /\ \A k \in DOMAIN news' : IsMap(news'[k])
  BY <1>1, <1>2, Published
<1>4. Jobs'
  <2>1. ASSUME NEW k \in DOMAIN queue PROVE (IsJob(queue[k]) /\ DropFits(queue[k]) /\ ReviewedStill(queue[k]))'
    <3>1. IsJob(queue[k]) /\ DropFits(queue[k]) /\ ReviewedStill(queue[k])
      BY DEF GInv, Jobs
    <3>2. QED
      BY <1>1, <1>2, <3>1 DEF GInv, IsJob, DropFits, ReviewedStill, Conflicts, IsMap, IsChanges, IsPlan
  <2>2. QED
    BY <1>1, <2>1 DEF Jobs
<1>5. QED
  BY <1>1, <1>2, <1>3, <1>4 DEF GInv, Sequences, IsMap, IsChanges, IsPlan

\* Every step keeps the invariant.
LEMMA GInvNext == ASSUME GInv, [Next]_vars PROVE GInv'
<1>1. ASSUME NEW d \in Devices, NEW place \in Units \cup Points \cup {Gone}, Other(d, place) PROVE GInv'
  BY <1>1, OtherKeeps
<1>2. QED
  BY <1>1, StutterKeeps, DragKeeps, ReleaseKeeps, QueueingKeeps, GetKeeps, BeginKeeps, PutKeeps,
     RefreshKeeps, FinishKeeps DEF Next, Work

-----------------------------------------------------------------------------
(* What is shown.                                                           *)

IsGesture == DOMAIN gesture = {"held", "active", "snapshot", "originals", "occupied"}

\* Who was picked up was there.
OriginalsThere == \A d \in Held : gesture.originals[d] # Gone

\* A device that was deleted is gone from the map received last and from the one shown.
GoneAlike == \A d \in Devices : base.at[d] = Gone <=> tab.at[d] = Gone

\* No revision that was read is newer than the server's.
Received ==
    /\ IsMap(base) /\ 1 <= tab.revision /\ tab.revision <= shared.revision
    /\ \A k \in DOMAIN news : news[k].revision <= shared.revision
    /\ \A k \in DOMAIN queue : queue[k].map.revision <= shared.revision

\* A drop moves devices to places, and waits for its turn with nothing read.
DropWaits(k) ==
    queue[k].kind = "drop" =>
        /\ queue[k].stage \in {"get", "put", "stored", "refresh", "read"}
        /\ k # 1 => queue[k].stage = "get" /\ queue[k].map = Unread
        /\ \A d \in DOMAIN queue[k].changes : queue[k].changes[d].after # Gone

\* What the running drop has stored is newer than what the tab has.
HeadStored ==
    queue # <<>> /\ queue[1].kind = "drop" /\ queue[1].stage = "stored" => queue[1].map.revision > tab.revision

SInv ==
    /\ IsGesture /\ OriginalsThere /\ GoneAlike /\ Received
    /\ \A k \in DOMAIN queue : DropWaits(k)
    /\ HeadStored
    /\ ShownIsTrue

\* The least element of a set of numbers.
LEMMA LessIsWellFounded == IsWellFoundedOn({ss \in Nat \X Nat : ss[1] < ss[2]}, Nat)
BY NatLessThanWellFounded DEF OpToRel

LEMMA Smallest ==
    ASSUME NEW T \in SUBSET Nat, T # {}
    PROVE  \E x \in T : \A y \in T : x <= y
<1> DEFINE R == {ss \in Nat \X Nat : ss[1] < ss[2]}
<1>1. IsWellFoundedOn(R, Nat)
  BY LessIsWellFounded
<1> HIDE DEF R
<1>2. PICK x \in T : \A y \in T : ~(<<y, x>> \in R)
  BY <1>1, WFMin
<1>3. \A y \in T : ~(y < x)
  <2>1. SUFFICES ASSUME NEW y \in T, y < x PROVE FALSE
    OBVIOUS
  <2>2. <<y, x>> \in R
    BY <2>1 DEF R
  <2>3. QED
    BY <1>2, <2>2
<1>4. QED
  BY <1>3

\* The last of some places of a sequence.
LEMMA LastOf ==
    ASSUME NEW n \in Nat, NEW S \in SUBSET (1..n), S # {}
    PROVE  Max(S) \in S /\ \A y \in S : y <= Max(S)
<1> DEFINE T == {m \in Nat : \E k \in S : m = n - k}
<1>1. T \in SUBSET Nat /\ T # {}
  <2>1. PICK k \in S : TRUE
    OBVIOUS
  <2>2. n - k \in T
    OBVIOUS
  <2>3. QED
    BY <2>2
<1>2. PICK x \in T : \A y \in T : x <= y
  <2> HIDE DEF T
  <2>1. QED
    BY <1>1, Smallest
<1>3. PICK k \in S : x = n - k
  BY <1>2
<1>4. \A y \in S : k >= y
  <2>1. SUFFICES ASSUME NEW y \in S PROVE k >= y
    OBVIOUS
  <2>2. n - y \in T
    OBVIOUS
  <2>3. n - k <= n - y
    BY <1>2, <1>3, <2>2
  <2>4. QED
    BY <2>3
<1>5. Max(S) \in S /\ \A y \in S : Max(S) >= y
  BY <1>4 DEF Max
<1>6. QED
  BY <1>5

\* A place that no other exceeds is the last one.
LEMMA LastIs ==
    ASSUME NEW n \in Nat, NEW S \in SUBSET (1..n), NEW m \in S, \A y \in S : y <= m
    PROVE  Max(S) = m
<1>1. Max(S) \in S /\ \A y \in S : y <= Max(S)
  BY LastOf
<1>2. Max(S) \in 1..n /\ m \in 1..n /\ m <= Max(S) /\ Max(S) <= m
  BY <1>1
<1>3. QED
  BY <1>2

\* The drops of a device are places in the queue, and there is a last one.
LEMMA DropPlaces ==
    ASSUME NEW jobs, \E S : jobs \in Seq(S), NEW d
    PROVE  /\ Len(jobs) \in Nat /\ DOMAIN jobs = 1..Len(jobs)
           /\ DropsOf(jobs, d) \in SUBSET (1..Len(jobs))
           /\ DropsOf(jobs, d) # {} =>
                 /\ Max(DropsOf(jobs, d)) \in DropsOf(jobs, d)
                 /\ \A k \in DropsOf(jobs, d) : k <= Max(DropsOf(jobs, d))
<1>1. Len(jobs) \in Nat /\ DOMAIN jobs = 1..Len(jobs)
  OBVIOUS
<1>2. DropsOf(jobs, d) \in SUBSET (1..Len(jobs))
  BY <1>1 DEF DropsOf
<1>3. QED
  BY <1>1, <1>2, LastOf

\* Only what the jobs move decides, not how far they are.
LEMMA PlacedSame ==
    ASSUME NEW jobs, \E S : jobs \in Seq(S), NEW jobs2, DOMAIN jobs2 = DOMAIN jobs,
           \A k \in DOMAIN jobs : jobs2[k].kind = jobs[k].kind /\ jobs2[k].changes = jobs[k].changes,
           NEW map, NEW d
    PROVE  Placed(map, jobs2, d) = Placed(map, jobs, d)
<1>1. DropsOf(jobs2, d) = DropsOf(jobs, d)
  BY DEF DropsOf
<1>2. DropsOf(jobs, d) # {} => Max(DropsOf(jobs, d)) \in DOMAIN jobs
  BY DropPlaces DEF DropsOf
<1>3. QED
  BY <1>1, <1>2 DEF Placed

\* A drop at the end of the queue decides about its devices; any other job does not.
LEMMA PlacedAppend ==
    ASSUME NEW jobs, \E S : jobs \in Seq(S), NEW job, NEW map, NEW d
    PROVE  /\ job.kind = "drop" /\ d \in DOMAIN job.changes /\ map.at[d] # Gone =>
                 Placed(map, Append(jobs, job), d) = job.changes[d].after
           /\ job.kind # "drop" \/ d \notin DOMAIN job.changes =>
                 Placed(map, Append(jobs, job), d) = Placed(map, jobs, d)
<1> DEFINE q == Append(jobs, job)
           n == Len(jobs)
<1>1. /\ \E S : q \in Seq(S)
      /\ n \in Nat /\ Len(q) = n + 1 /\ DOMAIN q = 1..(n + 1) /\ DOMAIN jobs = 1..n
      /\ q[n + 1] = job /\ \A k \in 1..n : q[k] = jobs[k]
  <2>1. PICK S : jobs \in Seq(S)
    OBVIOUS
  <2>2. jobs \in Seq(S \cup {job})
    BY <2>1
  <2>3. q \in Seq(S \cup {job})
    BY <2>2
  <2>4. QED
    BY <2>2, <2>3
<1> HIDE DEF q, n
<1>2. /\ DropsOf(q, d) \in SUBSET (1..(n + 1)) /\ DropsOf(jobs, d) \in SUBSET (1..n)
      /\ DropsOf(jobs, d) # {} => Max(DropsOf(jobs, d)) \in 1..n
  BY <1>1, DropPlaces DEF n
<1>3. ASSUME job.kind = "drop", d \in DOMAIN job.changes, map.at[d] # Gone
      PROVE  Placed(map, q, d) = job.changes[d].after
  <2>1. n + 1 \in DropsOf(q, d)
    BY <1>1, <1>3 DEF DropsOf
  <2>2. Max(DropsOf(q, d)) = n + 1
    <3>1. \A y \in DropsOf(q, d) : y <= n + 1
      BY <1>1, <1>2
    <3>2. n + 1 \in Nat
      BY <1>1
    <3>3. QED
      BY <1>2, <2>1, <3>1, <3>2, LastIs
  <2>3. QED
    BY <1>1, <1>3, <2>1, <2>2 DEF Placed
<1>4. ASSUME job.kind # "drop" \/ d \notin DOMAIN job.changes
      PROVE  Placed(map, q, d) = Placed(map, jobs, d)
  <2>1. n + 1 \notin DropsOf(q, d)
    BY <1>1, <1>4 DEF DropsOf
  <2>2. DropsOf(q, d) = DropsOf(jobs, d)
    BY <1>1, <2>1 DEF DropsOf
  <2>3. QED
    BY <1>1, <1>2, <2>2 DEF Placed
<1>5. QED
  BY <1>3, <1>4 DEF q

\* A job leaves the queue without a trace, but for the devices that it drops.
LEMMA PlacedTail ==
    ASSUME NEW jobs, \E S : jobs \in Seq(S), jobs # <<>>, NEW map, NEW d,
           jobs[1].kind # "drop" \/ d \notin DOMAIN jobs[1].changes
    PROVE  Placed(map, Tail(jobs), d) = Placed(map, jobs, d)
<1> DEFINE q == Tail(jobs)
           n == Len(jobs)
<1>1. /\ n \in Nat /\ n >= 1 /\ DOMAIN jobs = 1..n /\ DOMAIN q = 1..(n - 1)
      /\ \A k \in 1..(n - 1) : q[k] = jobs[k + 1]
      /\ \E S : q \in Seq(S)
  <2>1. PICK S : jobs \in Seq(S)
    OBVIOUS
  <2>2. QED
    BY <2>1
<1> HIDE DEF q, n
<1>2. /\ DropsOf(jobs, d) \in SUBSET (1..n) /\ DropsOf(q, d) \in SUBSET (1..(n - 1))
      /\ DropsOf(jobs, d) # {} => /\ Max(DropsOf(jobs, d)) \in DropsOf(jobs, d)
                                  /\ \A k \in DropsOf(jobs, d) : k <= Max(DropsOf(jobs, d))
  <2>1. DropsOf(q, d) \in SUBSET (1..(n - 1))
    BY <1>1 DEF DropsOf
  <2>2. QED
    BY <1>1, <2>1, DropPlaces DEF n
<1>3. \A k \in 1..(n - 1) : k \in DropsOf(q, d) <=> k + 1 \in DropsOf(jobs, d)
  BY <1>1 DEF DropsOf
<1>4. 1 \notin DropsOf(jobs, d)
  BY DEF DropsOf
<1>5. CASE DropsOf(jobs, d) = {}
  <2>1. DropsOf(q, d) = {}
    BY <1>2, <1>3, <1>5
  <2>2. QED
    BY <1>5, <2>1 DEF Placed, q
<1>6. CASE DropsOf(jobs, d) # {}
  <2>1. PICK m : m = Max(DropsOf(jobs, d))
    OBVIOUS
  <2>2. m \in DropsOf(jobs, d) /\ m \in 2..n /\ \A k \in DropsOf(jobs, d) : k <= m
    BY <1>1, <1>2, <1>4, <1>6, <2>1
  <2>3. m - 1 \in 1..(n - 1) /\ (m - 1) + 1 = m
    BY <1>1, <2>2
  <2>4. m - 1 \in DropsOf(q, d)
    BY <1>3, <2>2, <2>3
  <2>5. \A k \in DropsOf(q, d) : k <= m - 1
    <3>1. SUFFICES ASSUME NEW k \in DropsOf(q, d) PROVE k <= m - 1
      OBVIOUS
    <3>2. k \in 1..(n - 1) /\ k + 1 <= m
      BY <1>2, <1>3, <2>2
    <3>3. QED
      BY <1>1, <2>2, <3>2
  <2>6. Max(DropsOf(q, d)) = m - 1
    <3>1. n - 1 \in Nat
      BY <1>1
    <3>2. QED
      BY <1>2, <2>4, <2>5, <3>1, LastIs
  <2>7. q[m - 1] = jobs[m]
    BY <1>1, <2>3
  <2>8. QED
    BY <1>6, <2>1, <2>4, <2>6, <2>7 DEF Placed, q
<1>7. QED
  BY <1>5, <1>6

\* A map is opened: what is shown is what was received.
LEMMA SInvInit == ASSUME GesturesAssumption, Init PROVE SInv
<1>1. queue = <<>> /\ DOMAIN queue = {} /\ news = <<>> /\ DOMAIN news = {}
  BY DEF Init
<1>2. IsGesture /\ Held = {}
  BY DEF Init, IsGesture, Still, Held
<1>3. shared.revision = 1 /\ tab = shared /\ base = shared /\ IsMap(base)
  BY DEF Init, IsMap
<1>4. ~Failing
  BY <1>1 DEF Failing, Stage
<1>5. ShownIsTrue
  <2>1. SUFFICES ASSUME NEW d \in Devices PROVE tab.at[d] = Placed(base, Pending, d)
    BY DEF ShownIsTrue
  <2>2. Pending = queue /\ DropsOf(queue, d) = {}
    BY <1>1, <1>4 DEF Pending, DropsOf
  <2>3. QED
    BY <1>3, <2>2 DEF Placed
<1>6. QED
  BY <1>1, <1>2, <1>3, <1>5 DEF SInv, OriginalsThere, GoneAlike, Received, DropWaits, HeadStored

\* Nothing but the drag and its preview changes.
LEMMA OnlyPreview ==
    ASSUME SInv, UNCHANGED <<shared, queue, news, base, draft>>, tab'.revision = tab.revision,
           IsGesture', OriginalsThere', GoneAlike', ShownIsTrue'
    PROVE  SInv'
<1>1. Received'
  BY DEF SInv, Received, IsMap
<1>2. \A k \in DOMAIN queue' : DropWaits(k)'
  BY DEF SInv, DropWaits
<1>3. HeadStored'
  BY DEF SInv, HeadStored
<1>4. QED
  BY <1>1, <1>2, <1>3 DEF SInv

\* The queue did not change, so what fails and what waits is the same.
LEMMA QueueSame ==
    ASSUME UNCHANGED queue
    PROVE  /\ Failing' <=> Failing
           /\ Pending' = Pending
           /\ Unsettled' = astray' \cup IF Failing THEN DOMAIN queue[1].changes ELSE {}
           /\ astray \subseteq astray' => Unsettled \subseteq Unsettled'
BY DEF Failing, Stage, Pending, Unsettled

\* Neither what is shown nor what should be shown changes.
LEMMA ShownStays ==
    ASSUME ShownIsTrue, UNCHANGED <<tab, gesture, queue, base, astray>>
    PROVE  ShownIsTrue'
<1>1. Held' = Held /\ Unsettled' = Unsettled /\ Pending' = Pending
  BY DEF Held, Unsettled, Failing, Stage, Pending
<1>2. QED
  BY <1>1 DEF ShownIsTrue, Placed, DropsOf

\* A device is picked up where it is shown.
LEMMA PointerDownShows ==
    ASSUME SInv, NEW held, PointerDown(held)
    PROVE  SInv'
<1>1. /\ UNCHANGED <<shared, tab, queue, news, base, draft, astray>>
      /\ gesture' = [held |-> held, active |-> FALSE, snapshot |-> tab, occupied |-> NoMoves,
                     originals |-> [d \in ToSet(held) |-> tab.at[d]]]
      /\ \A i \in DOMAIN held : tab.at[held[i]] # Gone
      /\ gesture = Still
  BY DEF PointerDown, Resting
<1>2. Held' = {held[i] : i \in DOMAIN held} /\ Held = {}
  BY <1>1 DEF Held, Still
<1>3. IsGesture'
  BY <1>1 DEF IsGesture
<1>4. OriginalsThere'
  <2>1. gesture'.originals = [d \in ToSet(held) |-> tab.at[d]]
    BY <1>1
  <2>2. QED
    BY <1>1, <1>2, <2>1 DEF OriginalsThere, ToSet
<1>5. GoneAlike'
  BY <1>1 DEF SInv, GoneAlike
<1>6. ShownIsTrue'
  <2>1. ASSUME NEW d \in Devices \ (Held \cup Unsettled)' PROVE tab'.at[d] = Placed(base, Pending, d)'
    <3>1. d \notin Unsettled /\ Pending' = Pending
      BY <1>1, <2>1, QueueSame
    <3>2. tab.at[d] = Placed(base, Pending, d)
      BY <1>2, <3>1 DEF SInv, ShownIsTrue
    <3>3. QED
      BY <1>1, <3>1, <3>2 DEF Placed, DropsOf
  <2>2. QED
    BY <2>1 DEF ShownIsTrue
<1>7. QED
  BY <1>1, <1>3, <1>4, <1>5, <1>6, OnlyPreview

\* A preview moves the devices that are held, and brings none back that was deleted.
LEMMA PointerMoveShows ==
    ASSUME GesturesAssumption, GInv, SInv, NEW to \in [Held -> Units \cup Points], PointerMove(to)
    PROVE  SInv'
<1>1. UNCHANGED <<shared, queue, news, base, draft, astray>>
  BY DEF PointerMove
<1>2. PICK at \in [Devices -> Places \cup {Gone}] :
        /\ Preview(at, to) /\ tab' = [tab EXCEPT !.at = at]
        /\ gesture' = [gesture EXCEPT !.active = TRUE,
                                      !.occupied = [d \in {d \in Held : at[d] = Over} |-> to[d]]]
  BY DEF PointerMove
<1>3. tab'.at = at /\ tab'.revision = tab.revision
  BY <1>2 DEF GInv, IsMap
<1>4. IsGesture' /\ gesture'.held = gesture.held /\ gesture'.originals = gesture.originals
  BY <1>2 DEF SInv, IsGesture
<1>5. Held' = Held /\ OriginalsThere'
  BY <1>4 DEF Held, SInv, OriginalsThere
<1>6. GoneAlike'
  <2>1. SUFFICES ASSUME NEW d \in Devices PROVE at[d] = Gone <=> tab.at[d] = Gone
    BY <1>1, <1>3 DEF SInv, GoneAlike
  <2>2. CASE d \in Held
    <3>1. PICK i \in DOMAIN gesture.held : d = gesture.held[i]
      BY <2>2 DEF Held
    <3>2. at[d] = IF tab.at[d] = Gone THEN Gone
                  ELSE IF to[d] \in Units /\ Occupied(at, i, to[d]) THEN Over ELSE to[d]
      BY <1>2, <3>1 DEF Preview
    <3>3. to[d] # Gone /\ Over # Gone
      BY <2>2 DEF GesturesAssumption, Places, Free
    <3>4. QED
      BY <3>2, <3>3
  <2>3. CASE d \notin Held
    BY <1>2, <2>3 DEF Preview
  <2>4. QED
    BY <2>2, <2>3
<1>7. ShownIsTrue'
  <2>1. ASSUME NEW d \in Devices \ (Held \cup Unsettled)' PROVE tab'.at[d] = Placed(base, Pending, d)'
    <3>1. d \notin Unsettled /\ Pending' = Pending
      BY <1>1, <2>1, QueueSame
    <3>2. tab.at[d] = Placed(base, Pending, d) /\ at[d] = tab.at[d]
      BY <1>2, <1>5, <3>1 DEF SInv, ShownIsTrue, Preview
    <3>3. QED
      BY <1>1, <1>3, <3>1, <3>2 DEF Placed, DropsOf
  <2>2. QED
    BY <2>1 DEF ShownIsTrue
<1>8. QED
  BY <1>1, <1>3, <1>4, <1>5, <1>6, <1>7, OnlyPreview

\* Nobody is held.
LEMMA Rests ==
    ASSUME gesture' = Still
    PROVE  IsGesture' /\ Held' = {} /\ OriginalsThere'
<1>1. gesture'.held = <<>>
  BY DEF Still
<1>2. Held' = {}
  BY <1>1 DEF Held
<1>3. QED
  BY <1>2 DEF IsGesture, Still, OriginalsThere

\* A drag ends without a drop: what it put back is where the map has it, or marked.
LEMMA PutBackShows ==
    ASSUME GInv, SInv, gesture' = Still, tab' = [tab EXCEPT !.at = Restored], PutBack(Restored, Held),
           UNCHANGED <<shared, queue, news, base, draft>>
    PROVE  SInv'
<1>1. tab'.at = Restored /\ tab'.revision = tab.revision
  BY DEF GInv, IsMap
<1>2. \A d \in Devices : Restored[d] = IF d \in Held /\ tab.at[d] # Gone THEN gesture.originals[d] ELSE tab.at[d]
  BY DEF Restored
<1>3. \A d \in Devices : Restored[d] = Gone <=> tab.at[d] = Gone
  BY <1>2 DEF SInv, OriginalsThere
<1>4. GoneAlike'
  BY <1>1, <1>3 DEF SInv, GoneAlike
<1>5. ShownIsTrue'
  <2>1. ASSUME NEW d \in Devices \ (Held \cup Unsettled)' PROVE tab'.at[d] = Placed(base, Pending, d)'
    <3>1. /\ d \notin Unsettled /\ Pending' = Pending
          /\ d \in Held => Restored[d] \in {Gone, Placed(base, Pending, d)}
      <4>1. astray' = astray \cup {e \in Held : Restored[e] \notin {Gone, Placed(base, Pending, e)}}
        BY DEF PutBack
      <4>2. d \notin astray' /\ d \notin Unsettled /\ Pending' = Pending
        BY <2>1, <4>1, QueueSame
      <4>3. QED
        BY <4>1, <4>2
    <3>2. Restored[d] = Placed(base, Pending, d)
      <4>1. CASE d \notin Held
        BY <1>2, <3>1, <4>1 DEF SInv, ShownIsTrue
      <4>2. CASE d \in Held /\ Restored[d] = Gone
        BY <1>3, <4>2 DEF SInv, GoneAlike, Placed
      <4>3. CASE d \in Held /\ Restored[d] # Gone
        BY <3>1, <4>3
      <4>4. QED
        BY <4>1, <4>2, <4>3
    <3>3. QED
      BY <1>1, <3>1, <3>2 DEF Placed, DropsOf
  <2>2. QED
    BY <2>1 DEF ShownIsTrue
<1>6. QED
  BY <1>1, <1>4, <1>5, Rests, OnlyPreview

\* A job joins the queue that has read nothing, or an event with its map.
LEMMA JoinsShows ==
    ASSUME GInv, SInv, NEW job, job.kind \in {"drop", "replace", "receive"}, queue' = Append(queue, job),
           UNCHANGED <<shared, tab, base, draft>>, IsGesture', OriginalsThere',
           \A k \in DOMAIN news' : news'[k].revision <= shared'.revision,
           job.map.revision <= shared.revision,
           job.kind = "drop" => job.stage = "get" /\ job.map = Unread /\ \A d \in DOMAIN job.changes : job.changes[d].after # Gone,
           ShownIsTrue'
    PROVE  SInv'
<1>1. PICK S : queue \in Seq(S)
  BY DEF GInv, Sequences
<1>2. /\ DOMAIN queue' = 1..(Len(queue) + 1) /\ DOMAIN queue = 1..Len(queue) /\ Len(queue) \in Nat
      /\ queue'[Len(queue) + 1] = job /\ \A k \in DOMAIN queue : queue'[k] = queue[k]
  <2>1. queue \in Seq(S \cup {job})
    BY <1>1
  <2>2. QED
    BY <2>1
<1>3. \A k \in DOMAIN queue' : queue'[k] = job \/ (k \in DOMAIN queue /\ queue'[k] = queue[k])
  BY <1>2
<1>4. Received'
  BY <1>3 DEF SInv, Received, IsMap
<1>5. ASSUME NEW k \in DOMAIN queue' PROVE DropWaits(k)'
  <2>1. CASE queue'[k] = job
    BY <2>1 DEF DropWaits
  <2>2. CASE k \in DOMAIN queue /\ queue'[k] = queue[k]
    BY <2>2 DEF SInv, DropWaits
  <2>3. QED
    BY <1>3, <2>1, <2>2
<1>6. HeadStored'
  <2>1. CASE queue = <<>>
    <3>1. queue'[1] = job
      BY <1>2, <2>1
    <3>2. QED
      BY <3>1 DEF HeadStored
  <2>2. CASE queue # <<>>
    <3>1. queue'[1] = queue[1]
      BY <1>1, <1>2, <2>2
    <3>2. QED
      BY <2>2, <3>1 DEF SInv, HeadStored
  <2>3. QED
    BY <2>1, <2>2
<1>7. GoneAlike'
  BY DEF SInv, GoneAlike
<1>8. QED
  BY <1>4, <1>5, <1>6, <1>7 DEF SInv

\* What fails, and what waits, when a job joins the queue.
LEMMA PendingJoined ==
    ASSUME GInv, NEW job, queue' = Append(queue, job), job.kind = "drop" => job.stage = "get"
    PROVE  /\ Failing' <=> Failing
           /\ \E S : Pending \in Seq(S)
           /\ Pending' = Append(Pending, job)
           /\ astray \subseteq astray' => Unsettled \subseteq Unsettled'
<1>1. PICK S : queue \in Seq(S)
  BY DEF GInv, Sequences
<1>2. queue \in Seq(S \cup {job})
  BY <1>1
<1>3. queue' # <<>> /\ queue'[1] = IF queue = <<>> THEN job ELSE queue[1]
  BY <1>2
<1>4. Failing' <=> Failing
  BY <1>3 DEF Failing, Stage
<1>5. queue # <<>> => /\ Tail(queue) \in Seq(S)
                      /\ Tail(Append(queue, job)) = Append(Tail(queue), job)
  BY <1>1, <1>2
<1>6. Failing => queue # <<>>
  BY DEF Failing, Stage
<1>7. \E T : Pending \in Seq(T)
  BY <1>1, <1>5, <1>6 DEF Pending
<1>8. Pending' = Append(Pending, job)
  BY <1>4, <1>5, <1>6 DEF Pending
<1>9. astray \subseteq astray' => Unsettled \subseteq Unsettled'
  BY <1>3, <1>4, <1>6 DEF Unsettled
<1>10. QED
  BY <1>4, <1>7, <1>8, <1>9

\* A drop is shown where it was made, and queued; what was put back is marked.
LEMMA ReleaseShows ==
    ASSUME GInv, SInv, Release
    PROVE  SInv'
<1> DEFINE changes == IF gesture.active THEN PlacementChanges(gesture.snapshot, tab.at, Held) ELSE NoMoves
           job == Job("drop", changes, 0, "get", Unread)
<1>1. /\ DOMAIN changes \subseteq Held
      /\ \A d \in DOMAIN changes : changes[d].after = tab.at[d] /\ tab.at[d] # Gone
  BY DEF PlacementChanges, NoMoves
<1>2. /\ UNCHANGED <<shared, tab, news, base, draft>> /\ gesture' = Still
      /\ queue' = IF changes = NoMoves THEN queue ELSE Append(queue, job)
      /\ PutBack(tab.at, Held \ DOMAIN changes)
  BY DEF Release
<1>3. /\ job.kind = "drop" /\ job.stage = "get" /\ job.map = Unread /\ job.changes = changes
  BY DEF Job
<1> HIDE DEF changes, job
<1>4. IsGesture' /\ Held' = {} /\ OriginalsThere'
  BY <1>2, Rests
<1>5. ASSUME NEW d \in Devices, d \notin Unsettled, d \notin astray', d \notin DOMAIN changes
      PROVE  tab.at[d] = Placed(base, Pending, d)
  <2>1. CASE d \notin Held
    BY <1>5, <2>1 DEF SInv, ShownIsTrue
  <2>2. CASE d \in Held /\ tab.at[d] = Gone
    BY <2>2 DEF SInv, GoneAlike, Placed
  <2>3. CASE d \in Held /\ tab.at[d] # Gone
    <3>1. astray' = astray \cup {e \in Held \ DOMAIN changes : tab.at[e] \notin {Gone, Placed(base, Pending, e)}}
      BY <1>2 DEF PutBack
    <3>2. QED
      BY <1>5, <2>3, <3>1
  <2>4. QED
    BY <2>1, <2>2, <2>3
<1>6. CASE changes = NoMoves
  <2>1. queue' = queue /\ DOMAIN changes = {}
    BY <1>2, <1>6 DEF NoMoves
  <2>2. GoneAlike'
    BY <1>2 DEF SInv, GoneAlike
  <2>3. ShownIsTrue'
    <3>1. ASSUME NEW d \in Devices \ (Held \cup Unsettled)' PROVE tab'.at[d] = Placed(base, Pending, d)'
      <4>1. d \notin Unsettled /\ d \notin astray' /\ Pending' = Pending
        BY <1>2, <2>1, <3>1, QueueSame DEF PutBack
      <4>2. tab.at[d] = Placed(base, Pending, d)
        BY <1>5, <2>1, <4>1
      <4>3. QED
        BY <1>2, <4>1, <4>2 DEF Placed, DropsOf
    <3>2. QED
      BY <3>1 DEF ShownIsTrue
  <2>4. QED
    BY <1>2, <1>4, <2>1, <2>2, <2>3, OnlyPreview
<1>7. CASE changes # NoMoves
  <2>1. queue' = Append(queue, job)
    BY <1>2, <1>7
  <2>2. /\ \E S : Pending \in Seq(S)
        /\ Pending' = Append(Pending, job)
        /\ astray \subseteq astray' => Unsettled \subseteq Unsettled'
    BY <1>3, <2>1, PendingJoined
  <2>3. ShownIsTrue'
    <3>1. ASSUME NEW d \in Devices \ (Held \cup Unsettled)' PROVE tab'.at[d] = Placed(base, Pending, d)'
      <4>1. d \notin Unsettled /\ d \notin astray'
        BY <1>2, <2>2, <3>1 DEF PutBack, Unsettled
      <4>2. Placed(base, Pending, d)' = Placed(base, Append(Pending, job), d)
        BY <1>2, <2>2 DEF Placed, DropsOf
      <4>3. \E S : Pending \in Seq(S)
        BY <2>2
      <4>4. CASE d \in DOMAIN changes
        <5>1. base.at[d] # Gone /\ changes[d].after = tab.at[d]
          BY <1>1, <4>4 DEF SInv, GoneAlike
        <5>2. Placed(base, Append(Pending, job), d) = job.changes[d].after
          BY <1>3, <4>3, <4>4, <5>1, PlacedAppend
        <5>3. QED
          BY <1>2, <1>3, <4>2, <5>1, <5>2
      <4>5. CASE d \notin DOMAIN changes
        <5>1. Placed(base, Append(Pending, job), d) = Placed(base, Pending, d)
          BY <1>3, <4>3, <4>5, PlacedAppend
        <5>2. tab.at[d] = Placed(base, Pending, d)
          BY <1>5, <4>1, <4>5
        <5>3. QED
          BY <1>2, <4>2, <5>1, <5>2
      <4>6. QED
        BY <4>4, <4>5
    <3>2. QED
      BY <3>1 DEF ShownIsTrue
  <2>4. \A k \in DOMAIN news' : news'[k].revision <= shared'.revision
    BY <1>2 DEF SInv, Received
  <2>5. job.map.revision <= shared.revision
    BY <1>3 DEF Unread, SInv, Received, GInv, IsMap
  <2>6. \A d \in DOMAIN job.changes : job.changes[d].after # Gone
    BY <1>1, <1>3
  <2>7. QED
    BY <1>2, <1>3, <1>4, <2>1, <2>3, <2>4, <2>5, <2>6, JoinsShows
<1>8. QED
  BY <1>6, <1>7

\* A confirmed placement, or an event, joins the queue: nothing shown changes.
LEMMA QueueingShows ==
    ASSUME GInv, SInv, (\E confirmed \in BOOLEAN : Answer(confirmed)) \/ OnTopology
    PROVE  SInv'
<1>1. /\ UNCHANGED <<shared, tab, gesture, base, draft, astray>>
      /\ IsGesture' /\ Held' = Held /\ OriginalsThere' /\ GoneAlike'
  BY DEF Answer, OnTopology, SInv, IsGesture, Held, OriginalsThere, GoneAlike
<1>2. ASSUME NEW job, job.kind \in {"replace", "receive"}, queue' = Append(queue, job) PROVE ShownIsTrue'
  <2>1. /\ \E S : Pending \in Seq(S)
        /\ Pending' = Append(Pending, job)
        /\ astray \subseteq astray' => Unsettled \subseteq Unsettled'
    BY <1>2, PendingJoined
  <2>2. ASSUME NEW d \in Devices \ (Held \cup Unsettled)' PROVE tab'.at[d] = Placed(base, Pending, d)'
    <3>1. d \notin Unsettled /\ d \in Devices \ Held
      BY <1>1, <2>1, <2>2
    <3>2. tab.at[d] = Placed(base, Pending, d)
      BY <3>1 DEF SInv, ShownIsTrue
    <3>3. Placed(base, Append(Pending, job), d) = Placed(base, Pending, d)
      BY <1>2, <2>1, PlacedAppend
    <3>4. Placed(base, Pending, d)' = Placed(base, Append(Pending, job), d)
      BY <1>1, <2>1 DEF Placed, DropsOf
    <3>5. QED
      BY <1>1, <3>2, <3>3, <3>4
  <2>3. QED
    BY <2>2 DEF ShownIsTrue
<1>3. CASE \E confirmed \in BOOLEAN : Answer(confirmed)
  <2> DEFINE job == Job("replace", dialog.changes, dialog.revision, "start", Unread)
  <2>1. UNCHANGED news /\ (queue' = queue \/ queue' = Append(queue, job))
    BY <1>3 DEF Answer
  <2>2. job.kind = "replace" /\ job.map = Unread
    BY DEF Job
  <2> HIDE DEF job
  <2>3. CASE queue' = queue
    <3>1. ShownIsTrue'
      BY <1>1, <2>3, QueueSame DEF SInv, ShownIsTrue, Unsettled, Placed, DropsOf
    <3>2. QED
      BY <1>1, <2>1, <2>3, <3>1, OnlyPreview
  <2>4. CASE queue' = Append(queue, job)
    <3>1. ShownIsTrue'
      BY <1>2, <2>2, <2>4
    <3>2. \A k \in DOMAIN news' : news'[k].revision <= shared'.revision
      BY <1>1, <2>1 DEF SInv, Received
    <3>3. job.map.revision <= shared.revision
      BY <2>2 DEF Unread, SInv, Received, GInv, IsMap
    <3>4. QED
      BY <1>1, <2>2, <2>4, <3>1, <3>2, <3>3, JoinsShows
  <2>5. QED
    BY <2>1, <2>3, <2>4
<1>4. CASE OnTopology
  <2> DEFINE job == Job("receive", NoMoves, 0, "read", news[1])
  <2>1. news # <<>> /\ news' = Tail(news) /\ queue' = Append(queue, job)
    BY <1>4 DEF OnTopology
  <2>2. job.kind = "receive" /\ job.map = news[1]
    BY DEF Job
  <2> HIDE DEF job
  <2>3. /\ 1 \in DOMAIN news
        /\ \A k \in DOMAIN news' : k + 1 \in DOMAIN news /\ news'[k] = news[k + 1]
    BY <2>1, TailOf DEF GInv, Sequences
  <2>4. \A k \in DOMAIN news' : news'[k].revision <= shared'.revision
    BY <1>1, <2>3 DEF SInv, Received
  <2>5. job.map.revision <= shared.revision
    BY <2>2, <2>3 DEF SInv, Received
  <2>6. ShownIsTrue'
    BY <1>2, <2>1, <2>2
  <2>7. QED
    BY <1>1, <2>1, <2>2, <2>4, <2>5, <2>6, JoinsShows
<1>5. QED
  BY <1>3, <1>4

\* The running job goes on, on the server or after a reading; nothing shown changes.
LEMMA HeadShows ==
    ASSUME GInv, SInv, queue # <<>>, NEW job, Becomes(job), job.kind = queue[1].kind, job.changes = queue[1].changes,
           UNCHANGED <<tab, gesture, base, draft, astray>>,
           shared'.revision \in Nat, shared.revision <= shared'.revision,
           \A k \in DOMAIN news' : news'[k].revision <= shared'.revision,
           job.map.revision <= shared'.revision,
           Failing => job.stage \in {"refresh", "read"},
           job.kind = "drop" =>
              /\ job.stage \in {"get", "put", "stored", "refresh", "read"}
              /\ job.stage = "stored" => job.map.revision > tab.revision
    PROVE  SInv'
<1>1. /\ 1 \in DOMAIN queue /\ DOMAIN queue' = DOMAIN queue /\ queue'[1] = job /\ queue' # <<>>
      /\ \A k \in DOMAIN queue : k # 1 => queue'[k] = queue[k]
      /\ \E S : queue' \in Seq(S)
  <2>1. PICK S : queue \in Seq(S)
    BY DEF GInv, Sequences
  <2>2. 1 \in DOMAIN queue
    BY <2>1
  <2>3. /\ DOMAIN queue' = DOMAIN queue /\ queue'[1] = job
        /\ \A k \in DOMAIN queue : k # 1 => queue'[k] = queue[k]
        /\ \E T : queue' \in Seq(T)
    BY <2>1, HeadReplaced DEF Becomes
  <2>4. queue' # <<>>
    BY <2>2, <2>3
  <2>5. QED
    BY <2>2, <2>3, <2>4
<1>2. IsGesture' /\ Held' = Held /\ OriginalsThere' /\ GoneAlike'
  BY DEF SInv, IsGesture, Held, OriginalsThere, GoneAlike
<1>3. Received'
  <2>1. \A k \in DOMAIN queue' : queue'[k].map.revision <= shared'.revision
    <3>1. SUFFICES ASSUME NEW k \in DOMAIN queue', k # 1 PROVE queue'[k].map.revision <= shared'.revision
      BY <1>1
    <3>2. queue'[k] = queue[k] /\ queue[k].map.revision <= shared.revision /\ queue[k].map.revision \in Nat
      BY <1>1, <3>1 DEF SInv, Received, GInv, Jobs, IsJob, IsMap
    <3>3. QED
      BY <3>2 DEF GInv, IsMap
  <2>2. tab'.revision <= shared'.revision
    BY DEF SInv, Received, GInv, IsMap
  <2>3. QED
    BY <2>1, <2>2 DEF SInv, Received, IsMap
<1>4. ASSUME NEW k \in DOMAIN queue' PROVE DropWaits(k)'
  <2>1. CASE k = 1
    BY <1>1, <2>1 DEF SInv, DropWaits
  <2>2. CASE k # 1
    BY <1>1, <2>2 DEF SInv, DropWaits
  <2>3. QED
    BY <2>1, <2>2
<1>5. HeadStored'
  BY <1>1 DEF HeadStored
<1>6. ShownIsTrue'
  <2>1. ASSUME NEW d \in Devices \ (Held \cup Unsettled)' PROVE tab'.at[d] = Placed(base, Pending, d)'
    <3>1. PICK S : queue \in Seq(S)
      BY DEF GInv, Sequences
    <3>2. queue' \in Seq(S \cup {job}) /\ Tail(queue') = Tail(queue)
      BY <1>1, <3>1 DEF Becomes
    <3>3. d \notin Unsettled /\ d \in Devices \ Held
      BY <1>1, <1>2, <2>1 DEF Unsettled, Failing, Stage
    <3>4. tab.at[d] = Placed(base, Pending, d)
      BY <3>3 DEF SInv, ShownIsTrue
    <3>5. Placed(base, queue', d) = Placed(base, queue, d)
      <4>1. \A k \in DOMAIN queue : queue'[k].kind = queue[k].kind /\ queue'[k].changes = queue[k].changes
        BY <1>1
      <4>2. QED
        BY <1>1, <4>1, PlacedSame DEF GInv, Sequences
    <3>6. Failing' => d \notin DOMAIN queue[1].changes
      BY <1>1, <2>1 DEF Unsettled
    <3>7. Failing' => Placed(base, Tail(queue), d) = Placed(base, queue, d)
      BY <3>1, <3>6, PlacedTail
    <3>8. Failing => Failing'
      BY <1>1 DEF Failing, Stage
    <3>9. Placed(base, Pending', d) = Placed(base, Pending, d)
      BY <3>2, <3>5, <3>7, <3>8 DEF Pending
    <3>10. Placed(base, Pending, d)' = Placed(base, Pending', d)
      BY DEF Placed, DropsOf
    <3>11. QED
      BY <3>4, <3>9, <3>10
  <2>2. QED
    BY <2>1 DEF ShownIsTrue
<1>7. QED
  BY <1>2, <1>3, <1>4, <1>5, <1>6 DEF SInv

\* What a failed job is left with.
LEMMA FailedHas ==
    ASSUME GInv, queue # <<>>
    PROVE  /\ IsJob(Failed) /\ Failed.stage = "refresh"
           /\ Failed.kind = queue[1].kind /\ Failed.changes = queue[1].changes
           /\ Failed.map = IF queue[1].kind = "drop" THEN queue[1].map ELSE Unread
<1>1. IsJob(queue[1])
  BY HeadIsJob
<1>2. IsJob(Failed)
  BY HeadIsJob
<1>3. QED
  BY <1>1, <1>2 DEF IsJob, Failed

\* A failed job shows what it showed: its drop counts no more.
LEMMA FailedShows ==
    ASSUME GInv, SInv, queue # <<>>, Becomes(Failed), UNCHANGED <<tab, gesture, base, draft, astray>>,
           IsMap(shared'), shared.revision <= shared'.revision,
           \A k \in DOMAIN news' : news'[k].revision <= shared'.revision,
           queue[1].kind = "drop" => queue[1].stage # "stored"
    PROVE  SInv'
<1>1. PICK job : job = Failed
  OBVIOUS
<1>2. /\ job.stage = "refresh" /\ job.kind = queue[1].kind /\ job.changes = queue[1].changes
      /\ job.map = IF queue[1].kind = "drop" THEN queue[1].map ELSE Unread
  BY <1>1, FailedHas
<1>3. 1 \in DOMAIN queue /\ IsMap(queue[1].map) /\ queue[1].map.revision <= shared.revision
  BY HeadIsJob DEF IsJob, SInv, Received
<1>4. job.map.revision <= shared'.revision
  BY <1>2, <1>3 DEF Unread, GInv, IsMap
<1>5. QED
  BY <1>1, <1>2, <1>4, HeadShows DEF IsMap

\* What was published stays known when the server goes on.
LEMMA NewsKnown ==
    ASSUME GInv, SInv, NEW map, IsMap(map), shared.revision <= map.revision, news' = Append(news, map)
    PROVE  \A k \in DOMAIN news' : news'[k].revision <= map.revision
<1>1. \A k \in DOMAIN news' : news'[k] = map \/ (k \in DOMAIN news /\ news'[k] = news[k])
  BY Appended DEF GInv, Sequences
<1>2. \A k \in DOMAIN news : news[k].revision <= shared.revision /\ news[k].revision \in Nat /\ shared.revision \in Nat
  BY DEF SInv, Received, GInv, IsMap
<1>3. QED
  BY <1>1, <1>2 DEF IsMap

\* A drop reads the map again; a confirmed placement is built.
LEMMA ReadingShows == ASSUME GInv, SInv, Get \/ Begin \/ Refresh PROVE SInv'
<1>1. /\ queue # <<>> /\ UNCHANGED <<shared, tab, gesture, news, base, draft, astray>>
      /\ IsMap(shared') /\ shared.revision <= shared'.revision /\ shared'.revision \in Nat
      /\ \A k \in DOMAIN news' : news'[k].revision <= shared'.revision
      /\ IsMap(shared) /\ tab.revision <= shared.revision /\ shared.revision >= tab.revision
  BY DEF Get, Begin, Refresh, Stage, GInv, IsMap, SInv, Received
<1>2. CASE Get
  <2>1. queue[1].kind = "drop" /\ queue[1].stage = "get" /\ ~Failing
    BY <1>2 DEF Get, Stage, Failing
  <2>2. CASE Becomes([At("put") EXCEPT !.map = shared])
    <3>1. PICK job : job = [At("put") EXCEPT !.map = shared]
      OBVIOUS
    <3>2. job.stage = "put" /\ job.kind = queue[1].kind /\ job.changes = queue[1].changes /\ job.map = shared
      BY <1>1, <3>1, HeadEdited
    <3>3. QED
      BY <1>1, <2>1, <2>2, <3>1, <3>2, HeadShows
  <2>3. CASE Becomes([Failed EXCEPT !.map = shared])
    <3>1. PICK job : job = [Failed EXCEPT !.map = shared]
      OBVIOUS
    <3>2. job.stage = "refresh" /\ job.kind = queue[1].kind /\ job.changes = queue[1].changes /\ job.map = shared
      BY <1>1, <3>1, FailedHas DEF IsJob
    <3>3. QED
      BY <1>1, <2>1, <2>3, <3>1, <3>2, HeadShows
  <2>4. CASE Becomes(Failed)
    BY <1>1, <2>1, <2>4, FailedShows
  <2>5. QED
    BY <1>2, <2>2, <2>3, <2>4 DEF Get
<1>3. CASE Begin
  <2>1. queue[1].kind = "replace" /\ ~Failing
    BY <1>3 DEF Begin, Stage, Failing
  <2>2. CASE Becomes([At("put") EXCEPT !.map = ApplyPlacements(tab, queue[1].changes)])
    <3>1. PICK map : map = ApplyPlacements(tab, queue[1].changes)
      OBVIOUS
    <3>2. IsMap(map) /\ map.revision = tab.revision
      BY <3>1, ApplyKeepsRevision DEF GInv
    <3>3. PICK job : job = [At("put") EXCEPT !.map = map]
      OBVIOUS
    <3>4. job.kind = queue[1].kind /\ job.changes = queue[1].changes /\ job.map = map
      BY <1>1, <3>2, <3>3, HeadEdited
    <3>5. QED
      BY <1>1, <2>1, <2>2, <3>1, <3>2, <3>3, <3>4, HeadShows
  <2>3. CASE Becomes(Failed)
    BY <1>1, <2>1, <2>3, FailedShows
  <2>4. QED
    BY <1>3, <2>2, <2>3 DEF Begin
<1>4. CASE Refresh
  <2>1. queue[1].kind \in {"drop", "replace"} /\ queue[1].stage = "refresh"
    BY <1>4 DEF Refresh, Stage
  <2>2. CASE Becomes([At("read") EXCEPT !.map = shared])
    <3>1. PICK job : job = [At("read") EXCEPT !.map = shared]
      OBVIOUS
    <3>2. job.stage = "read" /\ job.kind = queue[1].kind /\ job.changes = queue[1].changes /\ job.map = shared
      BY <1>1, <3>1, HeadEdited
    <3>3. QED
      BY <1>1, <2>1, <2>2, <3>1, <3>2, HeadShows
  <2>3. CASE Becomes(At("read"))
    <3>1. PICK job : job = At("read")
      OBVIOUS
    <3>2. job.stage = "read" /\ job.kind = queue[1].kind /\ job.changes = queue[1].changes /\ job.map = queue[1].map
      BY <1>1, <3>1, HeadEdited
    <3>3. 1 \in DOMAIN queue /\ queue[1].map.revision <= shared'.revision
      BY <1>1, HeadIsJob DEF SInv, Received
    <3>4. QED
      BY <1>1, <2>1, <2>3, <3>1, <3>2, <3>3, HeadShows
  <2>4. QED
    BY <1>4, <2>2, <2>3 DEF Refresh
<1>5. QED
  BY <1>2, <1>3, <1>4

\* The server answers: a stored map is newer than any that was received.
LEMMA PutShows == ASSUME GInv, SInv, Put PROVE SInv'
<1> DEFINE map == [Body EXCEPT !.revision = @ + 1]
<1>1. queue # <<>> /\ queue[1].kind \in {"drop", "replace"} /\ queue[1].stage = "put" /\ ~Failing
      /\ UNCHANGED <<tab, gesture, base, draft, astray>>
  BY DEF Put, Stage, Failing
<1>2. IsMap(Body) /\ IsMap(map) /\ map.revision = Body.revision + 1 /\ IsMap(shared) /\ IsMap(tab)
  BY <1>1, BodyIsMap DEF IsMap, GInv
<1>3. \/ UNCHANGED <<shared, news>>
      \/ shared' = map /\ news' = Append(news, map) /\ map.revision = shared.revision + 1
  BY <1>2 DEF Put, map
<1>4. /\ IsMap(shared') /\ shared.revision <= shared'.revision /\ shared'.revision \in Nat
      /\ \A k \in DOMAIN news' : news'[k].revision <= shared'.revision
  <2>1. CASE UNCHANGED <<shared, news>>
    BY <1>2, <2>1 DEF IsMap, SInv, Received
  <2>2. CASE shared' = map /\ news' = Append(news, map) /\ map.revision = shared.revision + 1
    <3> HIDE DEF map
    <3>1. shared.revision <= map.revision /\ map.revision \in Nat
      BY <1>2, <2>2 DEF IsMap
    <3>2. QED
      BY <1>2, <2>2, <3>1, NewsKnown
  <2>3. QED
    BY <1>3, <2>1, <2>2
<1>5. CASE shared' = map /\ Becomes([At("stored") EXCEPT !.map = map]) /\ map.revision = shared.revision + 1
  <2> HIDE DEF map
  <2>1. PICK job : job = [At("stored") EXCEPT !.map = map]
    OBVIOUS
  <2>2. job.stage = "stored" /\ job.kind = queue[1].kind /\ job.changes = queue[1].changes /\ job.map = map
    BY <1>1, <1>2, <2>1, HeadEdited
  <2>3. map.revision > tab.revision /\ map.revision <= shared'.revision
    BY <1>2, <1>5 DEF IsMap, SInv, Received
  <2>4. QED
    BY <1>1, <1>4, <1>5, <2>1, <2>2, <2>3, HeadShows
<1>6. CASE Becomes(Failed)
  BY <1>1, <1>4, <1>6, FailedShows
<1>7. CASE queue[1].kind = "drop" /\ Becomes([At("get") EXCEPT !.tries = @ + 1])
  <2>1. PICK job : job = [At("get") EXCEPT !.tries = @ + 1]
    OBVIOUS
  <2>2. IsJob(queue[1])
    BY <1>1, HeadIsJob
  <2>3. job.stage = "get" /\ job.kind = queue[1].kind /\ job.changes = queue[1].changes /\ job.map = queue[1].map
    BY <2>1, <2>2 DEF IsJob, At
  <2>4. 1 \in DOMAIN queue /\ queue[1].map.revision <= shared.revision /\ queue[1].map.revision \in Nat
    BY <1>1, HeadIsJob DEF SInv, Received, IsJob, IsMap
  <2>5. job.map.revision <= shared'.revision
    BY <1>2, <1>4, <2>3, <2>4 DEF IsMap
  <2>6. QED
    BY <1>1, <1>4, <1>7, <2>1, <2>3, <2>5, HeadShows
<1>8. QED
  <2>1. \/ shared' = map /\ Becomes([At("stored") EXCEPT !.map = map]) /\ map.revision = shared.revision + 1
        \/ Becomes(Failed)
        \/ queue[1].kind = "drop" /\ Becomes([At("get") EXCEPT !.tries = @ + 1])
    BY <1>2 DEF Put, map
  <2>2. QED
    BY <1>5, <1>6, <1>7, <2>1

\* The moves of a drag take nothing away and bring nothing back.
LEMMA MovedKeepsGone ==
    ASSUME NEW at, NEW changes, \A d \in DOMAIN changes : changes[d].after # Gone
    PROVE  \A d \in Devices : /\ Moved(at, changes)[d] = Gone <=> at[d] = Gone
                              /\ d \notin DOMAIN changes => Moved(at, changes)[d] = at[d]
BY DEF Moved

\* The jobs behind the one that is answered.
LEMMA RestWaits ==
    ASSUME GInv, SInv, queue # <<>>, queue' = Tail(queue)
    PROVE  /\ \E S : queue' \in Seq(S)
           /\ \A k \in DOMAIN queue' : k + 1 \in DOMAIN queue /\ queue'[k] = queue[k + 1] /\ k + 1 # 1
           /\ \A k \in DOMAIN queue' : queue'[k].kind = "drop" =>
                 /\ queue'[k].stage = "get" /\ queue'[k].map = Unread
                 /\ \A d \in DOMAIN queue'[k].changes : queue'[k].changes[d].after # Gone
           /\ \A k \in DOMAIN queue' : queue'[k].map.revision <= shared.revision
           /\ ~Failing' /\ Pending' = queue'
<1>1. PICK S : queue \in Seq(S)
  BY DEF GInv, Sequences
<1>2. /\ queue' \in Seq(S)
      /\ \A k \in DOMAIN queue' : k + 1 \in DOMAIN queue /\ queue'[k] = queue[k + 1] /\ k + 1 # 1
      /\ queue' # <<>> => 1 \in DOMAIN queue'
  BY <1>1
<1>3. \A k \in DOMAIN queue' : queue'[k].kind = "drop" =>
         /\ queue'[k].stage = "get" /\ queue'[k].map = Unread
         /\ \A d \in DOMAIN queue'[k].changes : queue'[k].changes[d].after # Gone
  BY <1>2 DEF SInv, DropWaits
<1>4. ~Failing'
  BY <1>2, <1>3 DEF Failing, Stage
<1>5. \A k \in DOMAIN queue' : queue'[k].map.revision <= shared.revision
  BY <1>2 DEF SInv, Received
<1>6. QED
  BY <1>2, <1>3, <1>4, <1>5 DEF Pending

\* The queued drops take nothing away and bring nothing back.
LEMMA PlacedKeepsGone ==
    ASSUME NEW jobs, \E S : jobs \in Seq(S), NEW map, NEW d \in Devices,
           \A k \in DOMAIN jobs : jobs[k].kind = "drop" => \A e \in DOMAIN jobs[k].changes : jobs[k].changes[e].after # Gone
    PROVE  Placed(map, jobs, d) = Gone <=> map.at[d] = Gone
<1>1. DropsOf(jobs, d) # {} => Max(DropsOf(jobs, d)) \in DropsOf(jobs, d)
  BY DropPlaces
<1>2. QED
  BY <1>1 DEF Placed, DropsOf

\* The answer is received: the queued drops and the preview are repeated on it, or it
\* is an older map, which tells nothing new about the devices shown.
LEMMA FinishShows == ASSUME GInv, SInv, Finish PROVE SInv'
<1> DEFINE map == queue[1].map
<1>1. /\ queue # <<>> /\ queue' = Tail(queue) /\ queue[1].stage \in {"stored", "read"}
      /\ UNCHANGED <<shared, news>> /\ ReceiveTopology(map, queue')
      /\ astray' = IF Accepted(map) THEN {}
                   ELSE IF queue[1].kind = "drop" /\ queue[1].stage = "read" THEN astray \cup DOMAIN queue[1].changes
                   ELSE astray
  BY DEF Finish, Stage
<1>2. /\ \E S : queue' \in Seq(S)
      /\ \A k \in DOMAIN queue' : k + 1 \in DOMAIN queue /\ queue'[k] = queue[k + 1]
      /\ \A k \in DOMAIN queue' : queue'[k].kind = "drop" =>
            /\ queue'[k].stage = "get" /\ queue'[k].map = Unread
            /\ \A d \in DOMAIN queue'[k].changes : queue'[k].changes[d].after # Gone
      /\ \A k \in DOMAIN queue' : queue'[k].map.revision <= shared.revision
      /\ ~Failing' /\ Pending' = queue'
  BY <1>1, RestWaits
<1>3. IsMap(map) /\ IsMap(tab) /\ map.revision <= shared.revision
  BY <1>1, HeadIsJob DEF IsJob, GInv, SInv, Received
<1>4. (\A k \in DOMAIN queue' : DropWaits(k)') /\ HeadStored'
  <2>1. queue' # <<>> => 1 \in DOMAIN queue'
    <3>1. PICK S : queue' \in Seq(S)
      BY <1>2
    <3>2. QED
      BY <3>1
  <2>2. QED
    BY <1>2, <2>1 DEF DropWaits, HeadStored
<1>5. CASE ~Accepted(map)
  <2>1. UNCHANGED <<tab, gesture, base>> /\ map.revision <= tab.revision
    BY <1>1, <1>3, <1>5 DEF ReceiveTopology, Accepted, IsMap
  <2>2. IsGesture' /\ Held' = Held /\ OriginalsThere' /\ GoneAlike' /\ Received'
    BY <1>1, <1>2, <2>1 DEF SInv, IsGesture, Held, OriginalsThere, GoneAlike, Received, IsMap
  <2>3. ShownIsTrue'
    <3>1. ASSUME NEW d \in Devices \ (Held \cup Unsettled)' PROVE tab'.at[d] = Placed(base, Pending, d)'
      <4>1. d \notin astray' /\ d \in Devices \ Held
        BY <2>2, <3>1 DEF Unsettled
      <4>2. queue[1].kind = "drop" => queue[1].stage = "read" /\ d \notin DOMAIN queue[1].changes
        <5>1. ASSUME queue[1].kind = "drop" PROVE queue[1].stage = "read"
          BY <1>1, <1>3, <2>1, <5>1 DEF SInv, HeadStored, IsMap
        <5>2. QED
          BY <1>1, <1>5, <4>1, <5>1
      <4>3. d \notin Unsettled
        BY <1>1, <1>5, <4>1, <4>2 DEF Unsettled, Failing, Stage
      <4>4. tab.at[d] = Placed(base, Pending, d)
        BY <4>1, <4>3 DEF SInv, ShownIsTrue
      <4>5. Placed(base, Tail(queue), d) = Placed(base, queue, d)
        BY <1>1, <4>2, PlacedTail DEF GInv, Sequences
      <4>6. Placed(base, Pending, d) = Placed(base, Tail(queue), d)
        BY <4>5 DEF Pending
      <4>7. Placed(base, Pending, d)' = Placed(base, Tail(queue), d)
        BY <1>1, <1>2, <2>1 DEF Placed, DropsOf
      <4>8. QED
        BY <2>1, <4>4, <4>6, <4>7
    <3>2. QED
      BY <3>1 DEF ShownIsTrue
  <2>4. QED
    BY <1>4, <2>2, <2>3 DEF SInv
<1>6. CASE Accepted(map)
  <2> DEFINE preview == PlacementChanges(gesture.snapshot, tab.at, Held)
             original == [d \in DOMAIN preview |-> [preview[d] EXCEPT !.after = preview[d].before]]
             based == Rebased(map, queue')
  <2>1. /\ base' = map /\ tab' = ApplyPlacements(based, preview)
        /\ gesture' = IF Resting THEN gesture ELSE [gesture EXCEPT !.snapshot = ApplyPlacements(map, original)]
    BY <1>1, <1>6 DEF ReceiveTopology
  <2>2. DOMAIN preview \subseteq Held /\ \A d \in DOMAIN preview : preview[d].after # Gone
    BY DEF PlacementChanges
  <2>3. IsGesture' /\ Held' = Held /\ OriginalsThere'
    <3> HIDE DEF original
    <3>1. IsGesture' /\ gesture'.held = gesture.held /\ gesture'.originals = gesture.originals
      BY <2>1 DEF SInv, IsGesture
    <3>2. QED
      BY <3>1 DEF SInv, Held, OriginalsThere
  <2> HIDE DEF preview, original
  <2>4. IsMap(based) /\ based.revision = map.revision /\ based.at = [d \in Devices |-> Placed(map, queue', d)]
    BY <1>3 DEF IsMap, Rebased
  <2> HIDE DEF based
  <2>5. tab'.revision = map.revision /\ tab'.at = Moved(based.at, preview)
    BY <2>1, <2>4 DEF ApplyPlacements, IsMap
  <2>6. Received'
    BY <1>1, <1>2, <1>3, <1>6, <2>1, <2>5 DEF Accepted, SInv, Received, IsMap
  <2>7. GoneAlike'
    <3>1. SUFFICES ASSUME NEW d \in Devices PROVE base'.at[d] = Gone <=> tab'.at[d] = Gone
      BY DEF GoneAlike
    <3>2. tab'.at[d] = Gone <=> based.at[d] = Gone
      BY <2>2, <2>5, MovedKeepsGone
    <3>3. Placed(map, queue', d) = Gone <=> map.at[d] = Gone
      BY <1>2, PlacedKeepsGone
    <3>4. QED
      BY <2>1, <2>4, <3>2, <3>3
  <2>8. ShownIsTrue'
    <3>1. ASSUME NEW d \in Devices \ Held PROVE tab'.at[d] = Placed(base, Pending, d)'
      <4>1. tab'.at[d] = based.at[d]
        BY <2>2, <2>5, MovedKeepsGone
      <4>2. Placed(base, Pending, d)' = Placed(map, queue', d)
        BY <1>2, <2>1 DEF Placed, DropsOf
      <4>3. QED
        BY <2>4, <4>1, <4>2
    <3>2. QED
      BY <2>3, <3>1 DEF ShownIsTrue
  <2>9. QED
    BY <1>4, <2>3, <2>6, <2>7, <2>8 DEF SInv
<1>7. QED
  BY <1>5, <1>6

\* Another session changes the server's map only.
LEMMA OtherShows ==
    ASSUME GInv, SInv, NEW d \in Devices, NEW place, Other(d, place)
    PROVE  SInv'
<1> DEFINE map == [revision |-> shared.revision + 1, at |-> [shared.at EXCEPT ![d] = place]]
<1>1. shared' = map /\ news' = Append(news, map) /\ UNCHANGED <<tab, gesture, queue, base, draft, astray>>
  BY DEF Other
<1>2. IsMap(map) /\ shared.revision <= map.revision
  BY DEF GInv, IsMap
<1> HIDE DEF map
<1>3. \A k \in DOMAIN news' : news'[k].revision <= shared'.revision
  BY <1>1, <1>2, NewsKnown
<1>4. \A k \in DOMAIN queue : queue[k].map.revision \in Nat /\ queue[k].map.revision <= shared.revision
  BY DEF GInv, Jobs, IsJob, IsMap, SInv, Received
<1>5. Received'
  BY <1>1, <1>2, <1>3, <1>4 DEF GInv, IsMap, SInv, Received
<1>6. (\A k \in DOMAIN queue' : DropWaits(k)') /\ HeadStored'
  BY <1>1 DEF SInv, DropWaits, HeadStored
<1>7. IsGesture' /\ OriginalsThere' /\ GoneAlike'
  BY <1>1 DEF SInv, IsGesture, Held, OriginalsThere, GoneAlike
<1>8. ShownIsTrue'
  BY <1>1, QueueSame, ShownStays DEF SInv
<1>9. QED
  BY <1>5, <1>6, <1>7, <1>8 DEF SInv

\* Every step keeps what is shown true.
LEMMA SInvNext == ASSUME GesturesAssumption, GInv, SInv, [Next]_vars PROVE SInv'
<1>1. CASE UNCHANGED vars
  BY <1>1, ShownStays DEF vars, SInv, IsGesture, OriginalsThere, GoneAlike, Received, IsMap, DropWaits,
     HeadStored, Held
<1>2. CASE ReleaseOccupied \/ Cancel
  BY <1>2, PutBackShows DEF ReleaseOccupied, Cancel
<1>3. ASSUME NEW d \in Devices, NEW place, Other(d, place) PROVE SInv'
  BY <1>3, OtherShows
<1>4. QED
  BY <1>1, <1>2, <1>3, PointerDownShows, PointerMoveShows, ReleaseShows, QueueingShows, ReadingShows, PutShows,
     FinishShows DEF Next, Work

-----------------------------------------------------------------------------
(* The theorems.                                                            *)

\* The map a write is built from is the server's when their revisions agree.
THEOREM WritesFit == ASSUME GesturesAssumption PROVE Spec => []GInv
<1>1. Init => GInv
  BY GInvInit
<1>2. GInv /\ [Next]_vars => GInv'
  BY GInvNext
<1>3. QED
  BY <1>1, <1>2, PTL DEF Spec

\* The maps read and the drops queued say what is shown, whatever arrives in between.
THEOREM MapsShown == ASSUME GesturesAssumption PROVE Spec => [](GInv /\ SInv)
<1>1. Init => GInv /\ SInv
  BY GInvInit, SInvInit
<1>2. GInv /\ SInv /\ [Next]_vars => (GInv /\ SInv)'
  BY GInvNext, SInvNext
<1>3. QED
  BY <1>1, <1>2, PTL DEF Spec

\* A device that is not held shows what is stored or queued.
THEOREM NothingElseIsShown == ASSUME GesturesAssumption PROVE Spec => []ShownIsTrue
<1>1. SInv => ShownIsTrue
  BY DEF SInv
<1>2. QED
  BY <1>1, MapsShown, PTL

\* What the step promises.
Seen ==
    Storing =>
        LET job == queue[1] IN
        \/ job.kind = "drop" /\ \A d \in Devices : shared'.at[d] # shared.at[d] =>
              d \in DOMAIN job.changes
              /\ job.changes[d] = [before |-> shared.at[d], after |-> shared'.at[d]]
        \/ job.kind = "replace" /\ shared.revision = job.revision /\ \A d \in DOMAIN job.changes :
              shared'.at[d] = job.changes[d].after

\* A write is stored by Put, under the current revision.
LEMMA StoredByPut ==
    ASSUME GInv, Next, Storing
    PROVE  /\ Body.revision = shared.revision
           /\ shared' = [Body EXCEPT !.revision = @ + 1]
<1>1. ASSUME NEW d \in Devices, NEW place, Other(d, place) PROVE FALSE
  BY <1>1 DEF Other, Storing, GInv, Bounds
<1>2. Put
  BY <1>1 DEF Next, Work, Storing, Stage, PointerDown, PointerMove, Release, ReleaseOccupied, Cancel, Answer,
     Get, Begin, Refresh, Finish, OnTopology
<1>3. QED
  BY <1>2 DEF Put, Storing

\* A drag stores what its user saw, whatever other sessions did meanwhile.
THEOREM DragsStoreWhatWasSeen == ASSUME GesturesAssumption PROVE Spec => StoredAsSeen
<1>1. ASSUME GInv, Next PROVE Seen
  <2>1. SUFFICES ASSUME Storing PROVE Seen
    BY DEF Seen
  <2>2. queue # <<>> /\ queue[1].kind \in {"drop", "replace"} /\ queue[1].stage = "put"
    BY <2>1 DEF Storing, Stage
  <2>3. /\ Body.revision = shared.revision /\ Body.revision = queue[1].map.revision
        /\ shared' = [Body EXCEPT !.revision = @ + 1] /\ IsMap(Body)
    BY <1>1, <2>1, <2>2, StoredByPut, BodyIsMap
  <2>4. IsJob(queue[1]) /\ DropFits(queue[1]) /\ ReviewedStill(queue[1])
    BY <1>1, <2>2, HeadIsJob
  <2>5. CASE queue[1].kind = "replace"
    <3>1. shared'.at = queue[1].map.at
      BY <2>3, <2>5 DEF Body, IsMap
    <3>2. QED
      BY <2>2, <2>3, <2>4, <2>5, <3>1 DEF ReviewedStill, Seen
  <2>6. CASE queue[1].kind = "drop"
    <3>1. queue[1].map = shared /\ ~Conflicts(shared, queue[1].changes) /\ IsChanges(queue[1].changes)
      BY <2>2, <2>3, <2>4, <2>6 DEF DropFits, IsJob
    <3>2. shared'.at = Moved(shared.at, queue[1].changes)
      BY <1>1, <2>3, <2>6, <3>1 DEF Body, ApplyPlacements, IsMap, GInv
    <3>3. ASSUME NEW d \in Devices, shared'.at[d] # shared.at[d]
          PROVE  /\ d \in DOMAIN queue[1].changes
                 /\ queue[1].changes[d] = [before |-> shared.at[d], after |-> shared'.at[d]]
      <4>1. d \in DOMAIN queue[1].changes /\ shared'.at[d] = queue[1].changes[d].after
        BY <3>2, <3>3 DEF Moved
      <4>2. shared.at[d] = queue[1].changes[d].before
        BY <3>1, <3>3, <4>1 DEF Conflicts
      <4>3. QED
        BY <3>1, <4>1, <4>2 DEF IsChanges
    <3>4. QED
      BY <2>6, <3>3 DEF Seen
  <2>7. QED
    BY <2>2, <2>5, <2>6
<1>2. GInv /\ [Next]_vars => [Seen]_vars
  BY <1>1
<1>3. Spec => []GInv
  BY WritesFit
<1>4. QED
  BY <1>2, <1>3, PTL DEF Spec, StoredAsSeen, Seen
=============================================================================
