--------------------------- MODULE WorkspaceProofs ---------------------------
(***************************************************************************)
(* The tab follows the events of the map it shows, and no edit is lost, for*)
(* any number of maps, moves, edits and mishaps.                           *)
(*                                                                         *)
(* In between the stream may be closed while the old map is on screen.     *)
(* What makes that pass is that somebody is then reading a map: the stream *)
(* of the map on screen is open, or it is closed and a load is under way.  *)
(*                                                                         *)
(* No edit is lost because every document the tab shows, sends or receives *)
(* is a version of the server's, or has what the server has of it: a write *)
(* that is stored replaces nothing that is not in it or in a copy.         *)
(***************************************************************************)
EXTENDS Workspace, TLAPS

\* A map is being read, or its answer is under way.
Loads == \E i \in DOMAIN tasks : tasks[i].stage \in {"get", "got"}

Follows ==
    ~astray =>
        /\ stream = shown.map \/ (stream = None /\ Loads)
        /\ shown.map # None => remembered = shown.map

\* The fields of a task, of which one is chosen by each move.
IsTask(task) == DOMAIN task = {"kind", "to", "stage", "wait", "copies", "doc"}

\* The tasks of moves that are still to come are free.
Tasks ==
    /\ DOMAIN tasks = 0..MaxMoves
    /\ \A i \in DOMAIN tasks : IsTask(tasks[i])
    /\ \A i \in DOMAIN tasks : i > MaxMoves - left.moves => tasks[i].stage = "done"

\* Moves are left, or not.
Bounds == DOMAIN left = {"edits", "moves", "mishaps", "acts"} /\ left.moves \in 0..MaxMoves

WInv == Bounds /\ Tasks /\ Follows

-----------------------------------------------------------------------------
(* How tasks change.                                                        *)

\* Nothing is counted, or a mishap is; the moves to come stay the same.
LEMMA BoundsStay ==
    ASSUME WInv, Calm \/ Mishap
    PROVE  Bounds' /\ left'.moves = left.moves
BY DEF WInv, Bounds, Calm, Mishap, Count

\* An edit is counted.
LEMMA EditCounted ==
    ASSUME WInv, Editing
    PROVE  Bounds' /\ left'.moves = left.moves
BY DEF WInv, Bounds, Editing, Count

\* A task of a move that was made goes on.
LEMMA TaskGoesOn ==
    ASSUME WInv, NEW i \in DOMAIN tasks, tasks[i].stage # "done", left'.moves = left.moves,
           NEW task, IsTask(task), Becomes(i, task)
    PROVE  /\ Tasks'
           /\ DOMAIN tasks' = DOMAIN tasks /\ tasks'[i] = task
           /\ \A j \in DOMAIN tasks : j # i => tasks'[j] = tasks[j]
BY DEF WInv, Tasks, Becomes, IsTask

\* Who does not read a map lets the others read.
LEMMA OthersLoad ==
    ASSUME WInv, NEW i \in DOMAIN tasks, tasks[i].stage \notin {"done", "get", "got"}, left'.moves = left.moves,
           NEW task, IsTask(task), Becomes(i, task)
    PROVE  Tasks' /\ (Loads => Loads')
<1>1. /\ Tasks' /\ DOMAIN tasks' = DOMAIN tasks /\ tasks'[i] = task
      /\ \A j \in DOMAIN tasks : j # i => tasks'[j] = tasks[j]
  BY TaskGoesOn
<1>2. QED
  BY <1>1 DEF Loads

\* New tasks, and tasks at another stage.
LEMMA TaskShapes ==
    ASSUME NEW kind, NEW to, NEW stage, Tasks, NEW i \in DOMAIN tasks
    PROVE  /\ IsTask(Task(kind, to, stage)) /\ Task(kind, to, stage).stage = stage
           /\ IsTask(Waiting(kind, to)) /\ Waiting(kind, to).stage = "tail"
           /\ IsTask(Done) /\ Done.stage = "done"
           /\ IsTask(At(i, stage)) /\ At(i, stage).stage = stage
BY DEF IsTask, Task, Waiting, Done, At, Tasks

\* The end of a job wakes the moves that waited for it, and no load.
LEMMA EndWakes ==
    ASSUME WInv, NEW succeeded, Ends(succeeded), left'.moves = left.moves
    PROVE  Tasks' /\ (Loads => Loads')
<1>1. /\ DOMAIN tasks' = DOMAIN tasks
      /\ \A i \in DOMAIN tasks : \/ tasks'[i] = tasks[i]
                                 \/ tasks[i].stage = "tail" /\ tasks'[i] = [tasks[i] EXCEPT !.wait = @ - 1]
                                 \/ tasks[i].stage = "saving" /\ tasks'[i] = [tasks[i] EXCEPT !.stage = "left"]
                                 \/ tasks[i].stage = "saving" /\ tasks'[i] = Done
  BY DEF Ends
<1>2. \A i \in DOMAIN tasks : IsTask(tasks'[i])
  BY <1>1, TaskShapes DEF WInv, Tasks, IsTask
<1>3. Loads => Loads'
  BY <1>1 DEF Loads
<1>4. QED
  BY <1>1, <1>2, <1>3 DEF WInv, Tasks

\* What leaves the map on screen, its stream and the loads alone keeps following it.
LEMMA StillFollows ==
    ASSUME WInv, Bounds', Tasks', shown'.map = shown.map, UNCHANGED place,
           astray' = astray \/ astray', Loads => Loads'
    PROVE  WInv'
BY DEF WInv, Follows, place

\* Where the tasks do not change either.
LEMMA SameTasks ==
    ASSUME WInv, Bounds', left'.moves = left.moves, UNCHANGED tasks
    PROVE  Tasks' /\ (Loads => Loads')
BY DEF WInv, Tasks, Loads, IsTask

-----------------------------------------------------------------------------
(* The steps.                                                               *)

\* A load begins: the stream is closed until its answer.
LEMMA LoadingKeeps ==
    ASSUME WInv, NEW i \in DOMAIN tasks, tasks[i].stage # "done", NEW m, Loading(i, m),
           Bounds', left'.moves = left.moves, UNCHANGED <<shown, remembered, astray>>
    PROVE  WInv'
<1>1. IsTask(Task("open", m, "get")) /\ Task("open", m, "get").stage = "get"
  BY TaskShapes DEF WInv
<1>2. Tasks' /\ DOMAIN tasks' = DOMAIN tasks /\ tasks'[i] = Task("open", m, "get")
  BY <1>1, TaskGoesOn DEF Loading
<1>3. Loads' /\ stream' = None
  BY <1>1, <1>2 DEF Loads, Loading
<1>4. QED
  BY <1>2, <1>3 DEF WInv, Follows

\* loadTopology, with or without a map to be left.
LEMMA EnterKeeps ==
    ASSUME WInv, NEW i \in DOMAIN tasks, tasks[i].stage \notin {"done", "get", "got"}, NEW m, Enter(i, m),
           Bounds', left'.moves = left.moves, UNCHANGED <<shown, remembered, astray>>
    PROVE  WInv'
<1>1. CASE Loading(i, m)
  BY <1>1, LoadingKeeps
<1>2. CASE Becomes(i, IF Leaving THEN Done ELSE Waiting("open", m)) /\ UNCHANGED stream
  <2>1. PICK task : task = (IF Leaving THEN Done ELSE Waiting("open", m))
    OBVIOUS
  <2>2. IsTask(task) /\ Becomes(i, task)
    BY <1>2, <2>1, TaskShapes DEF WInv
  <2>3. Tasks' /\ (Loads => Loads')
    BY <2>2, OthersLoad
  <2>4. QED
    BY <1>2, <2>3, StillFollows DEF place
<1>3. QED
  BY <1>1, <1>2 DEF Enter

\* A move whose task goes on without a map being read or shown.
LEMMA MoveKeeps ==
    ASSUME WInv, NEW i \in DOMAIN tasks, tasks[i].stage \notin {"done", "get", "got"},
           NEW task, IsTask(task), Becomes(i, task),
           Calm \/ Mishap, UNCHANGED <<shown, stream, remembered, astray>>
    PROVE  WInv'
<1>1. Bounds' /\ left'.moves = left.moves
  BY BoundsStay
<1>2. Tasks' /\ (Loads => Loads')
  BY <1>1, OthersLoad
<1>3. QED
  BY <1>1, <1>2, StillFollows DEF place

\* No map is on screen any more, and no events are followed.
LEMMA ClearKeeps ==
    ASSUME WInv, NEW i \in DOMAIN tasks, tasks[i].stage \notin {"done", "get", "got"},
           Becomes(i, Done), Clear, Calm, UNCHANGED remembered
    PROVE  WInv'
<1>1. Bounds' /\ left'.moves = left.moves
  BY BoundsStay
<1>2. Tasks'
  BY <1>1, OthersLoad, TaskShapes DEF WInv
<1>3. Follows'
  BY DEF Clear, Follows, Nothing, Version
<1>4. QED
  BY <1>1, <1>2, <1>3 DEF WInv

\* A move begins.
LEMMA MoveBegins ==
    ASSUME WorkspaceAssumption, WInv, Count("moves"), NEW i, i = MaxMoves - left.moves + 1,
           NEW task, IsTask(task), Becomes(i, task)
    PROVE  Bounds' /\ Tasks' /\ (Loads => Loads') /\ i \in DOMAIN tasks' /\ tasks'[i] = task
<1>1. left'.moves = left.moves - 1 /\ Bounds' /\ left.moves > 0 /\ MaxMoves \in Nat
  <2>1. left.moves > 0 /\ left' = [left EXCEPT !.moves = left.moves - 1, !.acts = left.acts - 1]
    BY DEF Count
  <2>2. MaxMoves \in Nat /\ left.moves \in 0..MaxMoves /\ DOMAIN left = {"edits", "moves", "mishaps", "acts"}
    BY DEF WInv, Bounds, WorkspaceAssumption
  <2>3. left'.moves = left.moves - 1 /\ DOMAIN left' = DOMAIN left
    BY <2>1, <2>2
  <2>4. QED
    BY <2>1, <2>2, <2>3 DEF Bounds
<1>2. i \in DOMAIN tasks /\ tasks[i].stage = "done"
  BY <1>1 DEF WInv, Tasks, Bounds
<1>3. /\ DOMAIN tasks' = DOMAIN tasks /\ tasks'[i] = task
      /\ \A j \in DOMAIN tasks : j # i => tasks'[j] = tasks[j]
  BY <1>2 DEF Becomes
<1>4. Tasks'
  <2>1. ASSUME NEW j \in DOMAIN tasks', j > MaxMoves - left'.moves PROVE tasks'[j].stage = "done"
    BY <1>1, <1>3, <2>1 DEF WInv, Tasks, Bounds
  <2>2. QED
    BY <1>3, <2>1 DEF WInv, Tasks, IsTask
<1>5. Loads => Loads'
  BY <1>2, <1>3 DEF Loads
<1>6. QED
  BY <1>1, <1>2, <1>3, <1>4, <1>5

\* A user chooses.
LEMMA ChooseKeeps ==
    ASSUME WorkspaceAssumption, WInv, NEW kind, NEW to, Choose(kind, to)
    PROVE  WInv'
<1> DEFINE i == MaxMoves - left.moves + 1
<1>1. /\ Count("moves") /\ UNCHANGED <<shown, remembered, astray>>
      /\ \/ Loading(i, to)
         \/ Becomes(i, Done) /\ UNCHANGED stream
         \/ Becomes(i, Waiting("open", to)) /\ UNCHANGED stream
         \/ Becomes(i, Waiting(kind, to)) /\ UNCHANGED stream
         \/ Becomes(i, [Task("delete", to, "act") EXCEPT !.doc = shown]) /\ UNCHANGED stream
  BY DEF Choose, Enter, history
<1>2. /\ IsTask(Done) /\ IsTask(Waiting("open", to)) /\ IsTask(Waiting(kind, to))
      /\ IsTask([Task("delete", to, "act") EXCEPT !.doc = shown])
      /\ IsTask(Task("open", to, "get")) /\ Task("open", to, "get").stage = "get"
  BY DEF IsTask, Done, Task, Waiting
<1>3. PICK j : j = i
  OBVIOUS
<1>4. CASE Loading(i, to)
  <2>1. Becomes(j, Task("open", to, "get")) /\ stream' = None
    BY <1>3, <1>4 DEF Loading
  <2>2. Bounds' /\ Tasks' /\ j \in DOMAIN tasks' /\ tasks'[j] = Task("open", to, "get")
    BY <1>1, <1>2, <1>3, <2>1, MoveBegins
  <2>3. Loads'
    BY <1>2, <2>2 DEF Loads
  <2>4. QED
    BY <1>1, <2>1, <2>2, <2>3 DEF WInv, Follows
<1>5. ASSUME NEW task, IsTask(task), Becomes(j, task), UNCHANGED stream PROVE WInv'
  <2>1. Bounds' /\ Tasks' /\ (Loads => Loads')
    BY <1>1, <1>3, <1>5, MoveBegins
  <2>2. QED
    BY <1>1, <1>5, <2>1, StillFollows DEF place
<1>6. QED
  BY <1>1, <1>2, <1>3, <1>4, <1>5

\* A map is left, or not.
LEMMA LeaveKeeps ==
    ASSUME WInv, NEW i \in DOMAIN tasks, Drained(i) \/ Discard(i) \/ Stay(i) \/ SaveFirst(i)
    PROVE  WInv'
<1>1. CASE Drained(i)
  <2>1. PICK stage : stage = (IF dirty THEN "ask" ELSE "left")
    OBVIOUS
  <2>2. Becomes(i, At(i, stage)) /\ IsTask(At(i, stage)) /\ tasks[i].stage = "tail"
    BY <1>1, <2>1, TaskShapes DEF Drained, WInv
  <2>3. QED
    BY <1>1, <2>2, MoveKeeps DEF Drained, page, place, history
<1>2. CASE Discard(i)
  <2>1. Becomes(i, At(i, "left")) /\ IsTask(At(i, "left")) /\ tasks[i].stage = "ask"
    BY <1>2, TaskShapes DEF Discard, WInv
  <2>2. QED
    BY <1>2, <2>1, MoveKeeps DEF Discard, place
<1>3. CASE Stay(i)
  <2>1. Becomes(i, Done) /\ IsTask(Done) /\ tasks[i].stage = "ask"
    BY <1>3, TaskShapes DEF Stay, WInv
  <2>2. QED
    BY <1>3, <2>1, MoveKeeps DEF Stay, page, place, history
<1>4. CASE SaveFirst(i)
  <2>1. IsTask(At(i, "saving")) /\ IsTask(Done) /\ tasks[i].stage = "ask"
    BY <1>4, TaskShapes DEF SaveFirst, WInv
  <2>2. IsTask([At(i, "saving") EXCEPT !.copies = Recoveries(copies)])
    BY <2>1 DEF IsTask
  <2>3. Becomes(i, Done) \/ Becomes(i, [At(i, "saving") EXCEPT !.copies = Recoveries(copies)])
    BY <1>4 DEF SaveFirst
  <2>4. QED
    BY <1>4, <2>1, <2>2, <2>3, MoveKeeps DEF SaveFirst, page, place, history
<1>5. QED
  BY <1>1, <1>2, <1>3, <1>4

\* What was chosen goes on.
LEMMA LeftKeeps ==
    ASSUME WInv, NEW i \in DOMAIN tasks, Left(i)
    PROVE  WInv'
<1>1. /\ tasks[i].stage = "left" /\ Calm /\ Bounds' /\ left'.moves = left.moves /\ UNCHANGED remembered
      /\ IsTask(Done) /\ IsTask(At(i, "act"))
  BY BoundsStay, TaskShapes DEF Left, WInv
<1>2. \/ Loading(i, tasks[i].to) /\ UNCHANGED <<shown, astray>>
      \/ Becomes(i, At(i, "act")) /\ UNCHANGED <<shown, stream, astray>>
      \/ Becomes(i, Done) /\ UNCHANGED <<shown, stream, astray>>
      \/ Becomes(i, Done) /\ Clear
      \/ \E m \in Live : Enter(i, m) /\ UNCHANGED <<shown, astray>>
  BY DEF Left
<1>3. QED
  BY <1>1, <1>2, LoadingKeeps, EnterKeeps, MoveKeeps, ClearKeeps

\* The map is read, or the reading fails: then the old map is without its events.
LEMMA GetKeeps ==
    ASSUME WInv, NEW i \in DOMAIN tasks, Get(i)
    PROVE  WInv'
<1>1. /\ tasks[i].stage = "get" /\ Bounds' /\ left'.moves = left.moves
      /\ UNCHANGED <<shown, stream, remembered>>
  BY BoundsStay DEF Get, page, place
<1>2. CASE Becomes(i, [At(i, "got") EXCEPT !.doc = Document(tasks[i].to)]) /\ UNCHANGED astray
  <2>1. PICK task : task = [At(i, "got") EXCEPT !.doc = Document(tasks[i].to)]
    OBVIOUS
  <2>2. IsTask(task) /\ task.stage = "got" /\ Becomes(i, task)
    BY <1>2, <2>1, TaskShapes DEF IsTask, WInv
  <2>3. Tasks' /\ DOMAIN tasks' = DOMAIN tasks /\ tasks'[i] = task
    BY <1>1, <2>2, TaskGoesOn
  <2>4. Loads'
    BY <2>2, <2>3 DEF Loads
  <2>5. QED
    BY <1>1, <1>2, <2>3, <2>4, StillFollows DEF place
<1>3. CASE Becomes(i, Done) /\ astray' = (astray \/ stream # shown.map)
  <2>1. Tasks'
    BY <1>1, <1>3, TaskGoesOn, TaskShapes DEF WInv
  <2>2. QED
    BY <1>1, <1>3, <2>1 DEF WInv, Follows
<1>4. QED
  BY <1>2, <1>3 DEF Get

\* The map arrives, and its events are followed.
LEMMA ArriveKeeps ==
    ASSUME WInv, NEW i \in DOMAIN tasks, Arrive(i)
    PROVE  WInv'
<1>1. /\ tasks[i].stage = "got" /\ Becomes(i, Done) /\ Bounds' /\ left'.moves = left.moves
      /\ shown'.map = tasks[i].doc.map /\ stream' = tasks[i].doc.map /\ remembered' = tasks[i].doc.map
  BY BoundsStay DEF Arrive, Apply
<1>2. Tasks'
  BY <1>1, TaskGoesOn, TaskShapes DEF WInv
<1>3. QED
  BY <1>1, <1>2 DEF WInv, Follows

\* A map is created or deleted on the server, or not.
LEMMA ServerMapsKeep ==
    ASSUME WInv, NEW i \in DOMAIN tasks, Create(i) \/ Delete(i)
    PROVE  WInv'
<1>1. /\ tasks[i].stage = "act" /\ (Calm \/ Mishap) /\ UNCHANGED <<shown, stream, remembered, astray>>
      /\ \/ \E m \in Maps : Becomes(i, [At(i, "acted") EXCEPT !.to = m])
         \/ Becomes(i, At(i, "acted"))
         \/ Becomes(i, Done)
  BY DEF Create, Delete, page, place, history
<1>2. IsTask(Done) /\ IsTask(At(i, "acted"))
  BY TaskShapes DEF WInv
<1>3. \A m \in Maps : IsTask([At(i, "acted") EXCEPT !.to = m])
  BY <1>2 DEF IsTask
<1>4. PICK task : IsTask(task) /\ Becomes(i, task)
  BY <1>1, <1>2, <1>3
<1>5. QED
  BY <1>1, <1>4, MoveKeeps

\* What follows a creation and a deletion.
LEMMA AfterwardsKeeps ==
    ASSUME WInv, NEW i \in DOMAIN tasks, Created(i) \/ Deleted(i)
    PROVE  WInv'
<1>1. /\ tasks[i].stage = "acted" /\ (Calm \/ Mishap) /\ Bounds' /\ left'.moves = left.moves /\ UNCHANGED remembered
      /\ IsTask(Done) /\ IsTask(Task("create", None, "act"))
  BY BoundsStay, TaskShapes DEF Created, Deleted, WInv
<1>2. \/ \E m : Enter(i, m) /\ UNCHANGED <<shown, astray>>
      \/ Becomes(i, Done) /\ UNCHANGED <<shown, stream, astray>>
      \/ Becomes(i, Task("create", None, "act")) /\ UNCHANGED <<shown, stream, astray>>
      \/ Becomes(i, Done) /\ Clear /\ Calm
  BY DEF Created, Deleted, history
<1>3. QED
  BY <1>1, <1>2, EnterKeeps, MoveKeeps, ClearKeeps

\* receiveTopology changes the content and the revision on screen, never the map.
LEMMA ReceivesSameMap ==
    ASSUME NEW entries, NEW doc, NEW fresh, NEW saved, Receive(entries, doc, fresh, saved)
    PROVE  shown'.map = shown.map
BY DEF Receive, Apply, Foreign, Version

\* Edits, and the answers of writes.
LEMMA EditsKeep ==
    ASSUME WInv,
           \/ \E open \in BOOLEAN : Lock(open)
           \/ Commit \/ Operate \/ \E saves \in BOOLEAN : Attach(saves)
           \/ Flush \/ Serve \/ Reread \/ Attached \/ Publish \/ OnTopology
    PROVE  WInv'
<1>1. Bounds' /\ left'.moves = left.moves
  BY BoundsStay, EditCounted DEF Lock, Commit, Operate, Attach, Flush, Serve, Reread, Attached, Publish, OnTopology
<1>2. UNCHANGED <<tasks, place, astray>>
  BY DEF Lock, Commit, Operate, Attach, Flush, Serve, Reread, Attached, Publish, OnTopology, history
<1>3. shown'.map = shown.map
  <2>1. CASE OnTopology
    BY <2>1, ReceivesSameMap DEF OnTopology
  <2>2. CASE Commit
    BY <2>2 DEF Commit, Version
  <2>3. CASE ~Commit /\ ~OnTopology
    BY <2>3 DEF Lock, Operate, Attach, Flush, Serve, Reread, Attached, Publish, page
  <2>4. QED
    BY <2>1, <2>2, <2>3
<1>4. QED
  BY <1>1, <1>2, <1>3, SameTasks, StillFollows

\* A job of the queue begins and ends.
LEMMA JobsKeep == ASSUME WInv, Begin \/ Finish PROVE WInv'
<1>1. Bounds' /\ left'.moves = left.moves /\ UNCHANGED <<place, astray>>
  BY BoundsStay DEF Begin, Finish, history
<1>2. shown'.map = shown.map
  BY ReceivesSameMap DEF Begin, Finish, page
<1>3. UNCHANGED tasks \/ Ends(FALSE) \/ \E succeeded : Ends(succeeded)
  BY DEF Begin, Finish
<1>4. Tasks' /\ (Loads => Loads')
  BY <1>1, <1>3, SameTasks, EndWakes
<1>5. QED
  BY <1>1, <1>2, <1>4, StillFollows

\* The answer of a write past the queue may bring another map on screen: that is marked.
LEMMA AttachedKeeps == ASSUME WInv, ApplyAttached PROVE WInv'
<1>1. /\ Bounds' /\ left'.moves = left.moves /\ UNCHANGED <<tasks, place>>
      /\ shown' = direct.doc /\ astray' = (astray \/ direct.doc.map # shown.map)
  BY BoundsStay DEF ApplyAttached, Apply
<1>2. Tasks' /\ (Loads => Loads')
  BY <1>1, SameTasks
<1>3. QED
  BY <1>1, <1>2 DEF WInv, Follows, place

\* Every step keeps the invariant.
LEMMA WInvNext == ASSUME WorkspaceAssumption, WInv, [Next]_vars PROVE WInv'
<1>1. CASE UNCHANGED vars
  BY <1>1 DEF vars, page, place, history, WInv, Bounds, Tasks, Follows, Loads, IsTask
<1>2. CASE \E i \in DOMAIN tasks : Left(i)
  BY <1>2, LeftKeeps
<1>3. CASE Step
  BY <1>3, ChooseKeeps, LeaveKeeps, GetKeeps, ArriveKeeps, ServerMapsKeep, AfterwardsKeeps, EditsKeep, JobsKeep,
     AttachedKeeps DEF Step
<1>4. QED
  BY <1>1, <1>2, <1>3 DEF Next

-----------------------------------------------------------------------------
(* The theorems.                                                            *)

\* The stream of the map on screen is open, or a map is being read.
THEOREM WorkspaceInvariant == ASSUME WorkspaceAssumption PROVE Spec => []WInv
<1>1. Init => WInv
  BY DEF Init, WInv, Bounds, Tasks, Follows, IsTask, Task, Done, Nothing, Version, WorkspaceAssumption
<1>2. WInv /\ [Next]_vars => WInv'
  BY WInvNext
<1>3. QED
  BY <1>1, <1>2, PTL DEF Spec

\* At rest the tab follows the events of the map it shows, and would open it again.
THEOREM TabFollowsItsMap == ASSUME WorkspaceAssumption PROVE Spec => []FollowsShown
<1>1. WInv => FollowsShown
  BY DEF WInv, Follows, Loads, FollowsShown
<1>2. QED
  BY <1>1, WorkspaceInvariant, PTL

-----------------------------------------------------------------------------
(* No edit is lost.  What the server has of a map grows, but for what was  *)
(* copied or given up, because a write carries the revision of a document  *)
(* that had all of it (Bases); and what the tab drops of its drafts was    *)
(* read from the server (AllOf) or is what the running save was made of.   *)

Moved == [kind : {"open", "scope", "create", "delete", "none"}, to : Maps \cup {None},
          stage : Stages, wait : Nat, copies : Nat, doc : Documents]
Jobs == [kind : {"save", "op"}, stage : {"wait", "sent", "stored", "reread", "read", "failed"},
         map : Maps \cup {None}, edit : Nat, asked : BOOLEAN, body : Documents, doc : Documents, fresh : BOOLEAN]
Directs == [stage : {"idle", "sent", "stored"}, edit : Nat, saves : BOOLEAN, doc : Documents]
Copies == [map : Maps \cup {None}, edits : SUBSET Nat]

\* The maps of the server have revisions.
ServerTyped ==
    /\ server \in [Maps -> [live : BOOLEAN, rev : Nat, edits : SUBSET Nat]]
    /\ \A m \in Maps : server[m].live => server[m].rev > 0

Types ==
    /\ TypeOK /\ ServerTyped
    /\ queue \in Seq(Jobs) /\ direct \in Directs /\ copies \in Seq(Copies)
    /\ made \subseteq Maps \X (1..MaxEdits)
    /\ left \in [{"edits", "moves", "mishaps", "acts"} -> Nat] /\ left.edits \in 0..MaxEdits

\* A version that was on the server, with more or less edits.
OnServer(doc) == doc.map \in Maps /\ doc.rev \in 1..server[doc.map].rev

\* A version of the server: of each revision there is one.
Published(doc) == OnServer(doc) /\ (doc.rev = server[doc.map].rev => doc.edits = server[doc.map].edits)

\* The map exists, and its edits are to be kept.
Owed(m) == server[m].live /\ m \notin rewound

\* What the document has, is on the server or safe; and the converse, for the last revision.
AllOf(doc) == Owed(doc.map) => doc.edits \subseteq server[doc.map].edits \cup Safe(doc.map)
Bases(doc) ==
    Owed(doc.map) /\ doc.rev = server[doc.map].rev => server[doc.map].edits \subseteq doc.edits \cup Safe(doc.map)

\* Maps that were read come from the server; a map that was deleted stays so.
TaskFits(task) ==
    /\ task.stage = "got" => Published(task.doc) /\ AllOf(task.doc)
    /\ task.kind = "delete" /\ task.stage = "act" => OnServer(task.doc) /\ task.doc.map = task.to
    /\ task.kind = "delete" /\ task.stage = "acted" =>
          task.to \in Maps /\ ~server[task.to].live /\ server[task.to].rev > 0

TasksFit == \A i \in DOMAIN tasks : TaskFits(tasks[i])

NewsFit == news # Nothing => Published(news) /\ AllOf(news)

DirectFits ==
    /\ direct.stage = "sent" => OnServer(direct.doc)
    /\ direct.stage = "stored" => Published(direct.doc) /\ AllOf(direct.doc)

\* The first job alone is on its way; a save is stored as it was submitted.
HeadFits(job) ==
    /\ job.stage \in {"sent", "stored"} => job.body.map = job.map /\ OnServer(job.body)
    /\ job.stage = "sent" /\ job.kind = "save" => Bases(job.body)
    /\ job.stage \in {"stored", "read"} => job.doc.map = job.map /\ Published(job.doc) /\ AllOf(job.doc)
    /\ job.stage = "stored" /\ job.kind = "save" => job.doc.edits = job.body.edits

QueueFits ==
    /\ \A k \in DOMAIN queue : queue[k].map \in Maps /\ (k > 1 => queue[k].stage = "wait")
    /\ queue # <<>> => HeadFits(queue[1])

ShownFits == shown.map # None => OnServer(shown) /\ Bases(shown)

\* What the running save submits is on screen or safe, while its map is.
Covers ==
    Saving(shown.map) /\ shown.map \notin rewound => queue[1].body.edits \subseteq shown.edits \cup Safe(shown.map)

\* The draft of the map on screen is what is on screen.
DraftsFit == drafts[None] = {} /\ drafts[shown.map] \subseteq {shown.edits}

EditFits(m, n) ==
    /\ server[m].rev > 0
    /\ Owed(m) => n \in server[m].edits \cup (UNION drafts[m]) \cup Safe(m)

EditsFit == \A m \in Maps, n \in 1..MaxEdits : <<m, n>> \in made => EditFits(m, n)

KInv ==
    /\ Types /\ TasksFit /\ NewsFit /\ DirectFits /\ QueueFits
    /\ ShownFits /\ Covers /\ DraftsFit /\ EditsFit

\* How the server and what is safe change: revisions grow, each has one content, a map
\* that was deleted stays so, and what a new revision lacks is safe.
Grows ==
    /\ \A m \in Maps :
          /\ server'[m].rev >= server[m].rev
          /\ server'[m].rev = server[m].rev => server'[m].edits = server[m].edits
          /\ server[m].rev > 0 /\ server'[m].live => server[m].live
          /\ server[m].rev > 0 /\ Owed(m)' => server[m].edits \subseteq server'[m].edits \cup Safe(m)'
          /\ Safe(m) \subseteq Safe(m)'
    /\ rewound \subseteq rewound'

\* What the drafts had, they have, or the server has it, or it is safe.
DraftsKept ==
    \A m \in Maps : Owed(m)' =>
        (1..MaxEdits) \cap (UNION drafts[m]) \subseteq server'[m].edits \cup (UNION drafts'[m]) \cup Safe(m)'

-----------------------------------------------------------------------------
(* What stays true when the server goes on.                                *)

\* The revisions of the server are numbers, before and after.
LEMMA RevIsNat == ASSUME Types, NEW m \in Maps PROVE server[m].rev \in Nat
BY DEF Types, TypeOK

LEMMA OwedBefore == ASSUME Grows, NEW m \in Maps, server[m].rev > 0, Owed(m)' PROVE Owed(m)
BY DEF Grows, Owed

LEMMA OnServerStays ==
    ASSUME Types, Types', Grows, NEW doc \in Documents, OnServer(doc)
    PROVE  OnServer(doc)' /\ server[doc.map].rev > 0
<1>1. doc.map \in Maps /\ doc.rev \in Nat /\ server[doc.map].rev \in Nat /\ server'[doc.map].rev \in Nat
  BY DEF Types, TypeOK, OnServer, Documents
<1>2. server'[doc.map].rev >= server[doc.map].rev
  BY <1>1 DEF Grows
<1>3. QED
  BY <1>1, <1>2 DEF OnServer

LEMMA PublishedStays ==
    ASSUME Types, Types', Grows, NEW doc \in Documents, Published(doc)
    PROVE  Published(doc)'
<1>1. OnServer(doc)' /\ doc.map \in Maps /\ doc.rev \in 1..server[doc.map].rev
  BY OnServerStays DEF Published, OnServer
<1>2. server[doc.map].rev \in Nat /\ server'[doc.map].rev \in Nat
  BY <1>1 DEF Types, TypeOK
<1>3. ASSUME doc.rev = server'[doc.map].rev PROVE doc.edits = server'[doc.map].edits
  <2>1. server'[doc.map].rev = server[doc.map].rev
    BY <1>1, <1>2, <1>3 DEF Grows
  <2>2. server'[doc.map].edits = server[doc.map].edits
    BY <1>1, <2>1 DEF Grows
  <2>3. QED
    BY <1>3, <2>1, <2>2 DEF Published
<1>4. QED
  BY <1>1, <1>3 DEF Published

LEMMA AllOfStays ==
    ASSUME Types, Types', Grows, NEW doc \in Documents, OnServer(doc), AllOf(doc)
    PROVE  AllOf(doc)'
<1>1. doc.map \in Maps /\ server[doc.map].rev > 0
  BY OnServerStays DEF OnServer
<1>2. ASSUME Owed(doc.map)' PROVE doc.edits \subseteq server'[doc.map].edits \cup Safe(doc.map)'
  <2>1. Owed(doc.map)
    BY <1>1, <1>2, OwedBefore
  <2>2. doc.edits \subseteq server[doc.map].edits \cup Safe(doc.map)
    BY <2>1 DEF AllOf
  <2>3. /\ server[doc.map].edits \subseteq server'[doc.map].edits \cup Safe(doc.map)'
        /\ Safe(doc.map) \subseteq Safe(doc.map)'
    BY <1>1, <1>2 DEF Grows
  <2>4. QED
    BY <2>2, <2>3
<1>3. QED
  BY <1>2 DEF AllOf

LEMMA BasesStay ==
    ASSUME Types, Types', Grows, NEW doc \in Documents, OnServer(doc), Bases(doc)
    PROVE  Bases(doc)'
<1>1. doc.map \in Maps /\ server[doc.map].rev > 0 /\ doc.rev \in 1..server[doc.map].rev
  BY OnServerStays DEF OnServer
<1>2. ASSUME Owed(doc.map)', doc.rev = server'[doc.map].rev
      PROVE  server'[doc.map].edits \subseteq doc.edits \cup Safe(doc.map)'
  <2>1. Owed(doc.map)
    BY <1>1, <1>2, OwedBefore
  <2>2. server[doc.map].rev \in Nat /\ server'[doc.map].rev \in Nat
    BY <1>1 DEF Types, TypeOK
  <2>3. server'[doc.map].rev = server[doc.map].rev
    BY <1>1, <1>2, <2>2 DEF Grows
  <2>4. server'[doc.map].edits = server[doc.map].edits /\ Safe(doc.map) \subseteq Safe(doc.map)'
    BY <1>1, <2>3 DEF Grows
  <2>5. server[doc.map].edits \subseteq doc.edits \cup Safe(doc.map)
    BY <1>2, <2>1, <2>3 DEF Bases
  <2>6. QED
    BY <2>4, <2>5
<1>3. QED
  BY <1>2 DEF Bases

\* A task that does not read, and does not delete.
Plain(task) == task.stage # "got" /\ ~(task.kind = "delete" /\ task.stage \in {"act", "acted"})

LEMMA PlainFits == ASSUME NEW task, Plain(task) PROVE TaskFits(task) /\ TaskFits(task)'
BY DEF Plain, TaskFits

LEMMA TaskFitsStays ==
    ASSUME Types, Types', Grows, NEW task \in Moved, TaskFits(task)
    PROVE  TaskFits(task)'
<1>1. task.doc \in Documents /\ task.to \in Maps \cup {None}
  BY DEF Moved
<1>2. task.stage = "got" => Published(task.doc)' /\ AllOf(task.doc)'
  BY <1>1, PublishedStays, AllOfStays DEF TaskFits, Published
<1>3. task.kind = "delete" /\ task.stage = "act" => OnServer(task.doc)' /\ task.doc.map = task.to
  BY <1>1, OnServerStays DEF TaskFits
<1>4. ASSUME task.kind = "delete", task.stage = "acted"
      PROVE  task.to \in Maps /\ ~server'[task.to].live /\ server'[task.to].rev > 0
  <2>1. task.to \in Maps /\ ~server[task.to].live /\ server[task.to].rev > 0
    BY <1>4 DEF TaskFits
  <2>2. server[task.to].rev \in Nat /\ server'[task.to].rev \in Nat
    BY <2>1 DEF Types, TypeOK
  <2>3. QED
    BY <2>1, <2>2 DEF Grows
<1>5. QED
  BY <1>2, <1>3, <1>4 DEF TaskFits

\* Each task stays as it was, is plain, or fits.
LEMMA TasksStay ==
    ASSUME KInv, Types', Grows, DOMAIN tasks' = DOMAIN tasks,
           \A i \in DOMAIN tasks : tasks'[i] = tasks[i] \/ Plain(tasks'[i]) \/ TaskFits(tasks[i])'
    PROVE  TasksFit'
<1>1. SUFFICES ASSUME NEW i \in DOMAIN tasks PROVE TaskFits(tasks[i])'
  BY DEF TasksFit
<1>2. CASE tasks'[i] = tasks[i]
  <2>1. PICK task : task = tasks[i]
    OBVIOUS
  <2>2. task \in Moved /\ TaskFits(task)
    BY <2>1 DEF KInv, Types, TypeOK, Moved, TasksFit
  <2>3. TaskFits(task)'
    BY <2>2, TaskFitsStays DEF KInv
  <2>4. QED
    BY <1>2, <2>1, <2>3 DEF TaskFits, Published, OnServer, AllOf, Owed, Safe, SafeIn, CopiedOf
<1>3. CASE Plain(tasks'[i])
  BY <1>3 DEF Plain, TaskFits
<1>4. QED
  BY <1>1, <1>2, <1>3

LEMMA NewsStay == ASSUME KInv, Types', Grows, UNCHANGED news PROVE NewsFit'
<1>1. PICK doc : doc = news
  OBVIOUS
<1>2. ASSUME doc # Nothing PROVE Published(doc)' /\ AllOf(doc)'
  BY <1>1, <1>2, PublishedStays, AllOfStays DEF KInv, Types, TypeOK, NewsFit, Published
<1>3. QED
  BY <1>1, <1>2 DEF NewsFit, Published, OnServer, AllOf, Owed, Safe, SafeIn, CopiedOf

LEMMA DirectStays == ASSUME KInv, Types', Grows, UNCHANGED direct PROVE DirectFits'
<1>1. PICK doc : doc = direct.doc
  OBVIOUS
<1>2. doc \in Documents
  BY <1>1 DEF KInv, Types, Directs
<1>3. ASSUME direct.stage = "sent" PROVE OnServer(doc)'
  BY <1>1, <1>2, <1>3, OnServerStays DEF KInv, DirectFits
<1>4. ASSUME direct.stage = "stored" PROVE Published(doc)' /\ AllOf(doc)'
  BY <1>1, <1>2, <1>4, PublishedStays, AllOfStays DEF KInv, DirectFits, Published
<1>5. QED
  BY <1>1, <1>3, <1>4 DEF DirectFits, Published, OnServer, AllOf, Owed, Safe, SafeIn, CopiedOf

LEMMA HeadStays ==
    ASSUME Types, Types', Grows, NEW job \in Jobs, HeadFits(job)
    PROVE  HeadFits(job)'
<1>1. job.doc \in Documents /\ job.body \in Documents
  BY DEF Jobs
<1>2. job.stage \in {"sent", "stored"} => job.body.map = job.map /\ OnServer(job.body)'
  BY <1>1, OnServerStays DEF HeadFits
<1>3. job.stage = "sent" /\ job.kind = "save" => Bases(job.body)'
  BY <1>1, BasesStay DEF HeadFits
<1>4. job.stage \in {"stored", "read"} => job.doc.map = job.map /\ Published(job.doc)' /\ AllOf(job.doc)'
  BY <1>1, PublishedStays, AllOfStays DEF HeadFits, Published
<1>5. job.stage = "stored" /\ job.kind = "save" => job.doc.edits = job.body.edits
  BY DEF HeadFits
<1>6. QED
  BY <1>2, <1>3, <1>4, <1>5 DEF HeadFits

LEMMA ShownStays == ASSUME KInv, Types', Grows, UNCHANGED shown PROVE ShownFits'
<1>1. PICK doc : doc = shown
  OBVIOUS
<1>2. ASSUME doc.map # None PROVE OnServer(doc)' /\ Bases(doc)'
  BY <1>1, <1>2, OnServerStays, BasesStay DEF KInv, Types, TypeOK, ShownFits
<1>3. QED
  BY <1>1, <1>2 DEF ShownFits, OnServer, Bases, Owed, Safe, SafeIn, CopiedOf

\* Edits that were made are kept, by drafts that are kept.
LEMMA EditStays ==
    ASSUME KInv, Types', Grows, NEW m \in Maps, NEW n \in 1..MaxEdits, <<m, n>> \in made,
           Owed(m)' =>
              (1..MaxEdits) \cap (UNION drafts[m]) \subseteq server'[m].edits \cup (UNION drafts'[m]) \cup Safe(m)'
    PROVE  EditFits(m, n)'
<1>1. EditFits(m, n)
  BY DEF KInv, EditsFit
<1>2. server[m].rev \in Nat /\ server'[m].rev \in Nat /\ server'[m].rev >= server[m].rev
  BY DEF KInv, Types, TypeOK, Grows
<1>3. ASSUME Owed(m)' PROVE n \in server'[m].edits \cup (UNION drafts'[m]) \cup Safe(m)'
  <2>1. n \in server[m].edits \cup (UNION drafts[m]) \cup Safe(m)
    BY <1>1, <1>3, OwedBefore DEF EditFits
  <2>2. server[m].edits \subseteq server'[m].edits \cup Safe(m)' /\ Safe(m) \subseteq Safe(m)'
    BY <1>1, <1>3 DEF Grows, EditFits
  <2>3. (1..MaxEdits) \cap (UNION drafts[m]) \subseteq server'[m].edits \cup (UNION drafts'[m]) \cup Safe(m)'
    BY <1>3
  <2>4. QED
    BY <2>1, <2>2, <2>3
<1>4. QED
  BY <1>1, <1>2, <1>3 DEF EditFits

LEMMA EditsStay ==
    ASSUME KInv, Types', Grows, made' = made,
           DraftsKept
    PROVE  EditsFit'
BY EditStays DEF EditsFit, DraftsKept

\* What the screen had of the running save, it still has.
LEMMA CoversStay ==
    ASSUME KInv, Grows, shown'.map = shown.map, shown.edits \subseteq shown'.edits,
           Saving(shown.map)' => Saving(shown.map) /\ queue'[1].body = queue[1].body
    PROVE  Covers'
<1>1. SUFFICES ASSUME Saving(shown.map)', shown'.map \notin rewound'
               PROVE queue'[1].body.edits \subseteq shown'.edits \cup Safe(shown.map)'
  BY DEF Covers
<1>2. Saving(shown.map) /\ queue'[1].body = queue[1].body /\ shown.map \notin rewound
  BY <1>1 DEF Grows
<1>3. queue[1].map = shown.map /\ 1 \in DOMAIN queue
  BY <1>2 DEF Saving, KInv, Types
<1>4. shown.map \in Maps
  BY <1>3 DEF KInv, QueueFits
<1>5. Safe(shown.map) \subseteq Safe(shown.map)'
  <2>1. PICK m \in Maps : m = shown.map
    BY <1>4
  <2>2. Safe(m) \subseteq Safe(m)'
    BY DEF Grows
  <2>3. QED
    BY <2>1, <2>2 DEF Safe, SafeIn, CopiedOf
<1>6. queue[1].body.edits \subseteq shown.edits \cup Safe(shown.map)
  BY <1>2 DEF KInv, Covers
<1>7. QED
  BY <1>2, <1>5, <1>6

\* Nothing is written: what is safe may grow.
LEMMA SafeGrows ==
    ASSUME DOMAIN copies \subseteq DOMAIN copies', \A i \in DOMAIN copies : copies'[i] = copies[i],
           discarded \subseteq discarded', NEW m
    PROVE  Safe(m) \subseteq Safe(m)'
<1>1. CopiedOf(copies, m) \subseteq CopiedOf(copies', m)
  BY DEF CopiedOf
<1>2. QED
  BY <1>1 DEF Safe, SafeIn

LEMMA GrowsSafely ==
    ASSUME Types, NEW c \in Copies, copies' \in {copies, Append(copies, c)},
           discarded \subseteq discarded', rewound \subseteq rewound', UNCHANGED server
    PROVE  Grows
<1>1. \A m \in Maps : Safe(m) \subseteq Safe(m)'
  <2>1. DOMAIN copies \subseteq DOMAIN copies' /\ \A i \in DOMAIN copies : copies'[i] = copies[i]
    <3>1. copies \in Seq(Copies)
      BY DEF Types
    <3>2. CASE copies' = Append(copies, c)
      BY <3>1, <3>2
    <3>3. QED
      BY <3>2
  <2>2. QED
    BY <2>1, SafeGrows
<1>2. \A m \in Maps : server[m].rev \in Nat
  BY RevIsNat
<1>3. QED
  BY <1>1, <1>2 DEF Grows

LEMMA GrowsNot == ASSUME Types, UNCHANGED <<server, copies, discarded, rewound>> PROVE Grows
<1>1. \A m \in Maps : Safe(m) \subseteq Safe(m)'
  BY SafeGrows
<1>2. \A m \in Maps : server[m].rev \in Nat
  BY RevIsNat
<1>3. QED
  BY <1>1, <1>2 DEF Grows

\* The queue stays; its first job ends; another one waits behind it, or is its first.
LEMMA QueueStays == ASSUME KInv, Types', Grows, UNCHANGED queue PROVE QueueFits'
<1>1. ASSUME queue # <<>> PROVE HeadFits(queue[1])'
  <2>1. PICK job : job = queue[1]
    OBVIOUS
  <2>2. job \in Jobs /\ HeadFits(job)
    BY <1>1, <2>1 DEF KInv, Types, QueueFits
  <2>3. HeadFits(job)'
    BY <2>2, HeadStays DEF KInv
  <2>4. QED
    BY <2>1, <2>3 DEF HeadFits, Published, OnServer, AllOf, Bases, Owed, Safe, SafeIn, CopiedOf
<1>2. QED
  BY <1>1 DEF KInv, QueueFits

LEMMA QueueEnds == ASSUME KInv, queue # <<>>, queue' = Tail(queue) PROVE QueueFits' /\ (\A m : ~Saving(m)')
<1>1. queue \in Seq(Jobs)
  BY DEF KInv, Types
<1>2. \A k \in DOMAIN queue' : queue'[k] = queue[k + 1] /\ k + 1 \in DOMAIN queue /\ k + 1 > 1
  BY <1>1
<1>3. \A k \in DOMAIN queue' : queue'[k].map \in Maps /\ queue'[k].stage = "wait"
  BY <1>2 DEF KInv, QueueFits
<1>4. queue' # <<>> => 1 \in DOMAIN queue'
  BY <1>1
<1>5. QED
  BY <1>3, <1>4 DEF QueueFits, HeadFits, Saving

LEMMA JobWaits ==
    ASSUME KInv, Types', Grows, NEW job \in Jobs, job.stage = "wait", job.map \in Maps, queue' = Append(queue, job)
    PROVE  QueueFits' /\ (\A m : Saving(m)' => Saving(m) /\ queue'[1].body = queue[1].body)
<1>1. queue \in Seq(Jobs)
  BY DEF KInv, Types
<1>2. CASE queue = <<>>
  <2>1. queue' = <<job>> /\ queue'[1] = job /\ DOMAIN queue' = {1}
    BY <1>2
  <2>2. QED
    BY <2>1 DEF QueueFits, HeadFits, Saving
<1>3. CASE queue # <<>>
  <2>1. /\ 1 \in DOMAIN queue /\ queue'[1] = queue[1]
        /\ \A k \in DOMAIN queue' : (k \in DOMAIN queue /\ queue'[k] = queue[k]) \/ queue'[k] = job
    BY <1>1, <1>3
  <2>2. PICK head : head = queue[1]
    OBVIOUS
  <2>3. head \in Jobs /\ HeadFits(head)
    BY <1>1, <1>3, <2>1, <2>2 DEF KInv, QueueFits
  <2>4. HeadFits(head)'
    BY <2>3, HeadStays DEF KInv
  <2>5. HeadFits(queue[1])'
    BY <2>1, <2>2, <2>4 DEF HeadFits, Published, OnServer, AllOf, Bases, Owed, Safe, SafeIn, CopiedOf
  <2>6. \A k \in DOMAIN queue' : queue'[k].map \in Maps /\ (k > 1 => queue'[k].stage = "wait")
    BY <2>1 DEF KInv, QueueFits
  <2>7. \A m : Saving(m)' => Saving(m)
    BY <1>3, <2>1 DEF Saving
  <2>8. QED
    BY <2>1, <2>5, <2>6, <2>7 DEF QueueFits
<1>4. QED
  BY <1>2, <1>3

LEMMA HeadChanges ==
    ASSUME KInv, queue # <<>>, NEW job \in Jobs, job.map \in Maps, HeadFits(job)', Runs(job)
    PROVE  /\ QueueFits' /\ queue'[1] = job /\ queue' # <<>> /\ queue' \in Seq(Jobs)
<1>1. queue \in Seq(Jobs) /\ 1 \in DOMAIN queue
  BY DEF KInv, Types
<1>2. /\ queue' \in Seq(Jobs) /\ DOMAIN queue' = DOMAIN queue /\ queue'[1] = job /\ queue' # <<>>
      /\ \A k \in DOMAIN queue : k # 1 => queue'[k] = queue[k]
  BY <1>1 DEF Runs
<1>3. HeadFits(queue[1])'
  BY <1>2 DEF HeadFits, Published, OnServer, AllOf, Bases, Owed, Safe, SafeIn, CopiedOf
<1>4. QED
  BY <1>2, <1>3 DEF KInv, QueueFits

LEMMA JobBegins ==
    ASSUME KInv, NEW job \in Jobs, job.map \in Maps, HeadFits(job)', queue' = <<job>>
    PROVE  QueueFits' /\ queue'[1] = job
<1>1. queue'[1] = job /\ DOMAIN queue' = {1}
  OBVIOUS
<1>2. HeadFits(queue[1])'
  BY <1>1 DEF HeadFits, Published, OnServer, AllOf, Bases, Owed, Safe, SafeIn, CopiedOf
<1>3. QED
  BY <1>1, <1>2 DEF QueueFits

-----------------------------------------------------------------------------
(* The steps of the moves.                                                  *)

LEMMA LeftTyped ==
    ASSUME Types, Calm \/ \E field \in {"edits", "moves", "mishaps"} : Count(field)
    PROVE  (left \in [{"edits", "moves", "mishaps", "acts"} -> Nat] /\ left.edits \in 0..MaxEdits)'
<1>1. left \in [{"edits", "moves", "mishaps", "acts"} -> Nat] /\ left.edits \in 0..MaxEdits
  BY DEF Types
<1>2. CASE Calm
  BY <1>1, <1>2 DEF Calm
<1>3. ASSUME NEW field \in {"edits", "moves", "mishaps"}, Count(field)
      PROVE  (left \in [{"edits", "moves", "mishaps", "acts"} -> Nat] /\ left.edits \in 0..MaxEdits)'
  <2>1. left[field] \in Nat /\ left[field] > 0 /\ left.acts \in Nat /\ left.acts > 0
    BY <1>1, <1>3 DEF Count
  <2>2. left' = [[left EXCEPT ![field] = left[field] - 1] EXCEPT !.acts = left.acts - 1]
    BY <1>1, <1>3 DEF Count
  <2>3. left[field] - 1 \in Nat /\ left.acts - 1 \in Nat
    BY <2>1
  <2>4. left' \in [{"edits", "moves", "mishaps", "acts"} -> Nat]
    BY <1>1, <2>2, <2>3
  <2>5. left'.edits = IF field = "edits" THEN left.edits - 1 ELSE left.edits
    BY <1>1, <2>2
  <2>6. left'.edits \in 0..MaxEdits
    BY <1>1, <1>3, <2>1, <2>5, WorkspaceAssumption
  <2>7. QED
    BY <2>4, <2>6
<1>4. QED
  BY <1>2, <1>3

LEMMA TasksTyped ==
    ASSUME Types, NEW i \in DOMAIN tasks, NEW task \in Moved, Becomes(i, task)
    PROVE  /\ tasks' \in [0..MaxMoves -> Moved] /\ DOMAIN tasks' = DOMAIN tasks /\ tasks'[i] = task
           /\ \A j \in DOMAIN tasks : j # i => tasks'[j] = tasks[j]
<1>1. tasks \in [0..MaxMoves -> Moved]
  BY DEF Types, TypeOK, Moved
<1>2. QED
  BY <1>1 DEF Becomes

LEMMA NewTasks ==
    ASSUME Types, NEW kind \in {"open", "scope", "create", "delete", "none"}, NEW to \in Maps \cup {None},
           NEW stage \in Stages
    PROVE  /\ Nothing \in Documents
           /\ Task(kind, to, stage) \in Moved /\ Waiting(kind, to) \in Moved /\ Plain(Waiting(kind, to))
           /\ Done \in Moved /\ Plain(Done)
           /\ Task("open", to, "get") \in Moved /\ Plain(Task("open", to, "get"))
<1>1. Nothing \in Documents /\ {"tail", "get", "done"} \subseteq Stages
  BY DEF Nothing, Version, Documents, Stages
<1>2. \A k \in {"open", "scope", "create", "delete", "none"}, m \in Maps \cup {None}, s \in Stages : Task(k, m, s) \in Moved
  BY <1>1 DEF Task, Moved
<1>3. Len(queue) \in Nat
  BY DEF Types
<1>4. Waiting(kind, to) \in Moved /\ Plain(Waiting(kind, to))
  BY <1>1, <1>2, <1>3 DEF Waiting, Task, Plain, Moved
<1>5. Done \in Moved /\ Plain(Done)
  BY <1>1, <1>2 DEF Done, Task, Plain
<1>6. QED
  BY <1>1, <1>2, <1>4, <1>5 DEF Task, Plain

LEMMA AtTyped ==
    ASSUME Types, NEW i \in DOMAIN tasks, NEW stage \in Stages
    PROVE  At(i, stage) \in Moved /\ At(i, stage) = [tasks[i] EXCEPT !.stage = stage] /\ tasks[i] \in Moved
<1>1. tasks[i] \in Moved
  BY DEF Types, TypeOK, Moved
<1>2. QED
  BY <1>1 DEF At, Moved

LEMMA BecomesFits ==
    ASSUME KInv, Types', Grows, NEW i \in DOMAIN tasks, NEW task \in Moved, Becomes(i, task),
           Plain(task) \/ TaskFits(task)'
    PROVE  TasksFit'
<1>1. /\ DOMAIN tasks' = DOMAIN tasks /\ tasks'[i] = task
      /\ \A j \in DOMAIN tasks : j # i => tasks'[j] = tasks[j]
  BY TasksTyped DEF KInv
<1>2. Plain(tasks'[i]) \/ TaskFits(tasks[i])'
  <2>1. CASE Plain(task)
    BY <1>1, <2>1
  <2>2. CASE TaskFits(task)'
    BY <1>1, <2>2 DEF TaskFits, Published, OnServer, AllOf, Owed, Safe, SafeIn, CopiedOf
  <2>3. QED
    BY <2>1, <2>2
<1>3. QED
  BY <1>1, <1>2, TasksStay

\* A task goes on, perhaps with the server: what is on its way stays, and the map on
\* screen, unless it is closed, and the drafts, unless one is given up.
LEMMA TaskStep ==
    ASSUME KInv, NEW i \in DOMAIN tasks, NEW task \in Moved, Becomes(i, task), Plain(task) \/ TaskFits(task)',
           Calm \/ \E field \in {"edits", "moves", "mishaps"} : Count(field),
           UNCHANGED server \/ (Grows /\ ServerTyped'),
           UNCHANGED <<copies, sent, made, rewound>>, discarded \subseteq discarded',
           shown' \in {shown, Nothing}, drafts' = drafts \/ \E m : drafts' = WithoutPending(m),
           DraftsKept,
           {dirty', unlocked', astray'} \subseteq BOOLEAN, {stream', remembered'} \subseteq Maps \cup {None}
    PROVE  KInv'
<1>1. tasks' \in [0..MaxMoves -> Moved]
  BY TasksTyped DEF KInv
<1>2. /\ drafts' \in [Maps \cup {None} -> SUBSET (SUBSET Nat)]
      /\ \A m \in Maps \cup {None} : drafts'[m] \subseteq drafts[m]
  <2>1. drafts \in [Maps \cup {None} -> SUBSET (SUBSET Nat)]
    BY DEF KInv, Types, TypeOK
  <2>2. QED
    BY <2>1 DEF WithoutPending
<1>3. Types'
  <2>1. (left \in [{"edits", "moves", "mishaps", "acts"} -> Nat] /\ left.edits \in 0..MaxEdits)'
    BY LeftTyped DEF KInv
  <2>2. Nothing \in Documents
    BY DEF Nothing, Version, Documents
  <2>3. ServerTyped'
    BY DEF KInv, Types, ServerTyped
  <2>4. TypeOK'
    BY <1>1, <1>2, <2>2, <2>3 DEF KInv, Types, TypeOK, Moved, sent, ServerTyped
  <2>5. QED
    BY <2>1, <2>3, <2>4 DEF KInv, Types, sent
<1>4. Grows
  <2>1. DOMAIN copies \subseteq DOMAIN copies' /\ \A k \in DOMAIN copies : copies'[k] = copies[k]
    OBVIOUS
  <2>2. \A m \in Maps : Safe(m) \subseteq Safe(m)'
    BY <2>1, SafeGrows
  <2>3. \A m \in Maps : server[m].rev \in Nat
    BY RevIsNat DEF KInv
  <2>4. CASE UNCHANGED server
    BY <2>2, <2>3, <2>4 DEF Grows
  <2>5. QED
    BY <2>4
<1>5. TasksFit' /\ NewsFit' /\ DirectFits' /\ QueueFits'
  BY <1>3, <1>4, BecomesFits, NewsStay, DirectStays, QueueStays DEF sent
<1>6. CASE shown' = shown
  <2>1. ShownFits'
    BY <1>3, <1>4, <1>6, ShownStays
  <2>2. Covers'
    BY <1>4, <1>6, CoversStay DEF sent, Saving
  <2>3. DraftsFit' /\ EditsFit'
    BY <1>2, <1>3, <1>4, <1>6, EditsStay DEF KInv, DraftsFit, Types, TypeOK, Documents
  <2>4. QED
    BY <1>3, <1>5, <2>1, <2>2, <2>3 DEF KInv
<1>7. CASE shown' = Nothing
  <2>1. shown'.map = None
    BY <1>7 DEF Nothing, Version
  <2>2. ~Saving(shown.map)'
    BY <2>1, WorkspaceAssumption DEF KInv, QueueFits, Saving, sent, Types
  <2>3. ShownFits' /\ Covers'
    BY <2>1, <2>2 DEF ShownFits, Covers
  <2>4. DraftsFit' /\ EditsFit'
    BY <1>2, <1>3, <1>4, <2>1, EditsStay DEF KInv, DraftsFit
  <2>5. QED
    BY <1>3, <1>5, <2>3, <2>4 DEF KInv
<1>8. QED
  BY <1>6, <1>7

\* Drafts that stay are kept.
LEMMA DraftsStay ==
    ASSUME drafts' = drafts
    PROVE  DraftsKept
BY DEF DraftsKept

\* loadTopology begins, or waits to leave the map.
LEMMA EnterStep ==
    ASSUME KInv, NEW i \in DOMAIN tasks, NEW m \in Maps \cup {None}, Enter(i, m) \/ Loading(i, m),
           Calm \/ \E field \in {"edits", "moves", "mishaps"} : Count(field), dirty' \in BOOLEAN,
           UNCHANGED <<server, shown, copies, sent, remembered, made, discarded, astray, rewound>>,
           drafts' = drafts \/ \E k : drafts' = WithoutPending(k),
           DraftsKept
    PROVE  KInv'
<1>1. /\ {astray, unlocked, FALSE} \subseteq BOOLEAN /\ {stream, remembered, None} \subseteq Maps \cup {None}
      /\ "none" \in {"open", "scope", "create", "delete", "none"} /\ "get" \in Stages
  BY DEF KInv, Types, TypeOK, Stages
<1>2. /\ Waiting("open", m) \in Moved /\ Plain(Waiting("open", m)) /\ Done \in Moved /\ Plain(Done)
      /\ Task("open", m, "get") \in Moved /\ Plain(Task("open", m, "get"))
  BY <1>1, NewTasks DEF KInv
<1>3. CASE Loading(i, m)
  BY <1>1, <1>2, <1>3, TaskStep DEF Loading
<1>4. CASE Becomes(i, IF Leaving THEN Done ELSE Waiting("open", m)) /\ UNCHANGED <<unlocked, stream>>
  <2>1. PICK task : task = (IF Leaving THEN Done ELSE Waiting("open", m))
    OBVIOUS
  <2>2. task \in Moved /\ Plain(task) /\ Becomes(i, task)
    BY <1>2, <1>4, <2>1
  <2>3. QED
    BY <1>1, <1>4, <2>2, TaskStep
<1>5. QED
  BY <1>3, <1>4 DEF Enter

\* What the types say of the flags and of the places.
LEMMA FlagsTyped ==
    ASSUME KInv
    PROVE  /\ {dirty, unlocked, astray, TRUE, FALSE} \subseteq BOOLEAN
           /\ {stream, remembered, shown.map, None} \subseteq Maps \cup {None}
           /\ {"scope", "create", "open", "delete", "none"} = {"open", "scope", "create", "delete", "none"}
           /\ {"tail", "ask", "saving", "left", "get", "got", "act", "acted", "done"} = Stages
           /\ shown \in Documents
BY DEF KInv, Types, TypeOK, Documents, Stages

\* The user chooses: at most a task begins, and a deletion remembers what is on screen.
LEMMA ChooseStep ==
    ASSUME WInv, KInv, NEW move \in Moves, Choose(move[1], move[2])
    PROVE  KInv'
<1> DEFINE i == MaxMoves - left.moves + 1
<1>1. PICK kind, to : kind = move[1] /\ to = move[2]
  OBVIOUS
<1>2. kind \in {"open", "scope", "create", "delete", "none"} /\ to \in Maps \cup {None}
  BY <1>1 DEF Moves
<1>3. /\ Count("moves")
      /\ UNCHANGED <<server, shown, dirty, drafts, copies, sent, remembered, made, discarded, astray, rewound>>
      /\ \/ to \in Live /\ Enter(i, to)
         \/ Becomes(i, Waiting(kind, to)) /\ UNCHANGED <<unlocked, stream>>
         \/ /\ kind = "delete" /\ to = shown.map /\ to # None
            /\ Becomes(i, [Task("delete", to, "act") EXCEPT !.doc = shown]) /\ UNCHANGED <<unlocked, stream>>
  BY <1>1 DEF Choose, history
<1>4. i \in DOMAIN tasks
  <2>1. left.moves > 0 /\ left.moves \in 0..MaxMoves /\ MaxMoves \in Nat /\ DOMAIN tasks = 0..MaxMoves
    BY <1>3, WorkspaceAssumption DEF WInv, Bounds, Tasks, Count
  <2>2. QED
    BY <2>1
<1>5. PICK j \in DOMAIN tasks : j = i
  BY <1>4
<1>6. \E field \in {"edits", "moves", "mishaps"} : Count(field)
  BY <1>3
<1>7. CASE to \in Live /\ Enter(i, to)
  BY <1>3, <1>5, <1>6, <1>7, EnterStep, DraftsStay, FlagsTyped DEF Live
<1>8. CASE Becomes(i, Waiting(kind, to)) /\ UNCHANGED <<unlocked, stream>>
  <2>1. PICK task : task = Waiting(kind, to)
    OBVIOUS
  <2>2. task \in Moved /\ Plain(task)
    BY <1>2, <2>1, NewTasks, FlagsTyped DEF KInv
  <2>3. QED
    BY <1>3, <1>5, <1>6, <1>8, <2>1, <2>2, TaskStep, DraftsStay, FlagsTyped
<1>9. CASE /\ kind = "delete" /\ to = shown.map /\ to # None
           /\ Becomes(i, [Task("delete", to, "act") EXCEPT !.doc = shown]) /\ UNCHANGED <<unlocked, stream>>
  <2>1. PICK task : task = [Task("delete", to, "act") EXCEPT !.doc = shown]
    OBVIOUS
  <2>2. Task("delete", to, "act") \in Moved
    BY <1>2, NewTasks, FlagsTyped DEF KInv
  <2>3. task \in Moved /\ task.doc = shown /\ task.to = to /\ task.stage = "act" /\ task.kind = "delete"
    BY <2>1, <2>2, FlagsTyped DEF Task, Moved
  <2>4. OnServer(shown)
    BY <1>9 DEF KInv, ShownFits
  <2>5. TaskFits(task)'
    BY <1>3, <1>9, <2>3, <2>4 DEF TaskFits, OnServer
  <2>6. QED
    BY <1>3, <1>5, <1>6, <1>9, <2>1, <2>3, <2>5, TaskStep, DraftsStay, FlagsTyped
<1>10. QED
  BY <1>3, <1>7, <1>8, <1>9

LEMMA DrainedStep == ASSUME KInv, NEW i \in DOMAIN tasks, Drained(i) \/ Stay(i) PROVE KInv'
<1>1. PICK stage \in Stages : stage \notin {"got", "act", "acted"} /\ (Becomes(i, At(i, stage)) \/ Becomes(i, Done))
  BY DEF Drained, Stay, Stages
<1>2. /\ At(i, stage) \in Moved /\ Plain(At(i, stage)) /\ Done \in Moved /\ Plain(Done)
  BY <1>1, AtTyped, NewTasks, FlagsTyped DEF Plain, KInv, Moved
<1>3. PICK task \in Moved : Plain(task) /\ Becomes(i, task)
  BY <1>1, <1>2
<1>4. QED
  BY <1>3, TaskStep, DraftsStay, FlagsTyped DEF Drained, Stay, page, place, history

\* The edits of the draft are given up, but for those that are stored.
LEMMA DiscardStep == ASSUME KInv, NEW i \in DOMAIN tasks, Discard(i) PROVE KInv'
<1>1. PICK task \in Moved : Plain(task) /\ Becomes(i, task)
  BY AtTyped, FlagsTyped DEF Discard, Plain, KInv, Moved
<1>2. discarded' = discarded \cup
          {<<shown.map, n>> : n \in {k \in UNION drafts[shown.map] : k \notin server[shown.map].edits}}
  BY DEF Discard
<1>3. drafts \in [Maps \cup {None} -> SUBSET (SUBSET Nat)]
  BY DEF KInv, Types, TypeOK
<1>4. ASSUME NEW m \in Maps, NEW n \in 1..MaxEdits, n \in UNION drafts[m]
      PROVE  n \in server[m].edits \cup (UNION drafts'[m]) \cup Safe(m)'
  <2>1. CASE m = shown.map /\ n \notin server[m].edits
    <3>1. <<m, n>> \in discarded'
      BY <1>2, <1>4, <2>1
    <3>2. QED
      BY <3>1 DEF Safe, SafeIn
  <2>2. CASE m # shown.map
    <3>1. drafts'[m] = drafts[m]
      BY <1>3, <2>2 DEF Discard, WithoutPending
    <3>2. QED
      BY <1>4, <3>1
  <2>3. QED
    BY <2>1, <2>2
<1>5. /\ UNCHANGED <<server, copies, sent, made, rewound, shown, unlocked, astray, stream, remembered>> /\ Calm
      /\ dirty' = FALSE /\ drafts' = WithoutPending(shown.map) /\ discarded \subseteq discarded'
  BY <1>2 DEF Discard, place
<1>6. QED
  BY <1>1, <1>4, <1>5, TaskStep, FlagsTyped DEF DraftsKept

\* A failed reading, and one that is answered.
LEMMA GetStep == ASSUME KInv, NEW i \in DOMAIN tasks, Get(i) PROVE KInv'
<1>1. /\ Calm \/ \E field \in {"edits", "moves", "mishaps"} : Count(field)
      /\ UNCHANGED <<server, shown, dirty, unlocked, drafts, copies, sent, stream, remembered, made, discarded, rewound>>
      /\ astray' \in BOOLEAN
  BY FlagsTyped DEF Get, Mishap, page, place
<1>2. CASE Becomes(i, Done)
  BY <1>1, <1>2, NewTasks, TaskStep, DraftsStay, FlagsTyped DEF KInv
<1>3. CASE tasks[i].to \in Live /\ Becomes(i, [At(i, "got") EXCEPT !.doc = Document(tasks[i].to)])
  <2>1. PICK m \in Maps : m = tasks[i].to /\ server[m].live
    BY <1>3 DEF Live
  <2>2. PICK task : task = [At(i, "got") EXCEPT !.doc = Document(m)]
    OBVIOUS
  <2>3. Document(m) \in Documents /\ Document(m).map = m /\ Document(m).rev = server[m].rev /\ Document(m).edits = server[m].edits
    BY DEF Document, Version, Documents, KInv, Types, TypeOK
  <2>4. At(i, "got") \in Moved /\ At(i, "got").stage = "got"
    BY AtTyped, FlagsTyped DEF KInv, Moved
  <2>5. task \in Moved /\ task.stage = "got" /\ task.doc = Document(m)
    BY <2>2, <2>3, <2>4 DEF Moved
  <2>6. TaskFits(task)'
    <3>1. task.doc.map = m /\ task.doc.rev = server'[m].rev /\ task.doc.edits = server'[m].edits /\ server'[m].rev \in Nat
      BY <1>1, <2>3, <2>5 DEF KInv, Types, TypeOK
    <3>2. server[m].rev > 0
      BY <2>1 DEF KInv, Types, ServerTyped
    <3>3. QED
      BY <1>1, <2>5, <3>1, <3>2 DEF TaskFits, Published, OnServer, AllOf
  <2>7. QED
    BY <1>1, <1>3, <2>1, <2>2, <2>5, <2>6, TaskStep, DraftsStay, FlagsTyped
<1>4. QED
  BY <1>2, <1>3 DEF Get

\* What was chosen goes on.
LEMMA LeftStep == ASSUME KInv, NEW i \in DOMAIN tasks, Left(i) PROVE KInv'
<1>1. /\ UNCHANGED <<server, dirty, drafts, copies, sent, remembered, made, discarded, rewound>> /\ Calm
      /\ \/ tasks[i].kind = "open" /\ Loading(i, tasks[i].to) /\ UNCHANGED <<shown, astray>>
         \/ tasks[i].kind = "create" /\ Becomes(i, At(i, "act")) /\ UNCHANGED <<shown, unlocked, stream, astray>>
         \/ Becomes(i, Done) /\ UNCHANGED <<shown, unlocked, stream, astray>>
         \/ Becomes(i, Done) /\ Clear
         \/ \E m \in Live : Enter(i, m) /\ UNCHANGED <<shown, astray>>
  BY DEF Left
<1>2. /\ tasks[i].to \in Maps \cup {None} /\ Live \subseteq Maps \cup {None}
      /\ Done \in Moved /\ Plain(Done)
  BY AtTyped, NewTasks, FlagsTyped DEF KInv, Moved, Live
<1>3. CASE \E m \in Maps \cup {None} : (Loading(i, m) \/ Enter(i, m)) /\ UNCHANGED <<shown, astray>>
  BY <1>1, <1>3, EnterStep, DraftsStay, FlagsTyped
<1>4. CASE tasks[i].kind = "create" /\ Becomes(i, At(i, "act")) /\ UNCHANGED <<shown, unlocked, stream, astray>>
  <2>1. PICK task : task = At(i, "act")
    OBVIOUS
  <2>2. task \in Moved /\ Plain(task)
    BY <1>4, <2>1, AtTyped, FlagsTyped DEF Plain, KInv, Moved
  <2>3. QED
    BY <1>1, <1>4, <2>1, <2>2, TaskStep, DraftsStay, FlagsTyped
<1>5. CASE Becomes(i, Done) /\ UNCHANGED <<shown, unlocked, stream, astray>>
  BY <1>1, <1>2, <1>5, TaskStep, DraftsStay, FlagsTyped
<1>6. CASE Becomes(i, Done) /\ Clear
  BY <1>1, <1>2, <1>6, TaskStep, DraftsStay, FlagsTyped DEF Clear
<1>7. QED
  BY <1>1, <1>2, <1>3, <1>4, <1>5, <1>6

\* A new map is listed and opened.
LEMMA CreatedStep == ASSUME KInv, NEW i \in DOMAIN tasks, Created(i) PROVE KInv'
<1>1. /\ UNCHANGED <<server, shown, dirty, drafts, copies, sent, remembered, made, discarded, astray, rewound>>
      /\ Calm \/ \E field \in {"edits", "moves", "mishaps"} : Count(field)
      /\ Enter(i, tasks[i].to) \/ (Becomes(i, Done) /\ UNCHANGED <<unlocked, stream>>)
  BY DEF Created, Mishap, history
<1>2. tasks[i].to \in Maps \cup {None} /\ Done \in Moved /\ Plain(Done)
  BY AtTyped, NewTasks, FlagsTyped DEF KInv, Moved
<1>3. CASE Enter(i, tasks[i].to)
  <2>1. PICK m \in Maps \cup {None} : m = tasks[i].to
    BY <1>2
  <2>2. QED
    BY <1>1, <1>3, <2>1, EnterStep, DraftsStay, FlagsTyped
<1>4. QED
  BY <1>1, <1>2, <1>3, TaskStep, DraftsStay, FlagsTyped

\* The map is gone, and its draft.
LEMMA DeletedStep == ASSUME KInv, NEW i \in DOMAIN tasks, Deleted(i) PROVE KInv'
<1>1. /\ UNCHANGED <<server, copies, sent, remembered, made, discarded, rewound>>
      /\ dirty' = FALSE /\ drafts' = WithoutPending(tasks[i].to)
      /\ Calm \/ \E field \in {"edits", "moves", "mishaps"} : Count(field)
      /\ \/ \E m \in Live : Enter(i, m) /\ UNCHANGED <<shown, astray>>
         \/ Becomes(i, Done) /\ Clear
         \/ Becomes(i, Task("create", None, "act")) /\ UNCHANGED <<shown, unlocked, stream, astray>>
         \/ Becomes(i, Done) /\ UNCHANGED <<shown, unlocked, stream, astray>>
  BY DEF Deleted, Mishap
<1>2. PICK d : d = tasks[i].to
  OBVIOUS
<1>3. d \in Maps /\ ~server[d].live
  BY <1>2 DEF KInv, TasksFit, TaskFits, Deleted
<1>4. drafts \in [Maps \cup {None} -> SUBSET (SUBSET Nat)]
  BY DEF KInv, Types, TypeOK
<1>5. DraftsKept
  <2>1. SUFFICES ASSUME NEW m \in Maps, Owed(m)' PROVE drafts'[m] = drafts[m]
    BY DEF DraftsKept
  <2>2. m # d
    BY <1>1, <1>3, <2>1 DEF Owed
  <2>3. QED
    BY <1>1, <1>2, <1>4, <2>2 DEF WithoutPending
<1>6. /\ Live \subseteq Maps \cup {None} /\ Done \in Moved /\ Plain(Done)
      /\ Task("create", None, "act") \in Moved /\ Plain(Task("create", None, "act"))
  BY NewTasks, FlagsTyped DEF KInv, Live, Task, Plain
<1>7. \E k : drafts' = WithoutPending(k)
  BY <1>1
<1>8. CASE \E m \in Live : Enter(i, m) /\ UNCHANGED <<shown, astray>>
  BY <1>1, <1>5, <1>6, <1>7, <1>8, EnterStep, FlagsTyped
<1>9. CASE Becomes(i, Done) /\ Clear
  BY <1>1, <1>5, <1>6, <1>7, <1>9, TaskStep, FlagsTyped DEF Clear
<1>10. CASE Becomes(i, Task("create", None, "act")) /\ UNCHANGED <<shown, unlocked, stream, astray>>
  BY <1>1, <1>5, <1>6, <1>7, <1>10, TaskStep, FlagsTyped
<1>11. CASE Becomes(i, Done) /\ UNCHANGED <<shown, unlocked, stream, astray>>
  BY <1>1, <1>5, <1>6, <1>7, <1>11, TaskStep, FlagsTyped
<1>12. QED
  BY <1>1, <1>8, <1>9, <1>10, <1>11

\* A map is created on the server: one that never was.
LEMMA CreateStep == ASSUME KInv, NEW i \in DOMAIN tasks, Create(i) PROVE KInv'
<1>1. /\ UNCHANGED <<shown, dirty, unlocked, drafts, copies, sent, stream, remembered, made, discarded, astray, rewound>>
      /\ tasks[i].kind = "create" /\ (Calm \/ \E field \in {"edits", "moves", "mishaps"} : Count(field))
      /\ \/ \E m \in Maps :
              /\ server[m].rev = 0
              /\ server' = [server EXCEPT ![m] = [live |-> TRUE, rev |-> 1, edits |-> {}]]
              /\ Becomes(i, [At(i, "acted") EXCEPT !.to = m]) \/ Becomes(i, Done)
         \/ Becomes(i, Done) /\ UNCHANGED server
  BY DEF Create, Mishap, page, place, history
<1>2. Done \in Moved /\ Plain(Done)
  BY NewTasks, FlagsTyped DEF KInv
<1>3. CASE Becomes(i, Done) /\ UNCHANGED server
  BY <1>1, <1>2, <1>3, TaskStep, DraftsStay, FlagsTyped
<1>4. ASSUME NEW m \in Maps, server[m].rev = 0,
             server' = [server EXCEPT ![m] = [live |-> TRUE, rev |-> 1, edits |-> {}]],
             Becomes(i, [At(i, "acted") EXCEPT !.to = m]) \/ Becomes(i, Done)
      PROVE  KInv'
  <2>1. PICK task : Becomes(i, task) /\ (task = [At(i, "acted") EXCEPT !.to = m] \/ task = Done)
    BY <1>4
  <2>2. task \in Moved /\ Plain(task)
    <3>1. At(i, "acted") \in Moved /\ At(i, "acted").kind = "create" /\ At(i, "acted").stage = "acted"
      BY <1>1, AtTyped, FlagsTyped DEF KInv, Moved
    <3>2. CASE task = [At(i, "acted") EXCEPT !.to = m]
      <4>1. task \in Moved /\ task.kind = "create" /\ task.stage = "acted"
        BY <3>1, <3>2 DEF Moved
      <4>2. QED
        BY <4>1 DEF Plain
    <3>3. CASE task = Done
      BY <1>2, <3>3
    <3>4. QED
      BY <2>1, <3>2, <3>3
  <2>3. /\ server \in [Maps -> [live : BOOLEAN, rev : Nat, edits : SUBSET Nat]]
        /\ server' \in [Maps -> [live : BOOLEAN, rev : Nat, edits : SUBSET Nat]]
        /\ server'[m] = [live |-> TRUE, rev |-> 1, edits |-> {}] /\ \A k \in Maps : k # m => server'[k] = server[k]
    BY <1>4 DEF KInv, Types, ServerTyped
  <2>4. ServerTyped'
    <3>1. \A k \in Maps : server'[k].live => server'[k].rev > 0
      BY <2>3 DEF KInv, Types, ServerTyped
    <3>2. QED
      BY <2>3, <3>1 DEF ServerTyped
  <2>5. \A k \in Maps : Safe(k) \subseteq Safe(k)'
    BY <1>1, SafeGrows
  <2>6. Grows
    BY <1>1, <1>4, <2>3, <2>5 DEF Grows
  <2>7. QED
    BY <1>1, <2>1, <2>2, <2>4, <2>6, TaskStep, DraftsStay, FlagsTyped
<1>5. QED
  BY <1>1, <1>3, <1>4

\* A map is deleted on the server, at the revision that was on screen.
LEMMA DeleteStep == ASSUME KInv, NEW i \in DOMAIN tasks, Delete(i) PROVE KInv'
<1>1. PICK doc : doc = tasks[i].doc
  OBVIOUS
<1>2. /\ UNCHANGED <<shown, dirty, unlocked, drafts, copies, sent, stream, remembered, made, discarded, astray, rewound>>
      /\ tasks[i].kind = "delete" /\ (Calm \/ \E field \in {"edits", "moves", "mishaps"} : Count(field))
      /\ \/ /\ server[doc.map].live /\ server' = [server EXCEPT ![doc.map].live = FALSE]
            /\ Becomes(i, At(i, "acted")) \/ Becomes(i, Done)
         \/ Becomes(i, Done) /\ UNCHANGED server
  BY <1>1 DEF Delete, Mishap, page, place, history
<1>3. Done \in Moved /\ Plain(Done) /\ doc.map = tasks[i].to /\ doc.map \in Maps
  BY <1>1, NewTasks, FlagsTyped DEF KInv, TasksFit, TaskFits, OnServer, Delete
<1>4. CASE Becomes(i, Done) /\ UNCHANGED server
  BY <1>2, <1>3, <1>4, TaskStep, DraftsStay, FlagsTyped
<1>5. CASE /\ server[doc.map].live /\ server' = [server EXCEPT ![doc.map].live = FALSE]
           /\ Becomes(i, At(i, "acted")) \/ Becomes(i, Done)
  <2>1. PICK task : Becomes(i, task) /\ (task = At(i, "acted") \/ task = Done)
    BY <1>5
  <2>2. PICK m \in Maps : m = doc.map
    BY <1>3
  <2>3. /\ server \in [Maps -> [live : BOOLEAN, rev : Nat, edits : SUBSET Nat]]
        /\ server' \in [Maps -> [live : BOOLEAN, rev : Nat, edits : SUBSET Nat]]
        /\ server'[m] = [server[m] EXCEPT !.live = FALSE] /\ \A k \in Maps : k # m => server'[k] = server[k]
    BY <1>5, <2>2 DEF KInv, Types, ServerTyped
  <2>4. server[m].rev > 0 /\ ~server'[m].live /\ server'[m].rev = server[m].rev /\ server'[m].edits = server[m].edits
    BY <1>5, <2>2, <2>3 DEF KInv, Types, ServerTyped
  <2>5. ServerTyped'
    BY <2>3, <2>4 DEF KInv, Types, ServerTyped
  <2>6. \A k \in Maps : Safe(k) \subseteq Safe(k)'
    BY <1>2, SafeGrows
  <2>7. Grows
    BY <1>2, <2>3, <2>4, <2>6 DEF Grows
  <2>8. task \in Moved /\ (Plain(task) \/ TaskFits(task)')
    <3>1. CASE task = Done
      BY <1>3, <3>1
    <3>2. CASE task = At(i, "acted")
      <4>1. task \in Moved /\ task.to = m /\ task.stage = "acted"
        BY <1>3, <2>2, <3>2, AtTyped, FlagsTyped DEF KInv, Moved
      <4>2. QED
        BY <2>3, <2>4, <4>1 DEF TaskFits
    <3>3. QED
      BY <2>1, <3>1, <3>2
  <2>9. QED
    BY <1>2, <2>1, <2>5, <2>7, <2>8, TaskStep, DraftsStay, FlagsTyped
<1>6. QED
  BY <1>2, <1>4, <1>5

-----------------------------------------------------------------------------
(* The steps of edits and writes.                                           *)

\* A save begins: it submits what is on screen.
LEMMA SaveBegins ==
    ASSUME KInv, queue = <<>>, shown.map # None, NEW asked \in BOOLEAN,
           queue' = <<Job("save", "sent", 0, asked)>>,
           UNCHANGED <<server, shown, copies, discarded, rewound>>
    PROVE  queue' \in Seq(Jobs) /\ QueueFits' /\ Covers'
<1>1. PICK job : job = Job("save", "sent", 0, asked)
  OBVIOUS
<1>2. Nothing \in Documents /\ shown \in Documents
  BY DEF Nothing, Version, Documents, KInv, Types, TypeOK
<1>3. /\ job \in Jobs /\ job.kind = "save" /\ job.stage = "sent"
      /\ job.map = shown.map /\ job.body = shown
  BY <1>1, <1>2 DEF Job, Jobs, Documents
<1>4. OnServer(shown) /\ Bases(shown) /\ shown.map \in Maps
  BY DEF KInv, ShownFits, OnServer
<1>5. HeadFits(job)'
  BY <1>3, <1>4 DEF HeadFits, OnServer, Bases, Owed, Safe, SafeIn, CopiedOf
<1>6. QueueFits' /\ queue'[1] = job
  BY <1>1, <1>3, <1>4, <1>5, JobBegins
<1>7. Covers'
  BY <1>3, <1>6 DEF Covers
<1>8. QED
  BY <1>1, <1>3, <1>6, <1>7

LEMMA FlushStep == ASSUME KInv, Flush PROVE KInv'
<1>1. /\ queue' = <<Job("save", "sent", 0, FALSE)>> /\ queue = <<>> /\ shown.map # None
      /\ UNCHANGED <<server, shown, dirty, unlocked, drafts, copies, direct, news, tasks, stream, remembered,
                     made, discarded, astray, rewound, left>>
  BY DEF Flush, page, place, history, Calm
<1>2. queue' \in Seq(Jobs) /\ QueueFits' /\ Covers'
  BY <1>1, SaveBegins
<1>3. Types'
  BY <1>1, <1>2 DEF KInv, Types, TypeOK, ServerTyped
<1>4. Grows
  BY <1>1, GrowsNot DEF KInv
<1>5. TasksFit' /\ NewsFit' /\ DirectFits' /\ ShownFits'
  BY <1>1, <1>3, <1>4, TasksStay, NewsStay, DirectStays, ShownStays
<1>6. DraftsFit' /\ EditsFit'
  BY <1>1, <1>3, <1>4, EditsStay, DraftsStay DEF KInv, DraftsFit
<1>7. QED
  BY <1>2, <1>3, <1>5, <1>6 DEF KInv

LEMMA SaveFirstStep == ASSUME KInv, NEW i \in DOMAIN tasks, SaveFirst(i) PROVE KInv'
<1>1. UNCHANGED <<server, shown, dirty, unlocked, drafts, copies, direct, news, stream, remembered,
                  made, discarded, astray, rewound, left>>
  BY DEF SaveFirst, page, place, history, Calm
<1>2. CASE Becomes(i, Done) /\ UNCHANGED queue
  BY <1>1, <1>2, NewTasks, TaskStep, DraftsStay, FlagsTyped DEF KInv, Calm, sent
<1>3. CASE /\ shown.map # None /\ queue = <<>> /\ queue' = <<Job("save", "sent", 0, TRUE)>>
           /\ Becomes(i, [At(i, "saving") EXCEPT !.copies = Recoveries(copies)])
  <2>1. PICK task : task = [At(i, "saving") EXCEPT !.copies = Recoveries(copies)]
    OBVIOUS
  <2>2. Recoveries(copies) \in Nat
    BY DEF KInv, Types, Recoveries
  <2>3. At(i, "saving") \in Moved /\ At(i, "saving").stage = "saving"
    BY AtTyped, FlagsTyped DEF KInv, Moved
  <2>4. task \in Moved /\ Plain(task)
    BY <2>1, <2>2, <2>3 DEF Moved, Plain
  <2>5. queue' \in Seq(Jobs) /\ QueueFits' /\ Covers'
    BY <1>1, <1>3, SaveBegins
  <2>6. tasks' \in [0..MaxMoves -> Moved]
    BY <1>3, <2>1, <2>4, TasksTyped DEF KInv
  <2>7. Types'
    BY <1>1, <2>5, <2>6 DEF KInv, Types, TypeOK, ServerTyped, Moved
  <2>8. Grows
    BY <1>1, GrowsNot DEF KInv
  <2>9. TasksFit' /\ NewsFit' /\ DirectFits' /\ ShownFits'
    BY <1>1, <1>3, <2>1, <2>4, <2>7, <2>8, BecomesFits, NewsStay, DirectStays, ShownStays
  <2>10. DraftsFit' /\ EditsFit'
    BY <1>1, <2>7, <2>8, EditsStay, DraftsStay DEF KInv, DraftsFit
  <2>11. QED
    BY <2>5, <2>7, <2>9, <2>10 DEF KInv
<1>4. QED
  BY <1>2, <1>3 DEF SaveFirst

\* What is on screen and what is safe stay; the server, the queue, a write past it and
\* the news may change.
LEMMA WriteStep ==
    ASSUME KInv, UNCHANGED server \/ (Grows /\ ServerTyped'), UNCHANGED <<shown, drafts, copies, tasks, stream, remembered, made, discarded, astray, rewound>>,
           {dirty', unlocked'} \subseteq BOOLEAN, Calm \/ \E field \in {"edits", "moves", "mishaps"} : Count(field),
           queue' \in Seq(Jobs), direct' \in Directs, news' \in Documents,
           Types' => NewsFit' /\ DirectFits' /\ QueueFits' /\ Covers'
    PROVE  KInv'
<1>1. (left \in [{"edits", "moves", "mishaps", "acts"} -> Nat] /\ left.edits \in 0..MaxEdits)'
  BY LeftTyped DEF KInv
<1>2. Types' /\ Grows
  <2>1. CASE UNCHANGED server
    BY <1>1, <2>1, GrowsNot DEF KInv, Types, TypeOK, ServerTyped
  <2>2. CASE Grows /\ ServerTyped'
    BY <1>1, <2>2 DEF KInv, Types, TypeOK, ServerTyped
  <2>3. QED
    BY <2>1, <2>2
<1>3. Grows
  BY <1>2
<1>4. TasksFit' /\ ShownFits'
  BY <1>2, <1>3, TasksStay, ShownStays
<1>5. DraftsFit' /\ EditsFit'
  BY <1>2, <1>3, EditsStay, DraftsStay DEF KInv, DraftsFit
<1>6. QED
  BY <1>2, <1>4, <1>5 DEF KInv

LEMMA LockStep == ASSUME KInv, NEW open \in BOOLEAN, Lock(open) PROVE KInv'
<1>1. /\ UNCHANGED <<server, shown, dirty, drafts, copies, queue, direct, news, tasks, stream, remembered,
                     made, discarded, astray, rewound, left>>
      /\ unlocked' = open
  BY DEF Lock, sent, place, history, Calm
<1>2. Grows
  BY <1>1, GrowsNot DEF KInv
<1>3. Types' => NewsFit' /\ DirectFits' /\ QueueFits' /\ Covers'
  BY <1>1, <1>2, NewsStay, DirectStays, QueueStays, CoversStay DEF Saving
<1>4. dirty \in BOOLEAN /\ queue \in Seq(Jobs) /\ direct \in Directs /\ news \in Documents
  BY DEF KInv, Types, TypeOK
<1>5. QED
  BY <1>1, <1>3, <1>4, WriteStep DEF Calm

\* The number of the next edit.
LEMMA EditTyped == ASSUME KInv, Count("edits") PROVE Edit \in 1..MaxEdits /\ Edit \in Nat
<1>1. left.edits \in 0..MaxEdits /\ left.edits > 0 /\ MaxEdits \in Nat
  BY WorkspaceAssumption DEF KInv, Types, Count
<1>2. QED
  BY <1>1 DEF Edit

\* An operation takes its turn behind the others.
LEMMA OperateStep == ASSUME KInv, Operate PROVE KInv'
<1>1. PICK job : job = Job("op", "wait", Edit, FALSE)
  OBVIOUS
<1>2. Count("edits") /\ shown.map # None /\ queue' = Append(queue, job)
  BY <1>1 DEF Operate, Editing
<1>3. Nothing \in Documents /\ shown \in Documents
  BY DEF Nothing, Version, Documents, KInv, Types, TypeOK
<1>4. job \in Jobs /\ job.stage = "wait" /\ job.map \in Maps
  BY <1>1, <1>2, <1>3, EditTyped DEF Job, Jobs, Documents
<1>5. /\ UNCHANGED <<server, shown, dirty, unlocked, drafts, copies, direct, news, tasks, stream, remembered,
                     made, discarded, astray, rewound>>
  BY DEF Operate, page, place, history
<1>6. Grows
  BY <1>5, GrowsNot DEF KInv
<1>7. ASSUME Types' PROVE NewsFit' /\ DirectFits' /\ QueueFits' /\ Covers'
  <2>1. QueueFits' /\ \A m : Saving(m)' => Saving(m) /\ queue'[1].body = queue[1].body
    BY <1>2, <1>4, <1>6, <1>7, JobWaits
  <2>2. Saving(shown.map)' => Saving(shown.map) /\ queue'[1].body = queue[1].body
    <3>1. PICK m : m = shown.map
      OBVIOUS
    <3>2. Saving(m)' => Saving(m) /\ queue'[1].body = queue[1].body
      BY <2>1
    <3>3. QED
      BY <1>5, <3>1, <3>2 DEF Saving
  <2>3. QED
    BY <1>5, <1>6, <1>7, <2>1, <2>2, NewsStay, DirectStays, CoversStay
<1>8. {dirty, unlocked} \subseteq BOOLEAN /\ queue' \in Seq(Jobs) /\ direct \in Directs /\ news \in Documents
  BY <1>2, <1>4 DEF KInv, Types, TypeOK
<1>9. \E field \in {"edits", "moves", "mishaps"} : Count(field)
  BY <1>2
<1>10. QED
  BY <1>5, <1>7, <1>8, <1>9, WriteStep

\* A write past the queue carries the revision on screen.
LEMMA AttachStep == ASSUME KInv, NEW saves \in BOOLEAN, Attach(saves) PROVE KInv'
<1>1. /\ UNCHANGED <<server, shown, dirty, unlocked, drafts, copies, queue, news, tasks, stream, remembered,
                     made, discarded, astray, rewound>>
      /\ Count("edits") /\ shown.map # None
      /\ direct' = [stage |-> "sent", edit |-> Edit, saves |-> saves, doc |-> shown]
  BY DEF Attach, Editing, page, place, history
<1>2. direct' \in Directs /\ direct'.stage = "sent" /\ direct'.doc = shown
  BY <1>1, EditTyped, FlagsTyped DEF Directs
<1>3. OnServer(shown)
  BY <1>1 DEF KInv, ShownFits
<1>4. DirectFits'
  BY <1>1, <1>2, <1>3 DEF DirectFits, OnServer
<1>5. Grows
  BY <1>1, GrowsNot DEF KInv
<1>6. Types' => NewsFit' /\ DirectFits' /\ QueueFits' /\ Covers'
  BY <1>1, <1>4, <1>5, NewsStay, QueueStays, CoversStay DEF Saving
<1>7. {dirty, unlocked} \subseteq BOOLEAN /\ queue \in Seq(Jobs) /\ news \in Documents
  BY DEF KInv, Types, TypeOK
<1>8. \E field \in {"edits", "moves", "mishaps"} : Count(field)
  BY <1>1
<1>9. QED
  BY <1>1, <1>2, <1>6, <1>7, <1>8, WriteStep

\* What is published is a version of the server.
LEMMA PublishStep == ASSUME KInv, Publish PROVE KInv'
<1>1. /\ UNCHANGED <<server, shown, dirty, unlocked, drafts, copies, queue, direct, tasks, stream, remembered,
                     made, discarded, astray, rewound, left>>
      /\ news' = Document(stream) /\ stream \in Maps /\ server[stream].live
  BY DEF Publish, page, place, history, Live, Calm
<1>2. /\ news' \in Documents /\ news'.map = stream /\ news'.rev = server[stream].rev /\ news'.edits = server[stream].edits
  BY <1>1 DEF Document, Version, Documents, KInv, Types, TypeOK
<1>3. server[stream].rev \in Nat /\ server[stream].rev > 0
  BY <1>1 DEF KInv, Types, ServerTyped
<1>4. NewsFit'
  BY <1>1, <1>2, <1>3 DEF NewsFit, Published, OnServer, AllOf
<1>5. Grows
  BY <1>1, GrowsNot DEF KInv
<1>6. Types' => NewsFit' /\ DirectFits' /\ QueueFits' /\ Covers'
  BY <1>1, <1>4, <1>5, DirectStays, QueueStays, CoversStay DEF Saving
<1>7. {dirty, unlocked} \subseteq BOOLEAN /\ queue \in Seq(Jobs) /\ direct \in Directs
  BY DEF KInv, Types, TypeOK
<1>8. QED
  BY <1>1, <1>2, <1>6, <1>7, WriteStep DEF Calm

\* An edit is committed: it is on screen and in the draft.
LEMMA CommitStep == ASSUME KInv, Commit PROVE KInv'
<1>0. PICK doc : doc = Version(shown.map, shown.rev, shown.edits \cup {Edit})
  OBVIOUS
<1>1. /\ shown' = doc /\ drafts' = Captured(drafts, doc) /\ dirty' = TRUE
      /\ made' = made \cup {<<shown.map, Edit>>}
      /\ queue' = [k \in DOMAIN queue |-> [queue[k] EXCEPT !.fresh = FALSE]]
      /\ UNCHANGED <<server, unlocked, copies, direct, news, tasks, stream, remembered, discarded, astray, rewound>>
      /\ Count("edits") /\ shown.map # None
  BY <1>0 DEF Commit, Editing, place
<1>2. Edit \in 1..MaxEdits /\ Edit \in Nat /\ shown \in Documents /\ shown.map \in Maps
  BY <1>1, EditTyped, FlagsTyped DEF Documents
<1>3. doc \in Documents /\ doc.map = shown.map /\ doc.rev = shown.rev /\ doc.edits = shown.edits \cup {Edit}
  BY <1>0, <1>2 DEF Version, Documents
<1>4. /\ drafts \in [Maps \cup {None} -> SUBSET (SUBSET Nat)]
      /\ drafts' \in [Maps \cup {None} -> SUBSET (SUBSET Nat)]
      /\ drafts'[shown.map] = {doc.edits} /\ \A m \in Maps \cup {None} : m # shown.map => drafts'[m] = drafts[m]
  <2>1. drafts \in [Maps \cup {None} -> SUBSET (SUBSET Nat)]
    BY DEF KInv, Types, TypeOK
  <2>2. {doc.edits} \in SUBSET (SUBSET Nat) /\ drafts' = [drafts EXCEPT ![shown.map] = {doc.edits}]
    BY <1>1, <1>3 DEF Captured, Documents
  <2>3. QED
    BY <1>2, <2>1, <2>2
<1>5. /\ queue \in Seq(Jobs) /\ queue' \in Seq(Jobs) /\ DOMAIN queue' = DOMAIN queue
      /\ \A k \in DOMAIN queue : queue[k] \in Jobs /\ queue'[k] = [queue[k] EXCEPT !.fresh = FALSE]
  <2>1. queue \in Seq(Jobs) /\ DOMAIN queue = 1..Len(queue) /\ Len(queue) \in Nat
    BY DEF KInv, Types
  <2>2. \A k \in DOMAIN queue : queue[k] \in Jobs
    BY <2>1
  <2>3. \A k \in DOMAIN queue : [queue[k] EXCEPT !.fresh = FALSE] \in Jobs
    BY <2>2 DEF Jobs
  <2>4. QED
    BY <1>1, <2>1, <2>2, <2>3
<1>6. Types'
  <2>1. (left \in [{"edits", "moves", "mishaps", "acts"} -> Nat] /\ left.edits \in 0..MaxEdits)'
    BY <1>1, LeftTyped DEF KInv
  <2>2. made' \subseteq Maps \X (1..MaxEdits)
    BY <1>1, <1>2 DEF KInv, Types
  <2>3. TypeOK'
    BY <1>1, <1>3, <1>4 DEF KInv, Types, TypeOK
  <2>4. QED
    BY <1>1, <1>5, <2>1, <2>2, <2>3 DEF KInv, Types, ServerTyped
<1>7. Grows
  BY <1>1, GrowsNot DEF KInv
<1>8. TasksFit' /\ NewsFit' /\ DirectFits'
  BY <1>1, <1>6, <1>7, TasksStay, NewsStay, DirectStays
<1>9. QueueFits' /\ (queue # <<>> => queue' # <<>> /\ queue'[1] = [queue[1] EXCEPT !.fresh = FALSE] /\ queue[1] \in Jobs)
                 /\ (queue = <<>> => queue' = <<>>)
  <2>1. \A k \in DOMAIN queue' : queue'[k].map \in Maps /\ (k > 1 => queue'[k].stage = "wait")
    BY <1>5 DEF KInv, QueueFits, Jobs
  <2>2. queue # <<>> => 1 \in DOMAIN queue
    BY <1>5
  <2>3. ASSUME queue # <<>> PROVE HeadFits(queue[1])'
    <3>1. PICK job : job = queue[1]
      OBVIOUS
    <3>2. job \in Jobs /\ HeadFits(job)
      BY <1>5, <2>2, <2>3, <3>1 DEF KInv, QueueFits
    <3>3. HeadFits(job)'
      BY <1>6, <1>7, <3>2, HeadStays DEF KInv
    <3>4. queue'[1] = [job EXCEPT !.fresh = FALSE]
      BY <1>5, <2>2, <2>3, <3>1
    <3>5. /\ queue'[1].stage = job.stage /\ queue'[1].kind = job.kind /\ queue'[1].map = job.map
          /\ queue'[1].body = job.body /\ queue'[1].doc = job.doc
      BY <3>2, <3>4 DEF Jobs
    <3>6. QED
      BY <3>3, <3>5 DEF HeadFits, Published, OnServer, AllOf, Bases, Owed, Safe, SafeIn, CopiedOf
  <2>4. (queue' # <<>> <=> queue # <<>>)
    BY <1>5
  <2>5. QED
    BY <1>5, <2>1, <2>2, <2>3, <2>4 DEF QueueFits
<1>10. Saving(shown.map)' => Saving(shown.map) /\ queue'[1].body = queue[1].body
  BY <1>1, <1>3, <1>9 DEF Saving, Jobs
<1>11. Covers'
  BY <1>1, <1>3, <1>7, <1>10, CoversStay
<1>12. ShownFits'
  <2>1. OnServer(shown) /\ Bases(shown)
    BY <1>1 DEF KInv, ShownFits
  <2>2. OnServer(doc)'
    BY <1>1, <1>3, <2>1 DEF OnServer
  <2>3. QED
    BY <1>1, <1>3, <2>1 DEF ShownFits, OnServer, Bases, Owed, Safe, SafeIn, CopiedOf
<1>13. DraftsFit'
  BY <1>1, <1>2, <1>3, <1>4, WorkspaceAssumption DEF KInv, DraftsFit
<1>14. EditsFit'
  <2>1. SUFFICES ASSUME NEW m \in Maps, NEW n \in 1..MaxEdits, <<m, n>> \in made' PROVE EditFits(m, n)'
    BY DEF EditsFit
  <2>2. UNION drafts[m] \subseteq UNION drafts'[m]
    <3>1. CASE m = shown.map
      BY <1>3, <1>4, <3>1 DEF KInv, DraftsFit
    <3>2. CASE m # shown.map
      BY <1>4, <3>2
    <3>3. QED
      BY <3>1, <3>2
  <2>3. CASE <<m, n>> \in made
    BY <1>6, <1>7, <2>2, <2>3, EditStays
  <2>4. CASE m = shown.map /\ n = Edit
    <3>1. server'[m].rev > 0
      BY <1>1, <1>2, <2>4 DEF KInv, ShownFits, OnServer, Types, TypeOK
    <3>2. n \in UNION drafts'[m]
      BY <1>3, <1>4, <2>4
    <3>3. QED
      BY <3>1, <3>2 DEF EditFits
  <2>5. QED
    BY <1>1, <2>1, <2>3, <2>4
<1>15. QED
  BY <1>6, <1>8, <1>9, <1>11, <1>12, <1>13, <1>14 DEF KInv

\* A write is stored: under the current revision, of a document that has what the server has.
LEMMA StoresGrows ==
    ASSUME KInv, NEW body \in Documents, OnServer(body), Current(body), NEW edits \in SUBSET Nat,
           Owed(body.map) => server[body.map].edits \subseteq edits \cup Safe(body.map),
           Stores(Stored(body, edits)), UNCHANGED <<copies, discarded, rewound>>
    PROVE  /\ Grows /\ ServerTyped'
           /\ Stored(body, edits) \in Documents
           /\ Stored(body, edits).map = body.map /\ Stored(body, edits).edits = edits
           /\ Published(Stored(body, edits))' /\ AllOf(Stored(body, edits))'
<1>1. PICK doc : doc = Stored(body, edits)
  OBVIOUS
<1>2. PICK m \in Maps : m = body.map
  BY DEF OnServer
<1>3. body.rev \in Nat /\ body.rev = server[m].rev /\ server[m].live /\ body.rev > 0
  BY <1>2 DEF Current, OnServer, Documents
<1>4. doc \in Documents /\ doc.map = m /\ doc.edits = edits /\ doc.rev = body.rev + 1 /\ doc.rev \in Nat
  <2>1. body \in [map : Maps \cup {None}, rev : Nat, edits : SUBSET Nat]
    BY DEF Documents
  <2>2. doc = [[body EXCEPT !.rev = body.rev + 1] EXCEPT !.edits = edits]
    BY <1>1 DEF Stored
  <2>3. doc = [map |-> body.map, rev |-> body.rev + 1, edits |-> edits]
    BY <2>1, <2>2
  <2>4. QED
    BY <1>2, <1>3, <2>1, <2>3 DEF Documents
<1>5. /\ server \in [Maps -> [live : BOOLEAN, rev : Nat, edits : SUBSET Nat]]
      /\ server' = [server EXCEPT ![m] = [live |-> TRUE, rev |-> doc.rev, edits |-> doc.edits]]
  BY <1>1, <1>2, <1>4 DEF Stores, KInv, Types, ServerTyped
<1>6. /\ server' \in [Maps -> [live : BOOLEAN, rev : Nat, edits : SUBSET Nat]]
      /\ server'[m] = [live |-> TRUE, rev |-> doc.rev, edits |-> edits]
      /\ \A k \in Maps : k # m => server'[k] = server[k]
  BY <1>4, <1>5
<1>7. ServerTyped'
  <2>1. server'[m].rev > 0
    BY <1>3, <1>4, <1>6
  <2>2. \A k \in Maps : server'[k].live => server'[k].rev > 0
    BY <1>6, <2>1 DEF KInv, Types, ServerTyped
  <2>3. QED
    BY <1>6, <2>2 DEF ServerTyped
<1>8. \A k \in Maps : Safe(k) \subseteq Safe(k)'
  BY SafeGrows
<1>9. Grows
  <2>1. ASSUME NEW k \in Maps
        PROVE  /\ server'[k].rev >= server[k].rev
               /\ server'[k].rev = server[k].rev => server'[k].edits = server[k].edits
               /\ server[k].rev > 0 /\ server'[k].live => server[k].live
               /\ server[k].rev > 0 /\ Owed(k)' => server[k].edits \subseteq server'[k].edits \cup Safe(k)'
    <3>1. CASE k = m
      <4>1. server'[m].rev = body.rev + 1 /\ server'[m].edits = edits
        BY <1>4, <1>6
      <4>2. Owed(m)' => Owed(m)
        BY <1>3 DEF Owed
      <4>3. Safe(m) \subseteq Safe(m)'
        BY <1>8
      <4>4. Owed(m) => server[m].edits \subseteq edits \cup Safe(m)
        BY <1>2
      <4>5. QED
        BY <1>3, <3>1, <4>1, <4>2, <4>3, <4>4
    <3>2. CASE k # m
      BY <1>6, <3>2, RevIsNat DEF KInv
    <3>3. QED
      BY <3>1, <3>2
  <2>2. QED
    BY <1>8, <2>1 DEF Grows
<1>10. Published(doc)' /\ AllOf(doc)'
  BY <1>3, <1>4, <1>6 DEF Published, OnServer, AllOf
<1>11. Published(Stored(body, edits))' /\ AllOf(Stored(body, edits))'
  BY <1>1, <1>10 DEF Published, OnServer, AllOf, Owed, Safe, SafeIn, CopiedOf
<1>12. QED
  BY <1>1, <1>2, <1>4, <1>7, <1>9, <1>11

\* The server stores, refuses or loses the running write.
LEMMA ServeStep == ASSUME KInv, Serve PROVE KInv'
<1>1. PICK job : job = queue[1]
  OBVIOUS
<1>2. queue # <<>> /\ 1 \in DOMAIN queue /\ job.stage = "sent" /\ job \in Jobs /\ job.map \in Maps /\ HeadFits(job)
  BY <1>1 DEF Serve, Running, KInv, Types, QueueFits
<1>3. job.body.map = job.map /\ OnServer(job.body) /\ job.body \in Documents
  BY <1>2 DEF HeadFits, Jobs
<1>4. PICK edits : edits = (IF job.kind = "save" THEN job.body.edits ELSE server[job.map].edits \cup {job.edit})
  OBVIOUS
<1>5. edits \in SUBSET Nat
  BY <1>2, <1>3, <1>4 DEF KInv, Types, ServerTyped, Jobs, Documents
<1>6. PICK doc : doc = Stored(job.body, edits)
  OBVIOUS
<1>7. /\ UNCHANGED <<shown, dirty, unlocked, drafts, copies, direct, news, tasks, stream, remembered,
                     made, discarded, astray, rewound>>
      /\ Calm \/ \E field \in {"edits", "moves", "mishaps"} : Count(field)
      /\ \/ Current(job.body) /\ Stores(doc) /\ Runs([job EXCEPT !.stage = "stored", !.doc = doc])
         \/ /\ (Current(job.body) /\ Stores(doc)) \/ UNCHANGED server
            /\ Runs([job EXCEPT !.stage = "reread"]) \/ Runs([job EXCEPT !.stage = "failed"])
  BY <1>1, <1>4, <1>6 DEF Serve, Mishap, page, place, history
<1>8. ASSUME Current(job.body), Stores(doc)
      PROVE  /\ Grows /\ ServerTyped' /\ doc \in Documents /\ doc.map = job.map /\ doc.edits = edits
             /\ Published(doc)' /\ AllOf(doc)'
  <2>1. Owed(job.body.map) => server[job.body.map].edits \subseteq edits \cup Safe(job.body.map)
    <3>1. CASE job.kind = "save"
      BY <1>2, <1>4, <1>8, <3>1 DEF HeadFits, Bases, Current
    <3>2. CASE job.kind # "save"
      BY <1>3, <1>4, <3>2
    <3>3. QED
      BY <3>1, <3>2
  <2>2. /\ Grows /\ ServerTyped' /\ Stored(job.body, edits) \in Documents
        /\ Stored(job.body, edits).map = job.body.map /\ Stored(job.body, edits).edits = edits
        /\ Published(Stored(job.body, edits))' /\ AllOf(Stored(job.body, edits))'
    BY <1>3, <1>5, <1>6, <1>7, <1>8, <2>1, StoresGrows
  <2>3. QED
    BY <1>3, <1>6, <2>2 DEF Published, OnServer, AllOf, Owed, Safe, SafeIn, CopiedOf
<1>9. PICK new : /\ Runs(new)
                 /\ \/ new = [job EXCEPT !.stage = "stored", !.doc = doc] /\ Current(job.body) /\ Stores(doc)
                    \/ new = [job EXCEPT !.stage = "reread"]
                    \/ new = [job EXCEPT !.stage = "failed"]
  BY <1>7
<1>10. new \in Jobs /\ new.map = job.map /\ new.kind = job.kind /\ new.body = job.body
  BY <1>2, <1>8, <1>9 DEF Jobs
<1>11. (UNCHANGED server \/ (Grows /\ ServerTyped')) /\ (Types' => Grows)
  BY <1>7, <1>8, GrowsNot DEF KInv
<1>12. ASSUME Types' PROVE HeadFits(new)'
  <2>1. CASE new = [job EXCEPT !.stage = "stored", !.doc = doc] /\ Current(job.body) /\ Stores(doc)
    <3>1. new.stage = "stored" /\ new.doc = doc
      BY <1>2, <2>1 DEF Jobs
    <3>2. OnServer(job.body)'
      BY <1>3, <1>8, <1>12, <2>1, OnServerStays DEF KInv
    <3>3. Published(doc)' /\ AllOf(doc)' /\ doc.map = job.map /\ doc.edits = edits
      BY <1>8, <2>1
    <3>4. new.kind = "save" => new.doc.edits = new.body.edits
      BY <1>4, <1>10, <3>1, <3>3
    <3>5. QED
      BY <1>3, <1>10, <3>1, <3>2, <3>3, <3>4 DEF HeadFits
  <2>2. CASE new = [job EXCEPT !.stage = "reread"] \/ new = [job EXCEPT !.stage = "failed"]
    <3>1. new.stage \in {"reread", "failed"}
      BY <1>2, <2>2 DEF Jobs
    <3>2. QED
      BY <3>1 DEF HeadFits
  <2>3. QED
    BY <1>9, <2>1, <2>2
<1>13. ASSUME Types' PROVE NewsFit' /\ DirectFits' /\ QueueFits' /\ Covers'
  <2>1. QueueFits' /\ queue'[1] = new
    BY <1>2, <1>9, <1>10, <1>12, <1>13, HeadChanges
  <2>2. Saving(shown.map)' => Saving(shown.map) /\ queue'[1].body = queue[1].body
    BY <1>1, <1>2, <1>7, <1>10, <2>1 DEF Saving
  <2>3. QED
    BY <1>7, <1>11, <1>13, <2>1, <2>2, NewsStay, DirectStays, CoversStay
<1>14. {dirty, unlocked} \subseteq BOOLEAN /\ queue' \in Seq(Jobs) /\ direct \in Directs /\ news \in Documents
  BY <1>2, <1>9, <1>10 DEF KInv, Types, TypeOK, Runs
<1>15. QED
  BY <1>7, <1>11, <1>13, <1>14, WriteStep

\* The map of a failed write is read again.
LEMMA RereadStep == ASSUME KInv, Reread PROVE KInv'
<1>1. PICK job : job = queue[1]
  OBVIOUS
<1>2. queue # <<>> /\ 1 \in DOMAIN queue /\ job \in Jobs /\ job.map \in Maps
  BY <1>1 DEF Reread, Running, KInv, Types, QueueFits
<1>3. PICK doc : doc = Document(job.map)
  OBVIOUS
<1>4. /\ UNCHANGED <<server, shown, dirty, unlocked, drafts, copies, direct, news, tasks, stream, remembered,
                     made, discarded, astray, rewound>>
      /\ Calm \/ \E field \in {"edits", "moves", "mishaps"} : Count(field)
      /\ \/ server[job.map].live /\ Runs([job EXCEPT !.stage = "read", !.doc = doc])
         \/ Runs([job EXCEPT !.stage = "failed"])
  BY <1>1, <1>3 DEF Reread, Mishap, page, place, history
<1>5. PICK new : /\ Runs(new)
                 /\ \/ server[job.map].live /\ new = [job EXCEPT !.stage = "read", !.doc = doc]
                    \/ new = [job EXCEPT !.stage = "failed"]
  BY <1>4
<1>6. doc \in Documents /\ doc.map = job.map /\ doc.rev = server[job.map].rev /\ doc.edits = server[job.map].edits
  BY <1>2, <1>3 DEF Document, Version, Documents, KInv, Types, TypeOK
<1>7. new \in Jobs /\ new.map = job.map /\ new.stage \in {"read", "failed"}
  BY <1>2, <1>5, <1>6 DEF Jobs
<1>8. HeadFits(new)'
  <2>1. CASE server[job.map].live /\ new = [job EXCEPT !.stage = "read", !.doc = doc]
    <3>1. new.stage = "read" /\ new.doc = doc
      BY <1>2, <2>1 DEF Jobs
    <3>2. server[job.map].rev \in Nat /\ server[job.map].rev > 0
      BY <1>2, <2>1 DEF KInv, Types, ServerTyped
    <3>3. QED
      BY <1>2, <1>4, <1>6, <1>7, <3>1, <3>2 DEF HeadFits, Published, OnServer, AllOf
  <2>2. CASE new = [job EXCEPT !.stage = "failed"]
    <3>1. new.stage = "failed"
      BY <1>2, <2>2 DEF Jobs
    <3>2. QED
      BY <3>1 DEF HeadFits
  <2>3. QED
    BY <1>5, <2>1, <2>2
<1>9. QueueFits' /\ queue'[1] = new /\ queue' \in Seq(Jobs)
  BY <1>2, <1>5, <1>7, <1>8, HeadChanges
<1>10. ~Saving(shown.map)'
  BY <1>7, <1>9 DEF Saving
<1>11. Grows
  BY <1>4, GrowsNot DEF KInv
<1>12. Types' => NewsFit' /\ DirectFits' /\ QueueFits' /\ Covers'
  BY <1>4, <1>9, <1>10, <1>11, NewsStay, DirectStays DEF Covers
<1>13. {dirty, unlocked} \subseteq BOOLEAN /\ direct \in Directs /\ news \in Documents
  BY DEF KInv, Types, TypeOK
<1>14. QED
  BY <1>4, <1>9, <1>12, <1>13, WriteStep

\* The server stores, refuses or loses a write past the queue.
LEMMA AttachedStep == ASSUME KInv, Attached PROVE KInv'
<1>1. PICK body : body = direct.doc
  OBVIOUS
<1>2. direct \in Directs /\ body \in Documents /\ OnServer(body) /\ direct.stage = "sent"
  BY <1>1 DEF Attached, KInv, Types, Directs, DirectFits
<1>3. PICK edits : edits = server[body.map].edits \cup {direct.edit}
  OBVIOUS
<1>4. edits \in SUBSET Nat
  BY <1>2, <1>3 DEF KInv, Types, ServerTyped, Directs, OnServer
<1>5. PICK doc : doc = Stored(body, edits)
  OBVIOUS
<1>6. /\ UNCHANGED <<shown, dirty, unlocked, drafts, copies, queue, news, tasks, stream, remembered,
                     made, discarded, astray, rewound>>
      /\ Calm \/ \E field \in {"edits", "moves", "mishaps"} : Count(field)
      /\ \/ /\ Current(body) /\ Stores(doc)
            /\ direct' = [direct EXCEPT !.stage = "stored", !.doc = doc] \/ direct' = Idle
         \/ direct' = Idle /\ UNCHANGED server
  BY <1>1, <1>3, <1>5 DEF Attached, Mishap, page, place, history
<1>7. ASSUME Current(body), Stores(doc)
      PROVE  Grows /\ ServerTyped' /\ doc \in Documents /\ Published(doc)' /\ AllOf(doc)'
  <2>1. /\ Grows /\ ServerTyped' /\ Stored(body, edits) \in Documents
        /\ Published(Stored(body, edits))' /\ AllOf(Stored(body, edits))'
    BY <1>2, <1>3, <1>4, <1>5, <1>6, <1>7, StoresGrows
  <2>2. QED
    BY <1>5, <2>1 DEF Published, OnServer, AllOf, Owed, Safe, SafeIn, CopiedOf
<1>8. Idle \in Directs /\ Idle.stage = "idle"
  BY DEF Idle, Directs, Nothing, Version, Documents
<1>9. direct' \in Directs /\ DirectFits'
  <2>1. CASE direct' = Idle
    BY <1>8, <2>1 DEF DirectFits
  <2>2. CASE Current(body) /\ Stores(doc) /\ direct' = [direct EXCEPT !.stage = "stored", !.doc = doc]
    <3>1. doc \in Documents /\ Published(doc)' /\ AllOf(doc)'
      BY <1>7, <2>2
    <3>2. direct' \in Directs /\ direct'.stage = "stored" /\ direct'.doc = doc
      BY <1>2, <2>2, <3>1 DEF Directs
    <3>3. QED
      BY <3>1, <3>2 DEF DirectFits, Published, OnServer, AllOf, Owed, Safe, SafeIn, CopiedOf
  <2>3. QED
    BY <1>6, <2>1, <2>2
<1>10. (UNCHANGED server \/ (Grows /\ ServerTyped')) /\ Grows
  BY <1>6, <1>7, GrowsNot DEF KInv
<1>11. Types' => NewsFit' /\ DirectFits' /\ QueueFits' /\ Covers'
  BY <1>6, <1>9, <1>10, NewsStay, QueueStays, CoversStay DEF Saving
<1>12. {dirty, unlocked} \subseteq BOOLEAN /\ queue \in Seq(Jobs) /\ news \in Documents
  BY DEF KInv, Types, TypeOK
<1>13. QED
  BY <1>6, <1>9, <1>10, <1>11, <1>12, WriteStep

\* What applyTopology leaves: the map on screen is a version of the server, and a draft
\* of it is known to the server, or in a recovery copy.
LEMMA Applied ==
    ASSUME KInv, NEW doc \in Documents, Published(doc), AllOf(doc), NEW saved,
           NEW entries \in [Maps \cup {None} -> SUBSET (SUBSET Nat)], entries[None] = {},
           Apply(entries, doc, saved), UNCHANGED server, discarded' = discarded, rewound \subseteq rewound',
           \A m \in Maps : Owed(m) => UNION drafts[m] \subseteq server[m].edits \cup (UNION entries[m]) \cup Safe(m)
    PROVE  /\ drafts' \in [Maps \cup {None} -> SUBSET (SUBSET Nat)] /\ copies' \in Seq(Copies) /\ shown' = doc
           /\ Grows /\ ShownFits' /\ DraftsFit'
           /\ DraftsKept
<1>1. doc.map \in Maps /\ shown' = doc
  BY DEF Published, OnServer, Apply
<1>2. PICK copy : copy = [map |-> doc.map, edits |-> UNION entries[doc.map]]
  OBVIOUS
<1>3. copy \in Copies
  BY <1>1, <1>2 DEF Copies
<1>4. /\ copies \in Seq(Copies) /\ copies' \in {copies, Append(copies, copy)} /\ copies' \in Seq(Copies)
      /\ entries[doc.map] \subseteq {doc.edits} \/ copies' = Append(copies, copy)
  BY <1>2, <1>3 DEF Apply, Copied, KInv, Types
<1>5. /\ drafts' \in [Maps \cup {None} -> SUBSET (SUBSET Nat)]
      /\ drafts'[doc.map] = {} /\ \A m \in Maps \cup {None} : m # doc.map => drafts'[m] = entries[m]
  BY <1>1 DEF Apply, Accepted
<1>6. Grows
  BY <1>3, <1>4, GrowsSafely DEF KInv
<1>7. DraftsFit'
  BY <1>1, <1>5, WorkspaceAssumption DEF DraftsFit
<1>8. ShownFits'
  <2>1. OnServer(doc)' /\ Bases(doc)'
    BY DEF Published, OnServer, Bases
  <2>2. QED
    BY <1>1, <2>1 DEF ShownFits, OnServer, Bases, Owed, Safe, SafeIn, CopiedOf
<1>9. ASSUME NEW m \in Maps, Owed(m)'
      PROVE  UNION drafts[m] \subseteq server'[m].edits \cup (UNION drafts'[m]) \cup Safe(m)'
  <2>1. Owed(m) /\ Safe(m) \subseteq Safe(m)'
    BY <1>6, <1>9 DEF Owed, Grows
  <2>2. UNION entries[m] \subseteq server[m].edits \cup (UNION drafts'[m]) \cup Safe(m)'
    <3>1. CASE m # doc.map
      BY <1>5, <3>1
    <3>2. CASE m = doc.map /\ entries[m] \subseteq {doc.edits}
      <4>1. doc.edits \subseteq server[m].edits \cup Safe(m)
        BY <2>1, <3>2 DEF AllOf
      <4>2. UNION entries[m] \subseteq doc.edits
        BY <3>2
      <4>3. QED
        BY <2>1, <4>1, <4>2
    <3>3. CASE m = doc.map /\ copies' = Append(copies, copy)
      <4>1. Len(copies) + 1 \in DOMAIN copies' /\ copies'[Len(copies) + 1] = copy
        BY <1>3, <1>4, <3>3
      <4>2. copy.map = m /\ copy.edits = UNION entries[m]
        BY <1>2, <3>3
      <4>3. UNION entries[m] \subseteq CopiedOf(copies', m)
        BY <4>1, <4>2 DEF CopiedOf
      <4>4. QED
        BY <4>3 DEF Safe, SafeIn
    <3>4. QED
      BY <1>4, <3>1, <3>2, <3>3
  <2>3. UNION drafts[m] \subseteq server[m].edits \cup (UNION entries[m]) \cup Safe(m)
    BY <2>1
  <2>4. QED
    BY <2>1, <2>2, <2>3
<1>10. QED
  BY <1>1, <1>4, <1>5, <1>6, <1>7, <1>8, <1>9 DEF DraftsKept

\* What the running save submits is in the map that came, or safe, or this is recorded.
LEMMA RewindsCover ==
    ASSUME KInv, NEW doc \in Documents, shown' = doc, Rewinds(doc), UNCHANGED <<queue, discarded>>
    PROVE  Covers'
<1>1. SUFFICES ASSUME Saving(shown.map)', shown'.map \notin rewound'
               PROVE  queue'[1].body.edits \subseteq shown'.edits \cup Safe(shown.map)'
  BY DEF Covers
<1>2. Saving(doc.map) /\ ~Lacks(doc)
  BY <1>1 DEF Saving, Rewinds
<1>3. queue[1].body.edits \subseteq doc.edits \cup SafeIn(copies', doc.map)
  BY <1>2 DEF Lacks
<1>4. QED
  BY <1>3 DEF Safe, SafeIn

\* A map that was read arrives.
LEMMA ArriveStep == ASSUME KInv, NEW i \in DOMAIN tasks, Arrive(i) PROVE KInv'
<1>1. PICK doc : doc = tasks[i].doc
  OBVIOUS
<1>2. doc \in Documents /\ Published(doc) /\ AllOf(doc) /\ doc.map \in Maps
  BY <1>1, AtTyped DEF Arrive, KInv, Moved, TasksFit, TaskFits, Published, OnServer, Stages
<1>3. /\ Becomes(i, Done) /\ Apply(drafts, doc, TRUE) /\ Rewinds(doc)
      /\ stream' = doc.map /\ remembered' = doc.map /\ astray' = FALSE
      /\ UNCHANGED <<server, queue, direct, news, made, discarded, left>>
  BY <1>1 DEF Arrive, sent, Calm
<1>4. drafts \in [Maps \cup {None} -> SUBSET (SUBSET Nat)] /\ drafts[None] = {}
  BY DEF KInv, Types, TypeOK, DraftsFit
<1>5. rewound' \subseteq Maps /\ rewound \subseteq rewound'
  BY <1>2, <1>3 DEF Rewinds, KInv, Types, TypeOK
<1>6. /\ drafts' \in [Maps \cup {None} -> SUBSET (SUBSET Nat)] /\ copies' \in Seq(Copies) /\ shown' = doc
      /\ Grows /\ ShownFits' /\ DraftsFit'
      /\ DraftsKept
  BY <1>2, <1>3, <1>4, <1>5, Applied
<1>7. unlocked' \in BOOLEAN /\ dirty' \in BOOLEAN
  BY <1>3 DEF Apply
<1>8. Done \in Moved /\ Plain(Done)
  BY NewTasks, FlagsTyped DEF KInv
<1>9. tasks' \in [0..MaxMoves -> Moved]
  BY <1>3, <1>8, TasksTyped DEF KInv
<1>10. Types'
  <2>1. TypeOK'
    BY <1>2, <1>3, <1>5, <1>6, <1>7, <1>9 DEF KInv, Types, TypeOK, Moved
  <2>2. QED
    BY <1>3, <1>6, <2>1 DEF KInv, Types, ServerTyped
<1>11. TasksFit' /\ NewsFit' /\ DirectFits' /\ QueueFits' /\ EditsFit' /\ Covers'
  BY <1>2, <1>3, <1>6, <1>8, <1>10, BecomesFits, NewsStay, DirectStays, QueueStays, EditsStay, RewindsCover
<1>12. QED
  BY <1>6, <1>10, <1>11 DEF KInv

\* The answer of a write past the queue is applied.
LEMMA ApplyAttachedStep == ASSUME KInv, ApplyAttached PROVE KInv'
<1>1. PICK doc : doc = direct.doc
  OBVIOUS
<1>2. doc \in Documents /\ Published(doc) /\ AllOf(doc) /\ doc.map \in Maps
  BY <1>1 DEF ApplyAttached, KInv, Types, Directs, DirectFits, Published, OnServer
<1>3. PICK saved : Apply(drafts, doc, saved)
  BY <1>1 DEF ApplyAttached
<1>4. /\ direct' = Idle /\ Rewinds(doc) /\ astray' = (astray \/ doc.map # shown.map)
      /\ UNCHANGED <<server, queue, news, tasks, stream, remembered, made, discarded, left>>
  BY <1>1 DEF ApplyAttached, place, Calm
<1>5. drafts \in [Maps \cup {None} -> SUBSET (SUBSET Nat)] /\ drafts[None] = {}
  BY DEF KInv, Types, TypeOK, DraftsFit
<1>6. rewound' \subseteq Maps /\ rewound \subseteq rewound'
  BY <1>2, <1>4 DEF Rewinds, KInv, Types, TypeOK
<1>7. /\ drafts' \in [Maps \cup {None} -> SUBSET (SUBSET Nat)] /\ copies' \in Seq(Copies) /\ shown' = doc
      /\ Grows /\ ShownFits' /\ DraftsFit'
      /\ DraftsKept
  BY <1>2, <1>3, <1>4, <1>5, <1>6, Applied
<1>8. unlocked' \in BOOLEAN /\ dirty' \in BOOLEAN /\ astray' \in BOOLEAN
  BY <1>3, <1>4 DEF Apply
<1>9. Idle \in Directs /\ Idle.stage = "idle"
  BY DEF Idle, Directs, Nothing, Version, Documents
<1>10. Types'
  <2>1. TypeOK'
    BY <1>2, <1>4, <1>6, <1>7, <1>8 DEF KInv, Types, TypeOK
  <2>2. QED
    BY <1>4, <1>7, <1>9, <2>1 DEF KInv, Types, ServerTyped
<1>11. DirectFits'
  BY <1>4, <1>9 DEF DirectFits
<1>12. TasksFit' /\ NewsFit' /\ QueueFits' /\ EditsFit' /\ Covers'
  BY <1>2, <1>4, <1>7, <1>10, TasksStay, NewsStay, QueueStays, EditsStay, RewindsCover
<1>13. QED
  BY <1>7, <1>10, <1>11, <1>12 DEF KInv

\* What receiveTopology leaves, given the drafts that are left to it.
LEMMA Received ==
    ASSUME KInv, NEW doc \in Documents, Published(doc), AllOf(doc), NEW fresh \in BOOLEAN, NEW saved,
           NEW entries \in [Maps \cup {None} -> SUBSET (SUBSET Nat)], entries[None] = {},
           entries[shown.map] \subseteq {shown.edits},
           Receive(entries, doc, fresh, saved), UNCHANGED <<server, discarded, rewound>>,
           \A m \in Maps : Owed(m) => UNION drafts[m] \subseteq server[m].edits \cup (UNION entries[m]) \cup Safe(m),
           ~fresh /\ doc.map = shown.map /\ Owed(doc.map) => doc.edits \subseteq shown.edits \cup Safe(doc.map)
    PROVE  /\ drafts' \in [Maps \cup {None} -> SUBSET (SUBSET Nat)] /\ copies' \in Seq(Copies) /\ shown' \in Documents
           /\ {dirty', unlocked'} \subseteq BOOLEAN
           /\ Grows /\ ShownFits' /\ DraftsFit'
           /\ DraftsKept
<1>1. shown \in Documents /\ copies \in Seq(Copies) /\ {dirty, unlocked} \subseteq BOOLEAN
  BY DEF KInv, Types, TypeOK
<1>2. CASE /\ drafts' = entries /\ dirty' = (dirty /\ ~saved) /\ UNCHANGED <<shown, unlocked, copies>>
  <2>1. Grows
    BY <1>2, GrowsNot DEF KInv
  <2>2. ShownFits'
    BY <1>2 DEF KInv, ShownFits, OnServer, Bases, Owed, Safe, SafeIn, CopiedOf
  <2>3. DraftsFit'
    BY <1>2 DEF DraftsFit
  <2>4. \A m \in Maps : Owed(m)' => Owed(m) /\ Safe(m) \subseteq Safe(m)'
    BY <1>2, <2>1 DEF Owed, Grows
  <2>5. QED
    BY <1>1, <1>2, <2>1, <2>2, <2>3, <2>4 DEF DraftsKept
<1>3. CASE /\ doc.map = shown.map /\ ~fresh
           /\ drafts' = Captured(entries, shown) /\ shown' = Version(shown.map, doc.rev, shown.edits)
           /\ UNCHANGED <<dirty, unlocked, copies>>
  <2>1. PICK m \in Maps : m = shown.map
    BY <1>3 DEF Published, OnServer
  <2>2. Grows
    BY <1>3, GrowsNot DEF KInv
  <2>3. /\ shown' \in Documents /\ shown'.map = m /\ shown'.rev = doc.rev /\ shown'.edits = shown.edits
    BY <1>1, <1>3, <2>1 DEF Version, Documents
  <2>4. /\ drafts' \in [Maps \cup {None} -> SUBSET (SUBSET Nat)]
        /\ drafts'[m] = {shown.edits} /\ \A k \in Maps \cup {None} : k # m => drafts'[k] = entries[k]
    BY <1>1, <1>3, <2>1 DEF Captured, Documents
  <2>5. \A k \in Maps : Owed(k)' => Owed(k) /\ Safe(k) \subseteq Safe(k)'
    BY <1>3, <2>2 DEF Owed, Grows
  <2>6. ShownFits'
    <3>1. OnServer(shown)'
      BY <1>3, <2>1, <2>3 DEF Published, OnServer
    <3>2. ASSUME Owed(m)', shown'.rev = server'[m].rev PROVE server'[m].edits \subseteq shown'.edits \cup Safe(m)'
      <4>1. doc.rev = server[m].rev /\ server[m].edits = doc.edits
        BY <1>3, <2>1, <2>3, <3>2 DEF Published
      <4>2. doc.edits \subseteq shown.edits \cup Safe(m)
        BY <1>3, <2>1, <2>5, <3>2
      <4>3. QED
        BY <2>3, <2>5, <3>2, <4>1, <4>2
    <3>3. QED
      BY <2>3, <3>1, <3>2 DEF ShownFits, Bases, Owed, Safe, SafeIn, CopiedOf
  <2>7. DraftsFit'
    BY <2>3, <2>4, WorkspaceAssumption DEF DraftsFit
  <2>8. \A k \in Maps : UNION entries[k] \subseteq UNION drafts'[k]
    BY <2>1, <2>4
  <2>9. QED
    BY <1>1, <1>3, <2>2, <2>3, <2>4, <2>5, <2>6, <2>7, <2>8 DEF DraftsKept
<1>4. CASE Apply(entries, doc, saved)
  <2>1. /\ drafts' \in [Maps \cup {None} -> SUBSET (SUBSET Nat)] /\ copies' \in Seq(Copies) /\ shown' = doc
        /\ Grows /\ ShownFits' /\ DraftsFit'
        /\ DraftsKept
    <3>1. server' = server /\ discarded' = discarded /\ rewound \subseteq rewound'
      OBVIOUS
    <3>2. Apply(entries, doc, saved)
      BY <1>4
    <3>3. Grows /\ ShownFits' /\ DraftsFit'
      BY <3>1, <3>2, Applied
    <3>4. drafts' \in [Maps \cup {None} -> SUBSET (SUBSET Nat)] /\ copies' \in Seq(Copies) /\ shown' = doc
      BY <3>1, <3>2, Applied
    <3>5. DraftsKept
      BY <3>1, <3>2, Applied
    <3>6. QED
      BY <3>3, <3>4, <3>5
  <2>2. shown' \in Documents /\ {dirty', unlocked'} \subseteq BOOLEAN
    BY <1>4, <2>1 DEF Apply
  <2>3. QED
    BY <2>1, <2>2
<1>5. QED
  BY <1>2, <1>3, <1>4 DEF Receive, Foreign

\* The end of a job.
LEMMA Ended ==
    ASSUME KInv, queue # <<>>, NEW succeeded, Ends(succeeded)
    PROVE  /\ tasks' \in [0..MaxMoves -> Moved] /\ DOMAIN tasks' = DOMAIN tasks
           /\ \A i \in DOMAIN tasks : tasks'[i] = tasks[i] \/ Plain(tasks'[i])
           /\ queue' \in Seq(Jobs) /\ QueueFits' /\ Covers'
<1>1. tasks \in [0..MaxMoves -> Moved] /\ DOMAIN tasks' = DOMAIN tasks /\ queue' = Tail(queue)
      /\ tasks' = [i \in DOMAIN tasks |-> tasks'[i]]
  BY DEF KInv, Types, TypeOK, Moved, Ends
<1>2. ASSUME NEW i \in DOMAIN tasks
      PROVE  tasks'[i] \in Moved /\ (tasks'[i] = tasks[i] \/ Plain(tasks'[i]))
  <2>1. PICK task \in Moved : task = tasks[i]
    BY <1>1
  <2>2. \/ tasks'[i] = task
        \/ task.stage = "tail" /\ task.wait > 0 /\ tasks'[i] = [task EXCEPT !.wait = @ - 1]
        \/ tasks'[i] = [task EXCEPT !.stage = "left"]
        \/ tasks'[i] = Done
    BY <2>1 DEF Ends
  <2>3. Done \in Moved /\ Plain(Done)
    BY NewTasks, FlagsTyped DEF KInv
  <2>4. CASE task.stage = "tail" /\ task.wait > 0 /\ tasks'[i] = [task EXCEPT !.wait = @ - 1]
    <3>1. task.wait - 1 \in Nat
      BY <2>4 DEF Moved
    <3>2. tasks'[i] \in Moved /\ tasks'[i].stage = "tail"
      BY <2>4, <3>1 DEF Moved
    <3>3. QED
      BY <3>2 DEF Plain
  <2>5. CASE tasks'[i] = [task EXCEPT !.stage = "left"]
    <3>1. tasks'[i] \in Moved /\ tasks'[i].stage = "left"
      BY <2>5 DEF Moved, Stages
    <3>2. QED
      BY <3>1 DEF Plain
  <2>6. QED
    BY <2>1, <2>2, <2>3, <2>4, <2>5
<1>3. QueueFits' /\ \A m : ~Saving(m)'
  BY <1>1, QueueEnds
<1>4. Covers'
  <2>1. ~Saving(shown.map)'
    <3>1. PICK m : m = shown'.map
      OBVIOUS
    <3>2. ~Saving(m)'
      BY <1>3
    <3>3. QED
      BY <3>1, <3>2 DEF Saving
  <2>2. QED
    BY <2>1 DEF Covers
<1>5. queue' \in Seq(Jobs)
  BY <1>1 DEF KInv, Types
<1>6. QED
  BY <1>1, <1>2, <1>3, <1>4, <1>5

\* An operation takes its turn, or is dropped.
LEMMA BeginStep == ASSUME KInv, Begin PROVE KInv'
<1>1. PICK job : job = queue[1]
  OBVIOUS
<1>2. queue # <<>> /\ 1 \in DOMAIN queue /\ job \in Jobs /\ job.map \in Maps /\ job.stage = "wait"
  BY <1>1 DEF Begin, Running, KInv, Types, QueueFits
<1>3. /\ UNCHANGED <<server, shown, unlocked, drafts, copies, direct, news, stream, remembered,
                     made, discarded, astray, rewound, left>>
      /\ \/ Ends(FALSE) /\ UNCHANGED dirty
         \/ /\ job.map = shown.map /\ Runs([job EXCEPT !.stage = "sent", !.body = shown])
            /\ dirty' = TRUE /\ UNCHANGED tasks
  BY <1>1 DEF Begin, place, history, Calm
<1>4. Grows
  BY <1>3, GrowsNot DEF KInv
<1>5. CASE Ends(FALSE) /\ UNCHANGED dirty
  <2>1. /\ tasks' \in [0..MaxMoves -> Moved] /\ DOMAIN tasks' = DOMAIN tasks
        /\ \A i \in DOMAIN tasks : tasks'[i] = tasks[i] \/ Plain(tasks'[i])
        /\ queue' \in Seq(Jobs) /\ QueueFits' /\ Covers'
    BY <1>2, <1>5, Ended
  <2>2. Types'
    BY <1>3, <1>5, <2>1 DEF KInv, Types, TypeOK, ServerTyped, Moved
  <2>3. TasksFit' /\ NewsFit' /\ DirectFits' /\ ShownFits' /\ DraftsFit' /\ EditsFit'
    BY <1>3, <1>4, <2>1, <2>2, TasksStay, NewsStay, DirectStays, ShownStays, DraftsStay, EditsStay DEF KInv, DraftsFit
  <2>4. QED
    BY <2>1, <2>2, <2>3 DEF KInv
<1>6. CASE /\ job.map = shown.map /\ Runs([job EXCEPT !.stage = "sent", !.body = shown])
           /\ dirty' = TRUE /\ UNCHANGED tasks
  <2>1. PICK new : new = [job EXCEPT !.stage = "sent", !.body = shown]
    OBVIOUS
  <2>2. new \in Jobs /\ new.stage = "sent" /\ new.body = shown /\ new.map = job.map
    BY <1>2, <2>1, FlagsTyped DEF Jobs
  <2>3. shown.map \in Maps /\ OnServer(shown) /\ Bases(shown)
    BY <1>2, <1>6, WorkspaceAssumption DEF KInv, ShownFits
  <2>4. HeadFits(new)'
    BY <1>3, <1>6, <2>2, <2>3 DEF HeadFits, OnServer, Bases, Owed, Safe, SafeIn, CopiedOf
  <2>5. QueueFits' /\ queue'[1] = new /\ queue' \in Seq(Jobs)
    BY <1>2, <1>6, <2>1, <2>2, <2>4, HeadChanges
  <2>6. Covers'
    BY <1>3, <2>2, <2>5 DEF Covers
  <2>7. Types' => NewsFit' /\ DirectFits' /\ QueueFits' /\ Covers'
    BY <1>3, <1>4, <2>5, <2>6, NewsStay, DirectStays
  <2>8. unlocked \in BOOLEAN /\ direct \in Directs /\ news \in Documents
    BY DEF KInv, Types, TypeOK
  <2>9. QED
    BY <1>3, <1>6, <2>5, <2>7, <2>8, WriteStep DEF Calm
<1>7. QED
  BY <1>3, <1>5, <1>6

\* The answer of the running job is received.
LEMMA FinishStep == ASSUME KInv, Finish PROVE KInv'
<1>1. PICK job : job = queue[1]
  OBVIOUS
<1>2. /\ queue # <<>> /\ 1 \in DOMAIN queue /\ job \in Jobs /\ job.map \in Maps /\ HeadFits(job)
      /\ job.stage \in {"stored", "read", "failed"}
  BY <1>1 DEF Finish, Running, KInv, Types, QueueFits
<1>3. PICK stored \in BOOLEAN : stored <=> job.stage = "stored"
  OBVIOUS
<1>4. PICK entries : entries = (IF stored /\ job.kind = "save" THEN Acknowledged(job.body) ELSE drafts)
  OBVIOUS
<1>5. PICK fresh \in BOOLEAN : fresh <=> ~stored \/ job.kind = "op" \/ job.fresh
  OBVIOUS
<1>6. /\ UNCHANGED <<server, direct, news, stream, remembered, made, discarded, astray, rewound, left>>
      /\ \E succeeded : Ends(succeeded)
      /\ \/ UNCHANGED <<shown, dirty, unlocked, drafts, copies>>
         \/ job.stage # "failed" /\ \E saved : Receive(entries, job.doc, fresh, saved)
  <2>1. /\ UNCHANGED <<server, direct, news, stream, remembered, made, discarded, astray, rewound, left>>
        /\ \E succeeded : Ends(succeeded)
    BY DEF Finish, place, history, Calm
  <2>2. CASE job.stage = "failed"
    <3>1. UNCHANGED <<shown, dirty, unlocked, drafts, copies>>
      BY <1>1, <2>2 DEF Finish, page
    <3>2. QED
      BY <2>1, <3>1
  <2>3. CASE job.stage # "failed"
    <3>1. PICK isStored : isStored = (job.stage = "stored")
      OBVIOUS
    <3>2. PICK isFresh : isFresh = (~(job.stage = "stored") \/ job.kind = "op" \/ job.fresh)
      OBVIOUS
    <3>3. \E saved : Receive(IF isStored /\ job.kind = "save" THEN Acknowledged(job.body) ELSE drafts, job.doc, isFresh, saved)
      BY <1>1, <2>3, <3>1, <3>2 DEF Finish
    <3>4. (isStored <=> stored) /\ (isFresh <=> fresh)
      BY <1>3, <1>5, <3>1, <3>2
    <3>5. (IF isStored /\ job.kind = "save" THEN Acknowledged(job.body) ELSE drafts) = entries
      BY <1>4, <3>4
    <3>6. isFresh = fresh
      BY <1>5, <3>2, <3>4
    <3>7. QED
      BY <2>1, <2>3, <3>3, <3>5, <3>6
  <2>4. QED
    BY <2>1, <2>2, <2>3
<1>7. /\ tasks' \in [0..MaxMoves -> Moved] /\ DOMAIN tasks' = DOMAIN tasks
      /\ \A i \in DOMAIN tasks : tasks'[i] = tasks[i] \/ Plain(tasks'[i])
      /\ queue' \in Seq(Jobs) /\ QueueFits' /\ Covers'
  BY <1>2, <1>6, Ended
<1>8. /\ drafts' \in [Maps \cup {None} -> SUBSET (SUBSET Nat)] /\ copies' \in Seq(Copies) /\ shown' \in Documents
      /\ {dirty', unlocked'} \subseteq BOOLEAN
      /\ Grows /\ DraftsFit' /\ (Types' => ShownFits')
      /\ DraftsKept
  <2>1. CASE UNCHANGED <<shown, dirty, unlocked, drafts, copies>>
    <3>1. Grows
      BY <1>6, <2>1, GrowsNot DEF KInv
    <3>2. QED
      BY <1>6, <2>1, <3>1, ShownStays, DraftsStay DEF KInv, Types, TypeOK, DraftsFit
  <2>2. CASE job.stage # "failed" /\ \E saved : Receive(entries, job.doc, fresh, saved)
    <3>1. PICK doc : doc = job.doc
      OBVIOUS
    <3>2. doc \in Documents /\ doc.map = job.map /\ Published(doc) /\ AllOf(doc)
      BY <1>2, <2>2, <3>1 DEF HeadFits, Jobs
    <3>3. drafts \in [Maps \cup {None} -> SUBSET (SUBSET Nat)] /\ DraftsFit
      BY DEF KInv, Types, TypeOK
    <3>4. ASSUME stored, job.kind = "save"
          PROVE  /\ job.body.map = job.map /\ job.body.edits = doc.edits
                 /\ entries = [drafts EXCEPT ![job.map] = @ \ {doc.edits}]
      BY <1>2, <1>3, <1>4, <3>1, <3>4 DEF HeadFits, Acknowledged
    <3>5. /\ entries \in [Maps \cup {None} -> SUBSET (SUBSET Nat)]
          /\ \A m \in Maps \cup {None} :
                entries[m] \subseteq drafts[m] /\ drafts[m] \subseteq entries[m] \cup (IF m = job.map THEN {doc.edits} ELSE {})
      <4>1. CASE stored /\ job.kind = "save"
        BY <1>2, <3>3, <3>4, <4>1
      <4>2. CASE ~(stored /\ job.kind = "save")
        BY <1>4, <3>3, <4>2
      <4>3. QED
        BY <4>1, <4>2
    <3>6. entries[None] = {} /\ entries[shown.map] \subseteq {shown.edits}
      BY <3>3, <3>5, FlagsTyped DEF DraftsFit
    <3>7. \A m \in Maps : Owed(m) => UNION drafts[m] \subseteq server[m].edits \cup (UNION entries[m]) \cup Safe(m)
      <4>1. SUFFICES ASSUME NEW m \in Maps, Owed(m)
                     PROVE UNION drafts[m] \subseteq server[m].edits \cup (UNION entries[m]) \cup Safe(m)
        OBVIOUS
      <4>2. m = job.map /\ entries # drafts => doc.edits \subseteq server[m].edits \cup Safe(m)
        BY <3>2, <4>1 DEF AllOf
      <4>3. CASE entries = drafts
        BY <4>3
      <4>4. CASE m = job.map /\ entries # drafts
        BY <3>5, <4>2, <4>4
      <4>5. CASE m # job.map
        BY <3>5, <4>5
      <4>6. QED
        BY <4>3, <4>4, <4>5
    <3>8. ~fresh /\ doc.map = shown.map /\ Owed(doc.map) => doc.edits \subseteq shown.edits \cup Safe(doc.map)
      <4>1. SUFFICES ASSUME ~fresh, doc.map = shown.map, Owed(doc.map)
                     PROVE doc.edits \subseteq shown.edits \cup Safe(doc.map)
        OBVIOUS
      <4>2. stored /\ job.kind = "save" /\ job.stage = "stored"
        BY <1>2, <1>3, <1>5, <4>1 DEF Jobs
      <4>3. Saving(shown.map)
        BY <1>1, <1>2, <3>2, <4>1, <4>2 DEF Saving
      <4>4. queue[1].body.edits \subseteq shown.edits \cup Safe(shown.map)
        BY <4>1, <4>3 DEF KInv, Covers, Owed
      <4>5. QED
        BY <1>1, <3>4, <4>1, <4>2, <4>4
    <3>9. PICK saved : Receive(entries, doc, fresh, saved)
      BY <2>2, <3>1
    <3>10. UNCHANGED <<server, discarded, rewound>>
      BY <1>6
    <3>11. /\ drafts' \in [Maps \cup {None} -> SUBSET (SUBSET Nat)] /\ copies' \in Seq(Copies) /\ shown' \in Documents
           /\ {dirty', unlocked'} \subseteq BOOLEAN
      BY <1>5, <3>2, <3>5, <3>6, <3>7, <3>8, <3>9, <3>10, Received
    <3>12. Grows /\ ShownFits' /\ DraftsFit'
      BY <1>5, <3>2, <3>5, <3>6, <3>7, <3>8, <3>9, <3>10, Received
    <3>13. DraftsKept
      BY <1>5, <3>2, <3>5, <3>6, <3>7, <3>8, <3>9, <3>10, Received
    <3>14. QED
      BY <3>11, <3>12, <3>13
  <2>3. QED
    BY <1>6, <2>1, <2>2
<1>9. Types'
  <2>1. TypeOK'
    BY <1>6, <1>7, <1>8 DEF KInv, Types, TypeOK, Moved
  <2>2. QED
    BY <1>6, <1>7, <1>8, <2>1 DEF KInv, Types, ServerTyped
<1>10. TasksFit' /\ NewsFit' /\ DirectFits' /\ EditsFit'
  BY <1>6, <1>7, <1>8, <1>9, TasksStay, NewsStay, DirectStays, EditsStay
<1>11. QED
  BY <1>7, <1>8, <1>9, <1>10 DEF KInv

\* A published map is received, when no write is under way.
LEMMA OnTopologyStep == ASSUME KInv, OnTopology PROVE KInv'
<1>1. PICK doc : doc = news
  OBVIOUS
<1>2. doc \in Documents /\ Published(doc) /\ AllOf(doc)
  BY <1>1 DEF OnTopology, KInv, Types, TypeOK, NewsFit
<1>3. /\ news' = Nothing /\ queue = <<>> /\ Receive(drafts, doc, TRUE, FALSE)
      /\ UNCHANGED <<server, queue, direct, tasks, stream, remembered, made, discarded, astray, rewound, left>>
  BY <1>1 DEF OnTopology, place, history, Calm
<1>4. /\ drafts \in [Maps \cup {None} -> SUBSET (SUBSET Nat)]
      /\ drafts[None] = {} /\ drafts[shown.map] \subseteq {shown.edits}
  BY DEF KInv, Types, TypeOK, DraftsFit
<1>5. /\ drafts' \in [Maps \cup {None} -> SUBSET (SUBSET Nat)] /\ copies' \in Seq(Copies) /\ shown' \in Documents
      /\ {dirty', unlocked'} \subseteq BOOLEAN
      /\ Grows /\ ShownFits' /\ DraftsFit'
      /\ DraftsKept
  BY <1>2, <1>3, <1>4, Received
<1>6. Types'
  <2>1. Nothing \in Documents
    BY DEF Nothing, Version, Documents
  <2>2. TypeOK'
    BY <1>3, <1>5, <2>1 DEF KInv, Types, TypeOK
  <2>3. QED
    BY <1>3, <1>5, <2>2 DEF KInv, Types, ServerTyped
<1>7. NewsFit' /\ Covers'
  BY <1>3 DEF NewsFit, Nothing, Version, Covers, Saving
<1>8. TasksFit' /\ DirectFits' /\ QueueFits' /\ EditsFit'
  BY <1>3, <1>5, <1>6, TasksStay, DirectStays, QueueStays, EditsStay
<1>9. QED
  BY <1>5, <1>6, <1>7, <1>8 DEF KInv

-----------------------------------------------------------------------------
(* The theorems about edits.                                                *)

LEMMA KInvInit == ASSUME Init PROVE KInv
<1>1. /\ Existing \subseteq Maps /\ None \notin Maps /\ {MaxEdits, MaxMoves, MaxMishaps, MaxActs} \subseteq Nat
  BY WorkspaceAssumption
<1>2. Nothing \in Documents /\ Nothing.map = None
  BY DEF Nothing, Version, Documents
<1>3. Idle \in Directs /\ Idle.stage = "idle"
  BY <1>2 DEF Idle, Directs
<1>4. server \in [Maps -> [live : BOOLEAN, rev : Nat, edits : SUBSET Nat]] /\ ServerTyped
  <2>1. server = [m \in Maps |-> [live |-> m \in Existing, rev |-> IF m \in Existing THEN 1 ELSE 0, edits |-> {}]]
    BY DEF Init
  <2>2. ASSUME NEW m \in Maps
        PROVE  /\ server[m] \in [live : BOOLEAN, rev : Nat, edits : SUBSET Nat]
               /\ server[m].live => server[m].rev = 1
    <3>1. PICK exists \in BOOLEAN : exists = (m \in Existing)
      <4>1. (m \in Existing) \in BOOLEAN
        OBVIOUS
      <4>2. QED
        BY <4>1, Zenon
    <3>2. PICK rev \in Nat : rev = (IF m \in Existing THEN 1 ELSE 0) /\ (exists => rev = 1)
      BY <3>1
    <3>3. server[m] = [live |-> exists, rev |-> rev, edits |-> {}]
      BY <2>1, <3>1, <3>2
    <3>4. QED
      BY <3>2, <3>3
  <2>3. \A m \in Maps : server[m].live => server[m].rev > 0
    BY <2>2
  <2>4. QED
    BY <2>1, <2>2, <2>3 DEF ServerTyped
<1>5. PICK m \in Existing : tasks = [i \in 0..MaxMoves |-> IF i = 0 THEN Task("open", m, "get") ELSE Done]
  BY DEF Init
<1>6. m \in Maps \cup {None}
  BY <1>1
<1>7. /\ Task("open", m, "get") \in Moved /\ Plain(Task("open", m, "get")) /\ Done \in Moved /\ Plain(Done)
  BY <1>2, <1>6 DEF Task, Done, Moved, Plain, Stages
<1>8. tasks \in [0..MaxMoves -> Moved] /\ TasksFit
  <2>1. \A i \in 0..MaxMoves : tasks[i] \in Moved /\ Plain(tasks[i])
    BY <1>5, <1>7
  <2>2. QED
    BY <1>5, <2>1, PlainFits DEF TasksFit
<1>9. Types
  <2>1. TypeOK
    BY <1>2, <1>4, <1>8 DEF Init, TypeOK, Moved, ServerTyped
  <2>2. left \in [{"edits", "moves", "mishaps", "acts"} -> Nat] /\ left.edits \in 0..MaxEdits
    BY <1>1 DEF Init
  <2>3. QED
    BY <1>3, <1>4, <2>1, <2>2 DEF Init, Types
<1>10. NewsFit /\ DirectFits /\ QueueFits
  BY <1>3 DEF Init, NewsFit, DirectFits, QueueFits
<1>11. ShownFits /\ Covers /\ DraftsFit /\ EditsFit
  BY <1>2 DEF Init, ShownFits, Covers, Saving, DraftsFit, EditsFit
<1>12. QED
  BY <1>8, <1>9, <1>10, <1>11 DEF KInv

LEMMA KInvStutters == ASSUME KInv, UNCHANGED vars PROVE KInv'
<1>1. UNCHANGED <<server, shown, dirty, unlocked, drafts, copies, queue, direct, news, tasks, stream, remembered,
                  made, discarded, astray, rewound, left>>
  BY DEF vars, page, sent, place, history
<1>2. Grows
  BY <1>1, GrowsNot DEF KInv
<1>3. Types'
  BY <1>1 DEF KInv, Types, TypeOK, ServerTyped
<1>4. TasksFit'
  BY <1>1, <1>2, <1>3, TasksStay
<1>5. NewsFit' /\ DirectFits' /\ QueueFits' /\ ShownFits'
  BY <1>1, <1>2, <1>3, NewsStay, DirectStays, QueueStays, ShownStays
<1>6. Covers'
  BY <1>1, <1>2, CoversStay DEF Saving
<1>7. DraftsFit'
  BY <1>1 DEF KInv, DraftsFit
<1>8. EditsFit'
  <2>1. DraftsKept
    BY <1>1, DraftsStay
  <2>2. QED
    BY <1>1, <1>2, <1>3, <2>1, EditsStay
<1>9. QED
  BY <1>3, <1>4, <1>5, <1>6, <1>7, <1>8 DEF KInv

LEMMA KInvNext == ASSUME WInv, KInv, [Next]_vars PROVE KInv'
<1>1. CASE UNCHANGED vars
  BY <1>1, KInvStutters
<1>2. CASE \E i \in DOMAIN tasks : Left(i)
  BY <1>2, LeftStep
<1>3. CASE Step
  <2>1. CASE \E move \in Moves : Choose(move[1], move[2])
    BY <2>1, ChooseStep
  <2>2. CASE \E i \in DOMAIN tasks : Drained(i) \/ Discard(i) \/ Stay(i) \/ SaveFirst(i) \/ Get(i) \/ Arrive(i)
    BY <2>2, DrainedStep, DiscardStep, SaveFirstStep, GetStep, ArriveStep
  <2>3. CASE \E i \in DOMAIN tasks : Create(i) \/ Delete(i) \/ Created(i) \/ Deleted(i)
    BY <2>3, CreateStep, DeleteStep, CreatedStep, DeletedStep
  <2>4. CASE \E open \in BOOLEAN : Lock(open)
    BY <2>4, LockStep
  <2>5. CASE Commit \/ Operate \/ (\E saves \in BOOLEAN : Attach(saves)) \/ Flush
    BY <2>5, CommitStep, OperateStep, AttachStep, FlushStep
  <2>6. CASE Begin \/ Serve \/ Reread \/ Finish \/ Attached \/ ApplyAttached \/ Publish \/ OnTopology
    BY <2>6, BeginStep, ServeStep, RereadStep, FinishStep, AttachedStep, ApplyAttachedStep, PublishStep, OnTopologyStep
  <2>7. QED
    BY <1>3, <2>1, <2>2, <2>3, <2>4, <2>5, <2>6 DEF Step
<1>4. QED
  BY <1>1, <1>2, <1>3 DEF Next

\* What the tab and the server know of each other's documents, in every state.
THEOREM DocumentsFit == ASSUME WorkspaceAssumption PROVE Spec => [](WInv /\ KInv)
<1>1. Init => KInv
  BY KInvInit
<1>2. WInv /\ KInv /\ [Next]_vars => KInv'
  BY KInvNext
<1>3. QED
  BY <1>1, <1>2, WorkspaceInvariant, PTL DEF Spec

\* The state has its type.
THEOREM WorkspaceTyped == ASSUME WorkspaceAssumption PROVE Spec => []TypeOK
<1>1. KInv => TypeOK
  BY DEF KInv, Types
<1>2. QED
  BY <1>1, DocumentsFit, PTL

\* No edit made on screen is lost by opening, creating or deleting maps (canLeaveMap,
\* loadTopology, receiveTopology, DraftRecovery): it is stored, in a draft or a copy, or
\* given up.
THEOREM NoEditIsLost == ASSUME WorkspaceAssumption PROVE Spec => []EditsKept
<1>1. KInv => EditsKept
  <2>1. SUFFICES ASSUME KInv, NEW edit \in made, server[edit[1]].live, edit[1] \notin rewound
                 PROVE edit[2] \in server[edit[1]].edits \cup (UNION drafts[edit[1]]) \cup Safe(edit[1])
    BY DEF EditsKept
  <2>2. PICK m \in Maps, n \in 1..MaxEdits : edit = <<m, n>>
    BY <2>1 DEF KInv, Types
  <2>3. EditFits(m, n) /\ edit[1] = m /\ edit[2] = n
    BY <2>1, <2>2 DEF KInv, EditsFit
  <2>4. QED
    BY <2>1, <2>3 DEF EditFits, Owed
<1>2. QED
  BY <1>1, DocumentsFit, PTL
=============================================================================
