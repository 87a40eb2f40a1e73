------------------------ MODULE CollaborationProofs ------------------------
(***************************************************************************)
(* What browsers that edit one map together keep, for any number of them,  *)
(* any edits, clicks, losses and undo histories: an edit on screen is not  *)
(* lost, a screen contains the revision it names, a map that counts as     *)
(* saved is the server's, and a write removes nobody's work.  While        *)
(* streams last, a client with nothing left to receive is current.         *)
(***************************************************************************)
EXTENDS Collaboration, SequenceTheorems, TLAPS

USE DEF serverVars, viewVars, draftVars, netVars, userVars

Revisions == 1..Len(log)

Resyncs == [stage : {"none", "asked", "answered", "waiting"}, rev : Nat]

-----------------------------------------------------------------------------
(* Sequences.                                                               *)

\* Revisions are numbers.
LEMMA Numbers ==
    ASSUME TypeOK, NEW c \in Clients
    PROVE  /\ Len(log) \in Nat /\ rev[c] \in Revisions /\ rev[c] \in Nat
           /\ req[c].base \in Nat
<1>1. Len(log) \in Nat
  BY LenProperties DEF TypeOK
<1>2. rev[c] \in Revisions
  BY DEF TypeOK, Revisions
<1>3. rev[c] \in Nat
  BY <1>1, <1>2 DEF Revisions
<1>4. req[c] \in Requests
  BY DEF TypeOK
<1>5. QED
  BY <1>1, <1>2, <1>3, <1>4 DEF Requests

\* What is appended comes last, and the rest stays.
LEMMA Appended ==
    ASSUME NEW S, NEW s \in Seq(S), NEW x \in S
    PROVE  /\ Append(s, x) \in Seq(S)
           /\ Len(Append(s, x)) = Len(s) + 1
           /\ Append(s, x)[Len(s) + 1] = x
           /\ \A i \in 1..Len(s) : Append(s, x)[i] = s[i]
BY AppendProperties

\* Undo histories stay sequences of documents.
LEMMA RememberedType ==
    ASSUME NEW h \in Seq(Docs), NEW d \in Docs
    PROVE  Remembered(h, d) \in Seq(Docs)
<1>1. Append(h, d) \in Seq(Docs) /\ Append(h, d) # <<>>
  BY AppendProperties
<1>2. Tail(Append(h, d)) \in Seq(Docs)
  BY <1>1, HeadTailProperties
<1>3. QED
  BY <1>1, <1>2 DEF Remembered

\* What is restored is a document, and the rest is a history.
LEMMA LastOf ==
    ASSUME NEW h \in Seq(Docs), h # <<>>
    PROVE  /\ h[Len(h)] \in Docs
           /\ SubSeq(h, 1, Len(h) - 1) \in Seq(Docs)
<1>1. Len(h) \in Nat /\ Len(h) # 0 /\ \A i \in 1..Len(h) : h[i] \in Docs
  BY EmptySeq, LenProperties, ElementOfSeq
<1>2. \A i \in 1..(Len(h) - 1) : h[i] \in Docs
  BY <1>1
<1>3. QED
  BY <1>1, <1>2, SubSeqProperties

\* A server that stores a write keeps the revisions before it.
LogStep ==
    /\ log' \in Seq(Docs) /\ Len(log) \in Nat /\ Len(log') \in Nat /\ Len(log) <= Len(log')
    /\ \A n \in Revisions : log'[n] = log[n]

\* Storing a write.
LEMMA SaveGrows ==
    ASSUME log \in Seq(Docs), NEW body \in Docs, log' = Append(log, body)
    PROVE  LogStep /\ Len(log') = Len(log) + 1 /\ log'[Len(log')] = body
<1>1. Len(log) \in Nat
  BY LenProperties
<1>2. QED
  BY <1>1, Appended DEF LogStep, Revisions

\* Storing nothing.
LEMMA NoSave ==
    ASSUME log \in Seq(Docs), UNCHANGED log
    PROVE  LogStep
BY LenProperties DEF LogStep

\* An answered request: what the server and the request are afterwards.
LEMMA AnswerStep ==
    ASSUME TypeOK, NEW q \in Requests, Answer(q)
    PROVE  /\ LogStep
           /\ unpublished' \subseteq Revisions'
           /\ Answered(q) \in Requests
<1>1. q.body \in Docs /\ q.base \in Nat /\ log \in Seq(Docs) /\ unpublished \subseteq Revisions
  BY DEF Requests, TypeOK, Revisions
<1>2. Len(log) \in Nat
  BY <1>1, LenProperties
<1>3. CASE Current(q.base)
  <2>1. log' = Append(log, q.body) /\ unpublished' = unpublished \cup {Len(log) + 1}
    BY <1>3 DEF Answer, Save
  <2>2. LogStep /\ Len(log') = Len(log) + 1
    BY <1>1, <2>1, SaveGrows
  <2>3. Answered(q) \in Requests
    <3>1. Len(log) + 1 \in Nat
      BY <1>2
    <3>2. Answered(q) = [q EXCEPT !.stage = "done", !.rev = Len(log) + 1]
      BY <1>3 DEF Answered
    <3>3. QED
      BY <3>1, <3>2 DEF Requests
  <2>4. Revisions \subseteq Revisions' /\ Len(log) + 1 \in Revisions'
    BY <1>2, <2>2 DEF Revisions
  <2>5. unpublished' \subseteq Revisions'
    BY <1>1, <2>1, <2>4
  <2>6. QED
    BY <2>2, <2>3, <2>5
<1>4. CASE ~Current(q.base)
  <2>1. UNCHANGED <<log, unpublished>>
    BY <1>4 DEF Answer
  <2>2. Answered(q) \in Requests
    BY <1>4 DEF Answered, Requests
  <2>3. QED
    BY <1>1, <2>1, <2>2, NoSave DEF Revisions
<1>5. QED
  BY <1>3, <1>4

-----------------------------------------------------------------------------
(* Types.                                                                   *)

\* What refers to revisions.
RefType ==
    /\ rev \in [Clients -> Revisions] /\ seen \in [Clients -> Revisions]
    /\ channel \in [Clients -> Seq(Revisions)] /\ unpublished \subseteq Revisions

\* What a client refers to stays there.
LEMMA RefsStay ==
    ASSUME TypeOK, LogStep, unpublished' \subseteq Revisions', UNCHANGED <<rev, seen, channel>>
    PROVE  RefType'
<1>1. Revisions \subseteq Revisions'
  BY DEF LogStep, Revisions
<1>2. rev' \in [Clients -> Revisions'] /\ seen' \in [Clients -> Revisions']
  BY <1>1 DEF TypeOK, Revisions
<1>3. channel' \in [Clients -> Seq(Revisions')]
  <2>1. ASSUME NEW c \in Clients PROVE channel[c] \in Seq(Revisions')
    <3>1. channel[c] \in Seq(Revisions)
      BY DEF TypeOK, Revisions
    <3>2. QED
      BY <1>1, <3>1, SeqMonotonic
  <2>2. QED
    BY <2>1 DEF TypeOK
<1>4. QED
  BY <1>2, <1>3 DEF RefType

\* A snapshot of a revision keeps the types of what a client shows.
LEMMA ReceiveType ==
    ASSUME TypeOK, NEW c \in Clients, NEW r \in Revisions, NEW d \in SUBSET Docs,
           NEW current \in BOOLEAN, NEW remember \in BOOLEAN, NEW saved \in BOOLEAN,
           ReceiveTopology(c, r, d, current, remember, saved)
           \/ ApplyTopology(c, r, d, remember, saved)
    PROVE  /\ doc' \in [Clients -> Docs] /\ rev' \in [Clients -> Revisions]
           /\ history' \in [Clients -> Seq(Docs)] /\ future' \in [Clients -> Seq(Docs)]
           /\ dirty' \in [Clients -> BOOLEAN]
           /\ draft' \in [Clients -> SUBSET Docs] /\ recovered' \in [Clients -> SUBSET Docs]
<1>0. /\ doc \in [Clients -> Docs] /\ rev \in [Clients -> Revisions]
      /\ history \in [Clients -> Seq(Docs)] /\ future \in [Clients -> Seq(Docs)]
      /\ dirty \in [Clients -> BOOLEAN]
      /\ draft \in [Clients -> SUBSET Docs] /\ recovered \in [Clients -> SUBSET Docs]
  BY DEF TypeOK, Revisions
<1>1. log[r] \in Docs
  BY ElementOfSeq DEF TypeOK, Revisions
<1>2. ASSUME ApplyTopology(c, r, d, remember, saved)
      PROVE  /\ doc' \in [Clients -> Docs] /\ rev' \in [Clients -> Revisions]
             /\ history' \in [Clients -> Seq(Docs)] /\ future' \in [Clients -> Seq(Docs)]
             /\ dirty' \in [Clients -> BOOLEAN]
             /\ draft' \in [Clients -> SUBSET Docs] /\ recovered' \in [Clients -> SUBSET Docs]
  <2>1. Remembered(history[c], doc[c]) \in Seq(Docs) /\ <<>> \in Seq(Docs)
    BY <1>0, RememberedType, EmptySeq
  <2>2. history' \in [Clients -> Seq(Docs)] /\ future' \in [Clients -> Seq(Docs)]
    BY <1>0, <1>2, <2>1 DEF ApplyTopology, Remember
  <2>3. QED
    BY <1>0, <1>1, <1>2, <2>2 DEF ApplyTopology, Displaced
<1>3. CASE ApplyTopology(c, r, d, remember, saved)
  BY <1>2, <1>3
<1>4. CASE ReceiveTopology(c, r, d, current, remember, saved)
  <2>1. CASE Older(c, r)
    BY <1>0, <1>4, <2>1 DEF ReceiveTopology
  <2>2. CASE ~Older(c, r) /\ ~current
    <3>1. {doc[c]} \in SUBSET Docs
      BY <1>0
    <3>2. QED
      BY <1>0, <1>4, <2>2, <3>1 DEF ReceiveTopology
  <2>3. CASE ~Older(c, r) /\ current /\ Kept(c, r, d)
    BY <1>0, <1>4, <2>3 DEF ReceiveTopology
  <2>4. CASE ~Older(c, r) /\ current /\ ~Kept(c, r, d)
    BY <1>2, <1>4, <2>4 DEF ReceiveTopology
  <2>5. QED
    BY <2>1, <2>2, <2>3, <2>4
<1>5. QED
  BY <1>3, <1>4
-----------------------------------------------------------------------------
(* The invariant.                                                           *)

HeadIs(c, kinds) == jobs[c] # <<>> /\ Head(jobs[c]).kind \in kinds

\* A save joins an empty queue only, and starts before anything else happens in
\* its browser; a request belongs to a write at the head; what waits in the queue is
\* a revision the server has, or an operation that makes an edit.
QueueInv(c) ==
    /\ \A i \in 2..Len(jobs[c]) : jobs[c][i].kind # "save"
    /\ \A i \in 1..Len(jobs[c]) : jobs[c][i].kind \in {"receive", "resync"} => jobs[c][i].rev \in Revisions
    /\ \A i \in 1..Len(jobs[c]) : jobs[c][i].kind = "patch" => jobs[c][i].edit \in Edits
    /\ req[c].stage # "idle" => jobs[c] # <<>> /\ Head(jobs[c]).kind \notin {"receive", "resync"}
    /\ HeadIs(c, {"save"}) /\ req[c].stage = "idle" => ~touched[c]

\* A resynchronization is answered with a revision the server has.
ResyncInv(c) == resync[c].stage = "answered" => resync[c].rev \in Revisions

\* A write was sent under a revision the server has; one that succeeded is the
\* next revision, its client is behind it, and no write that its client sent past
\* the queue has been or will be stored after it.
RequestInv(c) ==
    /\ req[c].stage \in {"sent", "done"} => req[c].base \in Revisions
    /\ req[c].stage = "fetched" => req[c].rev \in Revisions
    /\ req[c].stage = "done" =>
          /\ req[c].rev = req[c].base + 1 /\ req[c].rev \in Revisions
          /\ log[req[c].rev] = req[c].body
          /\ rev[c] <= req[c].base
          /\ direct[c].stage = "sent" => direct[c].base <= req[c].base
          /\ direct[c].stage = "done" => direct[c].rev <= req[c].base
    /\ direct[c].stage \in {"sent", "done"} => direct[c].base \in Revisions
    /\ direct[c].stage = "done" => direct[c].rev \in Revisions /\ log[direct[c].rev] = direct[c].body
    /\ \A q \in late[c] : q.stage = "sent" /\ q.base \in Revisions

\* The pending draft is the document on screen.
DraftInv(c) == draft[c] \subseteq {doc[c]}

\* The write at the head has succeeded, or still can.
MayCount(q) == q.stage = "done" \/ (q.stage = "sent" /\ q.base = Len(log))

\* Unless a client strayed, all it shows and all it sent contain the revision they
\* name, and a save that can succeed is part of what it shows.
BaseInv(c) ==
    strayed[c] = {} =>
        /\ log[rev[c]] \subseteq doc[c]
        /\ req[c].stage = "sent" => log[req[c].base] \subseteq req[c].body
        /\ direct[c].stage = "sent" => log[direct[c].base] \subseteq direct[c].body
        /\ \A q \in late[c] : log[q.base] \subseteq q.body
        /\ HeadIs(c, {"save"}) /\ MayCount(req[c]) => req[c].body \subseteq doc[c]

\* Unless an answer came late, a clean map is the server's; a client is not behind
\* the write it sent, and an edit made since a save was sent keeps the map dirty.
CleanInv(c) ==
    "overtaken" \notin strayed[c] =>
        /\ ~dirty[c] => doc[c] = log[rev[c]]
        /\ req[c].stage \in {"sent", "done"} => req[c].base <= rev[c]
        /\ HeadIs(c, {"save"}) /\ MayCount(req[c]) /\ touched[c] => dirty[c]

\* An edit neither saved nor offered for recovery is on screen, in the draft.
EditInv(e) ==
    \/ e \in Persisted
    \/ e \in UNION recovered[Owner[e]]
    \/ dirty[Owner[e]] /\ draft[Owner[e]] = {doc[Owner[e]]} /\ e \in doc[Owner[e]]

ClientInv(c) ==
    QueueInv(c) /\ ResyncInv(c) /\ RequestInv(c) /\ DraftInv(c) /\ BaseInv(c) /\ CleanInv(c)

IInv ==
    /\ TypeOK
    /\ \A c \in Clients : ClientInv(c)
    /\ \A e \in committed : EditInv(e)

-----------------------------------------------------------------------------
(* The types are kept.                                                      *)

LEMMA TypeInit == Init => TypeOK
<1> SUFFICES ASSUME Init PROVE TypeOK
  OBVIOUS
<1>1. <<{}>> \in Seq(Docs) /\ Len(<<{}>>) = 1
  BY DEF Docs
<1>2. \A S : <<>> \in Seq(S)
  OBVIOUS
<1>3. NoRequest \in Requests
  BY DEF NoRequest, Requests, Docs
<1>4. /\ log \in Seq(Docs) /\ unpublished \subseteq 1..Len(log) /\ late \in [Clients -> SUBSET Requests]
      /\ rev \in [Clients -> 1..Len(log)] /\ seen \in [Clients -> 1..Len(log)]
  BY <1>1 DEF Init
<1>5. /\ history \in [Clients -> Seq(Docs)] /\ future \in [Clients -> Seq(Docs)]
      /\ jobs \in [Clients -> Seq(Jobs)] /\ channel \in [Clients -> Seq(1..Len(log))]
  BY <1>2 DEF Init
<1>6. /\ doc \in [Clients -> Docs] /\ dirty \in [Clients -> BOOLEAN] /\ touched \in [Clients -> BOOLEAN]
      /\ draft \in [Clients -> SUBSET Docs] /\ recovered \in [Clients -> SUBSET Docs]
  BY DEF Init, Docs
<1>7. /\ req \in [Clients -> Requests] /\ direct \in [Clients -> Requests]
      /\ resync \in [Clients -> [stage : {"none", "asked", "answered", "waiting"}, rev : Nat]]
      /\ stream \in [Clients -> {"offline", "connected", "open"}]
  BY <1>3 DEF Init
<1>8. /\ made \subseteq Edits /\ committed \subseteq made
      /\ strayed \in [Clients -> SUBSET {"undo", "overtaken"}]
      /\ clicks \in 0..MaxClicks /\ losses \in 0..MaxLosses
  BY LimitAssumption DEF Init
<1>9. QED
  BY <1>4, <1>5, <1>6, <1>7, <1>8 DEF TypeOK

\* A job that joins the queue.
LEMMA EnqueueType ==
    ASSUME TypeOK, NEW c \in Clients, NEW job \in Jobs, Enqueue(c, job)
    PROVE  jobs' \in [Clients -> Seq(Jobs)]
<1>1. Append(jobs[c], job) \in Seq(Jobs)
  BY AppendProperties DEF TypeOK
<1>2. QED
  BY <1>1 DEF TypeOK, Enqueue

\* The next job comes to the head.
LEMMA StartOverType ==
    ASSUME TypeOK, NEW c \in Clients, jobs[c] # <<>>
    PROVE  /\ [jobs EXCEPT ![c] = Tail(@)] \in [Clients -> Seq(Jobs)]
           /\ [req EXCEPT ![c] = NoRequest] \in [Clients -> Requests]
<1>1. Tail(jobs[c]) \in Seq(Jobs)
  BY HeadTailProperties DEF TypeOK
<1>2. NoRequest \in Requests
  BY DEF NoRequest, Requests, Docs
<1>3. QED
  BY <1>1, <1>2 DEF TypeOK

LEMMA UserType ==
    ASSUME TypeOK, NEW c \in Clients, User(c) \/ Flush(c)
    PROVE  TypeOK'
<1>1. ASSUME NEW e \in Edits, Commit(c, e) PROVE TypeOK'
  <2>1. Remembered(history[c], doc[c]) \in Seq(Docs) /\ <<>> \in Seq(Docs)
    BY RememberedType, EmptySeq DEF TypeOK
  <2>2. history' \in [Clients -> Seq(Docs)] /\ future' \in [Clients -> Seq(Docs)]
    BY <1>1, <2>1 DEF TypeOK, Commit, Remember
  <2>3. doc[c] \cup {e} \in Docs /\ {doc[c] \cup {e}} \in SUBSET Docs
    BY DEF TypeOK, Docs
  <2>4. doc' \in [Clients -> Docs] /\ draft' \in [Clients -> SUBSET Docs]
    BY <1>1, <2>3 DEF TypeOK, Commit
  <2>5. dirty' \in [Clients -> BOOLEAN] /\ touched' \in [Clients -> BOOLEAN]
    BY <1>1 DEF TypeOK, Commit
  <2>6. QED
    BY <1>1, <2>2, <2>4, <2>5 DEF TypeOK, Commit
<1>2. ASSUME NEW e \in Edits, Patch(c, e) PROVE TypeOK'
  <2>1. Job("patch", e, 0) \in Jobs
    BY DEF Job, Jobs
  <2>2. jobs' \in [Clients -> Seq(Jobs)]
    BY <1>2, <2>1, EnqueueType DEF Patch
  <2>3. QED
    BY <1>2, <2>2 DEF TypeOK, Patch
<1>3. ASSUME NEW e \in Edits, SendDirect(c, e) PROVE TypeOK'
  <2>1. log[rev[c]] \in Docs /\ rev[c] \in Nat
    BY ElementOfSeq DEF TypeOK
  <2>2. doc[c] \cup {e} \in Docs /\ log[rev[c]] \cup {e} \in Docs
    BY <2>1 DEF TypeOK, Docs
  <2>3. direct' \in [Clients -> Requests]
    <3>1. PICK body \in {log[rev[c]] \cup {e}, doc[c] \cup {e}} :
             direct' = [direct EXCEPT ![c] =
                           [stage |-> "sent", base |-> rev[c], body |-> body, rev |-> 0]]
      BY <1>3 DEF SendDirect
    <3>2. [stage |-> "sent", base |-> rev[c], body |-> body, rev |-> 0] \in Requests
      BY <2>1, <2>2 DEF Requests
    <3>3. QED
      BY <3>1, <3>2 DEF TypeOK
  <2>4. QED
    BY <1>3, <2>3 DEF TypeOK, SendDirect
<1>4. ASSUME NEW kind \in Clicks, Undo(c, kind) PROVE TypeOK'
  <2>1. Job(kind, NoEdit, 0) \in Jobs
    BY <1>4 DEF Undo, Job, Jobs
  <2>2. jobs' \in [Clients -> Seq(Jobs)]
    BY <1>4, <2>1, EnqueueType DEF Undo
  <2>3. clicks' \in 0..MaxClicks
    BY <1>4, LimitAssumption DEF TypeOK, Undo
  <2>4. QED
    BY <1>4, <2>2, <2>3 DEF TypeOK, Undo
<1>5. ASSUME StartSave(c), clicks' \in 0..MaxClicks PROVE TypeOK'
  <2>1. Job("save", NoEdit, 0) \in Jobs
    BY DEF Job, Jobs
  <2>2. jobs' \in [Clients -> Seq(Jobs)]
    BY <1>5, <2>1, EnqueueType DEF StartSave
  <2>3. touched' \in [Clients -> BOOLEAN]
    BY <1>5 DEF TypeOK, StartSave
  <2>4. QED
    BY <1>5, <2>2, <2>3 DEF TypeOK, StartSave
<1>6. ASSUME SaveNow(c) PROVE TypeOK'
  <2>1. clicks' \in 0..MaxClicks
    BY <1>6, LimitAssumption DEF TypeOK, SaveNow
  <2>2. QED
    BY <1>5, <1>6, <2>1 DEF SaveNow
<1>7. ASSUME Flush(c) PROVE TypeOK'
  BY <1>5, <1>7 DEF Flush, TypeOK
<1>8. QED
  BY <1>1, <1>2, <1>3, <1>4, <1>6, <1>7 DEF User

\* The head of a queue is a job of it.
LEMMA HeadJob ==
    ASSUME TypeOK, NEW c \in Clients, QueueInv(c), jobs[c] # <<>>
    PROVE  /\ Head(jobs[c]) \in Jobs
           /\ Head(jobs[c]).kind \in {"receive", "resync"} => Head(jobs[c]).rev \in Revisions
           /\ Head(jobs[c]).kind = "patch" => Head(jobs[c]).edit \in Edits
<1>1. jobs[c] \in Seq(Jobs)
  BY DEF TypeOK
<1>2. Head(jobs[c]) = jobs[c][1] /\ Head(jobs[c]) \in Jobs /\ 1 \in 1..Len(jobs[c])
  BY <1>1, HeadTailProperties, EmptySeq, LenProperties
<1>3. QED
  BY <1>2 DEF QueueInv

\* A request that starts, from a document the client or the server has.
LEMMA BeginType ==
    ASSUME TypeOK, NEW c \in Clients, QueueInv(c), Begin(c)
    PROVE  TypeOK'
<1>0. rev[c] \in Nat /\ doc[c] \in Docs /\ log[rev[c]] \in Docs
  BY ElementOfSeq DEF TypeOK
<1>1. ASSUME NEW body \in Docs, Send(c, body) PROVE req' \in [Clients -> Requests]
  <2>1. [stage |-> "sent", base |-> rev[c], body |-> body, rev |-> 0] \in Requests
    BY <1>0 DEF Requests
  <2>2. QED
    BY <1>1, <2>1 DEF TypeOK, Send
<1>2. CASE BeginSave(c)
  <2>1. req' \in [Clients -> Requests]
    BY <1>0, <1>1, <1>2 DEF BeginSave
  <2>2. QED
    BY <1>2, <2>1 DEF TypeOK, Begin, BeginSave
<1>3. CASE BeginPatch(c)
  <2>1. Head(jobs[c]).edit \in Edits
    BY <1>3, HeadJob DEF BeginPatch, Running
  <2>2. log[rev[c]] \cup {Head(jobs[c]).edit} \in Docs
    BY <1>0, <2>1 DEF Docs
  <2>3. req' \in [Clients -> Requests]
    BY <1>1, <1>3, <2>2 DEF BeginPatch
  <2>4. dirty' \in [Clients -> BOOLEAN] /\ touched' \in [Clients -> BOOLEAN]
    BY <1>3 DEF TypeOK, BeginPatch
  <2>5. QED
    BY <1>3, <2>3, <2>4 DEF TypeOK, Begin, BeginPatch
<1>4. ASSUME NEW from \in [Clients -> Seq(Docs)], NEW to \in [Clients -> Seq(Docs)],
             NEW from1, NEW to1, from[c] # <<>>,
             from1 = [from EXCEPT ![c] = SubSeq(@, 1, Len(@) - 1)],
             to1 = [to EXCEPT ![c] = Append(@, doc[c])]
      PROVE  from1 \in [Clients -> Seq(Docs)] /\ to1 \in [Clients -> Seq(Docs)]
             /\ from[c][Len(from[c])] \in Docs
  <2>1. SubSeq(from[c], 1, Len(from[c]) - 1) \in Seq(Docs) /\ from[c][Len(from[c])] \in Docs
    BY <1>4, LastOf
  <2>2. Append(to[c], doc[c]) \in Seq(Docs)
    BY <1>0, AppendProperties
  <2>3. QED
    BY <1>4, <2>1, <2>2
<1>5. CASE BeginUndo(c)
  <2>1. CASE StartOver(c) /\ UNCHANGED <<viewVars, dirty, touched, draft, committed, strayed>>
             /\ jobs[c] # <<>>
    <3>1. jobs' \in [Clients -> Seq(Jobs)] /\ req' \in [Clients -> Requests]
      BY <2>1, StartOverType DEF StartOver
    <3>2. QED
      BY <1>5, <2>1, <3>1 DEF TypeOK, Begin
  <2>2. ASSUME Restore(c, history, future), history[c] # <<>> PROVE TypeOK'
    <3> DEFINE restored == history[c][Len(history[c])]
    <3>1. /\ history' \in [Clients -> Seq(Docs)] /\ future' \in [Clients -> Seq(Docs)]
          /\ restored \in Docs
      BY <1>4, <2>2 DEF Restore, TypeOK
    <3>2. req' \in [Clients -> Requests]
      BY <1>1, <2>2, <3>1 DEF Restore
    <3>3. doc' \in [Clients -> Docs] /\ draft' \in [Clients -> SUBSET Docs]
      BY <2>2, <3>1 DEF Restore, TypeOK
    <3>4. /\ dirty' \in [Clients -> BOOLEAN] /\ touched' \in [Clients -> BOOLEAN]
          /\ strayed' \in [Clients -> SUBSET {"undo", "overtaken"}] /\ committed' \subseteq committed
      BY <2>2 DEF Restore, TypeOK
    <3>5. QED
      BY <1>5, <2>2, <3>1, <3>2, <3>3, <3>4 DEF TypeOK, Begin, Restore
  <2>3. ASSUME Restore(c, future, history), future[c] # <<>> PROVE TypeOK'
    <3> DEFINE restored == future[c][Len(future[c])]
    <3>1. /\ history' \in [Clients -> Seq(Docs)] /\ future' \in [Clients -> Seq(Docs)]
          /\ restored \in Docs
      BY <1>4, <2>3 DEF Restore, TypeOK
    <3>2. req' \in [Clients -> Requests]
      BY <1>1, <2>3, <3>1 DEF Restore
    <3>3. doc' \in [Clients -> Docs] /\ draft' \in [Clients -> SUBSET Docs]
      BY <2>3, <3>1 DEF Restore, TypeOK
    <3>4. /\ dirty' \in [Clients -> BOOLEAN] /\ touched' \in [Clients -> BOOLEAN]
          /\ strayed' \in [Clients -> SUBSET {"undo", "overtaken"}] /\ committed' \subseteq committed
      BY <2>3 DEF Restore, TypeOK
    <3>5. QED
      BY <1>5, <2>3, <3>1, <3>2, <3>3, <3>4 DEF TypeOK, Begin, Restore
  <2>4. QED
    BY <1>5, <2>1, <2>2, <2>3 DEF BeginUndo, Running
<1>6. QED
  BY <1>2, <1>3, <1>5 DEF Begin

\* A request at another stage.
LEMMA StageType ==
    ASSUME TypeOK, NEW c \in Clients, NEW n \in Nat
    PROVE  /\ [req[c] EXCEPT !.stage = "failed"] \in Requests
           /\ [req[c] EXCEPT !.stage = "asking"] \in Requests
           /\ [req[c] EXCEPT !.stage = "fetched", !.rev = n] \in Requests
<1>1. req[c] \in Requests
  BY DEF TypeOK
<1>2. QED
  BY <1>1 DEF Requests

\* The server answers requests, and publishes what it stored.
LEMMA ServerType ==
    ASSUME TypeOK, Server
    PROVE  TypeOK'
<1>0. Len(log) \in Nat
  BY LenProperties DEF TypeOK
<1>1. ASSUME NEW c \in Clients, Serve(c) PROVE TypeOK'
  <2>1. LogStep /\ unpublished' \subseteq Revisions' /\ Answered(req[c]) \in Requests
    BY <1>1, AnswerStep DEF Serve, TypeOK
  <2>2. RefType'
    BY <1>1, <2>1, RefsStay DEF Serve
  <2>3. req' \in [Clients -> Requests]
    BY <1>1, <2>1 DEF Serve, TypeOK
  <2>4. QED
    BY <1>1, <2>1, <2>2, <2>3 DEF TypeOK, Serve, RefType, Revisions, LogStep
<1>2. ASSUME NEW c \in Clients, ServeDirect(c) PROVE TypeOK'
  <2>1. LogStep /\ unpublished' \subseteq Revisions' /\ Answered(direct[c]) \in Requests
    BY <1>2, AnswerStep DEF ServeDirect, TypeOK
  <2>2. RefType'
    BY <1>2, <2>1, RefsStay DEF ServeDirect
  <2>3. direct' \in [Clients -> Requests]
    BY <1>2, <2>1 DEF ServeDirect, TypeOK
  <2>4. QED
    BY <1>2, <2>1, <2>2, <2>3 DEF TypeOK, ServeDirect, RefType, Revisions, LogStep
<1>3. ASSUME NEW c \in Clients, ServeGet(c) PROVE TypeOK'
  <2>1. [req[c] EXCEPT !.stage = "fetched", !.rev = Len(log)] \in Requests
    BY <1>0, StageType
  <2>2. req' = [req EXCEPT ![c] = [req[c] EXCEPT !.stage = "fetched", !.rev = Len(log)]]
    BY <1>3 DEF ServeGet, TypeOK
  <2>3. req' \in [Clients -> Requests]
    BY <2>1, <2>2 DEF TypeOK
  <2>4. QED
    BY <1>3, <2>3 DEF TypeOK, ServeGet
<1>4. ASSUME NEW c \in Clients, ServeResync(c) PROVE TypeOK'
  <2>1. resync' \in [Clients -> Resyncs]
    BY <1>0, <1>4 DEF TypeOK, ServeResync, Resyncs
  <2>2. QED
    BY <1>4, <2>1 DEF TypeOK, ServeResync, Resyncs
<1>5. ASSUME NEW c \in Clients, Connect(c) PROVE TypeOK'
  BY <1>5 DEF TypeOK, Connect
<1>6. ASSUME NEW r \in unpublished, Publish(r) PROVE TypeOK'
  <2>1. ASSUME NEW c \in Clients PROVE Append(channel[c], r) \in Seq(1..Len(log))
    BY AppendProperties DEF TypeOK
  <2>2. channel' \in [Clients -> Seq(1..Len(log))]
    BY <1>6, <2>1 DEF TypeOK, Publish
  <2>3. QED
    BY <1>6, <2>2 DEF TypeOK, Publish
<1>7. QED
  BY <1>1, <1>2, <1>3, <1>4, <1>5, <1>6 DEF Server

\* What is lost leaves a write on its way at most.
LEMMA LossType ==
    ASSUME TypeOK, Loss
    PROVE  TypeOK'
<1>1. ASSUME NEW kind, Lose(kind) PROVE losses' \in 0..MaxLosses
  BY <1>1, LimitAssumption DEF Lose, TypeOK
<1>2. ASSUME NEW q \in Requests PROVE Abandoned(q) \in SUBSET Requests
  BY DEF Abandoned
<1>3. NoRequest \in Requests
  BY DEF NoRequest, Requests, Docs
<1>4. ASSUME NEW c \in Clients, Fail(c) PROVE TypeOK'
  <2>1. [req[c] EXCEPT !.stage = "failed"] \in Requests
    BY StageType
  <2>2. req' = [req EXCEPT ![c] = [req[c] EXCEPT !.stage = "failed"]]
    BY <1>4 DEF Fail, TypeOK
  <2>3. req' \in [Clients -> Requests]
    BY <2>1, <2>2 DEF TypeOK
  <2>4. late' \in [Clients -> SUBSET Requests]
    BY <1>2, <1>4 DEF TypeOK, Fail
  <2>5. QED
    BY <1>1, <1>4, <2>3, <2>4 DEF TypeOK, Fail
<1>5. ASSUME NEW c \in Clients, Break(c) PROVE TypeOK'
  <2>1. channel' \in [Clients -> Seq(1..Len(log))]
    BY <1>5, EmptySeq DEF TypeOK, Break
  <2>2. QED
    BY <1>1, <1>5, <2>1 DEF TypeOK, Break
<1>6. ASSUME NEW c \in Clients, ResyncFails(c) PROVE TypeOK'
  <2>1. resync' \in [Clients -> Resyncs]
    BY <1>6 DEF TypeOK, ResyncFails, Resyncs
  <2>2. QED
    BY <1>1, <1>6, <2>1 DEF TypeOK, ResyncFails, Resyncs
<1>7. ASSUME NEW c \in Clients, Reload(c) PROVE TypeOK'
  <2>1. Len(log) \in 1..Len(log) /\ log[Len(log)] \in Docs
    BY LenProperties, ElementOfSeq DEF TypeOK
  <2>2. doc' \in [Clients -> Docs] /\ rev' \in [Clients -> 1..Len(log)] /\ seen' \in [Clients -> 1..Len(log)]
    BY <1>7, <2>1 DEF TypeOK, Reload
  <2>3. /\ history' \in [Clients -> Seq(Docs)] /\ future' \in [Clients -> Seq(Docs)]
        /\ jobs' \in [Clients -> Seq(Jobs)] /\ channel' \in [Clients -> Seq(1..Len(log))]
    BY <1>7, EmptySeq DEF TypeOK, Reload
  <2>4. /\ req' \in [Clients -> Requests] /\ direct' \in [Clients -> Requests]
        /\ resync' \in [Clients -> Resyncs]
    BY <1>3, <1>7 DEF TypeOK, Reload, Resyncs
  <2>5. late' \in [Clients -> SUBSET Requests]
    BY <1>2, <1>7 DEF TypeOK, Reload
  <2>6. /\ recovered' \in [Clients -> SUBSET Docs] /\ draft' \in [Clients -> SUBSET Docs]
        /\ dirty' \in [Clients -> BOOLEAN] /\ touched' \in [Clients -> BOOLEAN]
        /\ strayed' \in [Clients -> SUBSET {"undo", "overtaken"}]
    BY <1>7 DEF TypeOK, Reload, Stored
  <2>7. QED
    BY <1>1, <1>7, <2>2, <2>3, <2>4, <2>5, <2>6 DEF TypeOK, Reload, Resyncs
<1>8. ASSUME NEW c \in Clients, NEW q \in late[c], ServeLate(c, q) PROVE TypeOK'
  <2>1. q \in Requests
    BY DEF TypeOK
  <2>2. LogStep /\ unpublished' \subseteq Revisions'
    BY <1>8, <2>1, AnswerStep DEF ServeLate
  <2>3. RefType'
    BY <1>8, <2>2, RefsStay DEF ServeLate
  <2>4. late' \in [Clients -> SUBSET Requests]
    BY <1>8 DEF ServeLate, TypeOK
  <2>5. QED
    BY <1>8, <2>2, <2>3, <2>4 DEF TypeOK, ServeLate, RefType, Revisions, LogStep
<1>9. QED
  BY <1>4, <1>5, <1>6, <1>7, <1>8 DEF Loss

\* A job whose answer came ends.
LEMMA FinishType ==
    ASSUME TypeOK, NEW c \in Clients, req[c].rev \in Revisions, jobs[c] # <<>>,
           NEW d \in SUBSET Docs, NEW current \in BOOLEAN, NEW remember \in BOOLEAN,
           NEW saved \in BOOLEAN, Finish(c, d, current, remember, saved)
    PROVE  TypeOK'
<1>1. /\ doc' \in [Clients -> Docs] /\ rev' \in [Clients -> Revisions]
      /\ history' \in [Clients -> Seq(Docs)] /\ future' \in [Clients -> Seq(Docs)]
      /\ dirty' \in [Clients -> BOOLEAN]
      /\ draft' \in [Clients -> SUBSET Docs] /\ recovered' \in [Clients -> SUBSET Docs]
  BY ReceiveType DEF Finish
<1>2. jobs' \in [Clients -> Seq(Jobs)] /\ req' \in [Clients -> Requests]
  BY StartOverType DEF Finish, StartOver
<1>3. strayed' \in [Clients -> SUBSET {"undo", "overtaken"}]
  BY DEF TypeOK, Finish, Settle
<1>4. QED
  BY <1>1, <1>2, <1>3 DEF TypeOK, Finish, Revisions

\* Answers, and what a stream brings.
LEMMA BrowserType ==
    ASSUME TypeOK, NEW c \in Clients, QueueInv(c), ResyncInv(c), RequestInv(c), Browser(c)
    PROVE  TypeOK'
<1>0. /\ draft[c] \in SUBSET Docs /\ touched[c] \in BOOLEAN
      /\ \A body : Acknowledged(c, body) \in SUBSET Docs
  BY DEF TypeOK, Acknowledged
<1>1. CASE Begin(c)
  BY <1>1, BeginType
<1>2. CASE Saved(c)
  <2>1. req[c].rev \in Revisions /\ jobs[c] # <<>>
    BY <1>2 DEF Saved, Running, RequestInv
  <2>2. PICK d \in SUBSET Docs, current \in BOOLEAN : Finish(c, d, current, FALSE, current)
    BY <1>0, <1>2 DEF Saved
  <2>3. QED
    BY <2>1, <2>2, FinishType
<1>3. CASE Patched(c)
  <2>1. req[c].rev \in Revisions /\ jobs[c] # <<>>
    BY <1>3 DEF Patched, Running, RequestInv
  <2>2. QED
    BY <1>0, <1>3, <2>1, FinishType DEF Patched
<1>4. CASE Undone(c)
  <2>1. req[c].rev \in Revisions /\ jobs[c] # <<>>
    BY <1>4 DEF Undone, Running, RequestInv
  <2>2. QED
    BY <1>0, <1>4, <2>1, FinishType DEF Undone
<1>5. CASE Fetched(c)
  <2>1. req[c].rev \in Revisions /\ jobs[c] # <<>>
    BY <1>5 DEF Fetched, Running, RequestInv
  <2>2. QED
    BY <1>0, <1>5, <2>1, FinishType DEF Fetched
<1>6. CASE Reread(c)
  <2>1. req' = [req EXCEPT ![c] = [req[c] EXCEPT !.stage = "asking"]]
    BY <1>6 DEF Reread, TypeOK
  <2>2. [req[c] EXCEPT !.stage = "asking"] \in Requests
    BY StageType
  <2>3. req' \in [Clients -> Requests]
    BY <2>1, <2>2 DEF TypeOK
  <2>4. QED
    BY <1>6, <2>3 DEF TypeOK, Reread
<1>7. CASE GiveUp(c)
  <2>1. jobs' \in [Clients -> Seq(Jobs)] /\ req' \in [Clients -> Requests]
    BY <1>7, StartOverType DEF GiveUp, StartOver, Running
  <2>2. losses' \in 0..MaxLosses
    BY <1>7, LimitAssumption DEF GiveUp, Lose, TypeOK
  <2>3. QED
    BY <1>7, <2>1, <2>2 DEF TypeOK, GiveUp
<1>8. CASE DirectDone(c)
  <2>1. direct[c].rev \in Revisions
    BY <1>8 DEF DirectDone, RequestInv
  <2>2. PICK saved \in BOOLEAN :
           ApplyTopology(c, direct[c].rev, Acknowledged(c, direct[c].body), FALSE, saved)
    BY <1>8 DEF DirectDone
  <2>3. /\ doc' \in [Clients -> Docs] /\ rev' \in [Clients -> Revisions]
        /\ history' \in [Clients -> Seq(Docs)] /\ future' \in [Clients -> Seq(Docs)]
        /\ dirty' \in [Clients -> BOOLEAN]
        /\ draft' \in [Clients -> SUBSET Docs] /\ recovered' \in [Clients -> SUBSET Docs]
    BY <1>0, <2>1, <2>2, ReceiveType
  <2>4. direct' \in [Clients -> Requests]
    BY <1>8 DEF TypeOK, DirectDone, NoRequest, Requests, Docs
  <2>5. strayed' \in [Clients -> SUBSET {"undo", "overtaken"}]
    BY <1>8 DEF TypeOK, DirectDone
  <2>6. QED
    BY <1>8, <2>3, <2>4, <2>5 DEF TypeOK, DirectDone, Revisions
<1>9. CASE DirectRefused(c)
  <2>1. direct' \in [Clients -> Requests]
    BY <1>9 DEF TypeOK, DirectRefused, NoRequest, Requests, Docs
  <2>2. Abandoned(direct[c]) \in SUBSET Requests
    BY DEF Abandoned, TypeOK
  <2>3. late' \in [Clients -> SUBSET Requests]
    <3>1. late' = late \/ late' = [late EXCEPT ![c] = @ \cup Abandoned(direct[c])]
      BY <1>9 DEF DirectRefused
    <3>2. late \in [Clients -> SUBSET Requests]
      BY DEF TypeOK
    <3>3. QED
      BY <2>2, <3>1, <3>2
  <2>4. losses' \in 0..MaxLosses
    BY <1>9, LimitAssumption DEF DirectRefused, Lose, TypeOK
  <2>5. QED
    BY <1>9, <2>1, <2>3, <2>4 DEF TypeOK, DirectRefused
<1>10. Asked(c) \in [Clients -> Resyncs]
  BY DEF TypeOK, Asked, Resyncs
<1>11. CASE OnOpen(c)
  BY <1>10, <1>11 DEF TypeOK, OnOpen, Resyncs
<1>12. CASE OnEvent(c)
  <2> DEFINE r == Head(channel[c])
  <2>1. r \in 1..Len(log) /\ Tail(channel[c]) \in Seq(1..Len(log))
    BY <1>12, HeadTailProperties DEF TypeOK, OnEvent
  <2>2. channel' \in [Clients -> Seq(1..Len(log))]
    BY <1>12, <2>1 DEF TypeOK, OnEvent
  <2>3. CASE r <= seen[c] /\ UNCHANGED <<seen, resync, jobs>>
    BY <1>12, <2>2, <2>3 DEF TypeOK, OnEvent
  <2>4. CASE /\ seen' = [seen EXCEPT ![c] = r]
             /\ resync' = IF r > seen[c] + 1 THEN Asked(c) ELSE resync
             /\ Enqueue(c, Job("receive", NoEdit, r))
    <3>1. Job("receive", NoEdit, r) \in Jobs
      BY <2>1 DEF Job, Jobs
    <3>2. jobs' \in [Clients -> Seq(Jobs)]
      BY <2>4, <3>1, EnqueueType
    <3>3. resync' \in [Clients -> Resyncs] /\ seen' \in [Clients -> 1..Len(log)]
      BY <1>10, <2>1, <2>4 DEF TypeOK, Resyncs
    <3>4. QED
      BY <1>12, <2>2, <3>2, <3>3 DEF TypeOK, OnEvent, Resyncs
  <2>5. QED
    BY <1>12, <2>3, <2>4 DEF OnEvent
<1>13. CASE OnResync(c)
  <2>1. Job("resync", NoEdit, resync[c].rev) \in Jobs
    BY DEF TypeOK, Job, Jobs
  <2>2. jobs' \in [Clients -> Seq(Jobs)]
    BY <1>13, <2>1, EnqueueType DEF OnResync
  <2>3. resync' \in [Clients -> Resyncs]
    BY <1>13 DEF TypeOK, OnResync, Resyncs
  <2>4. QED
    BY <1>13, <2>2, <2>3 DEF TypeOK, OnResync, Resyncs
<1>14. CASE Receive(c)
  <2>1. jobs[c] # <<>> /\ Head(jobs[c]).rev \in Revisions
    BY <1>14, HeadJob DEF Receive, Running
  <2>2. /\ doc' \in [Clients -> Docs] /\ rev' \in [Clients -> Revisions]
        /\ history' \in [Clients -> Seq(Docs)] /\ future' \in [Clients -> Seq(Docs)]
        /\ dirty' \in [Clients -> BOOLEAN]
        /\ draft' \in [Clients -> SUBSET Docs] /\ recovered' \in [Clients -> SUBSET Docs]
    BY <1>0, <1>14, <2>1, ReceiveType DEF Receive
  <2>3. jobs' \in [Clients -> Seq(Jobs)]
    BY <1>14, <2>1, StartOverType DEF Receive
  <2>4. resync' \in [Clients -> Resyncs]
    BY <1>14 DEF TypeOK, Receive, Resyncs
  <2>5. strayed' \in [Clients -> SUBSET {"undo", "overtaken"}]
    BY <1>14 DEF TypeOK, Receive, Settle
  <2>6. QED
    BY <1>14, <2>2, <2>3, <2>4, <2>5 DEF TypeOK, Receive, Revisions, Resyncs
<1>15. QED
  BY <1>1, <1>2, <1>3, <1>4, <1>5, <1>6, <1>7, <1>8, <1>9, <1>11, <1>12, <1>13, <1>14 DEF Browser

\* Every step keeps the types.
LEMMA TypeNext ==
    ASSUME IInv, [Next]_vars
    PROVE  TypeOK'
<1>1. CASE UNCHANGED vars
  BY <1>1 DEF IInv, TypeOK, vars
<1>2. ASSUME NEW c \in Clients, User(c) \/ Flush(c) \/ Browser(c) PROVE TypeOK'
  BY <1>2, UserType, BrowserType DEF IInv, ClientInv
<1>3. QED
  BY <1>1, <1>2, ServerType, LossType DEF Next, IInv

-----------------------------------------------------------------------------
(* A step of somebody else.                                                 *)

\* Nothing of a client changes but what it has received.
Same(c) ==
    /\ doc'[c] = doc[c] /\ rev'[c] = rev[c] /\ dirty'[c] = dirty[c] /\ touched'[c] = touched[c]
    /\ draft'[c] = draft[c] /\ recovered'[c] = recovered[c] /\ jobs'[c] = jobs[c]
    /\ req'[c] = req[c] /\ direct'[c] = direct[c] /\ late'[c] = late[c] /\ strayed'[c] = strayed[c]

\* The server stores at most one write more, and a client keeps what it has.
LEMMA OthersClient ==
    ASSUME TypeOK, LogStep, NEW c \in Clients, ClientInv(c), Same(c),
           resync'[c] = resync[c] \/ ResyncInv(c)'
    PROVE  ClientInv(c)'
<1>0. Revisions \subseteq Revisions' /\ \A n \in Revisions : log'[n] = log[n]
  BY DEF LogStep, Revisions
<1>1. QueueInv(c)'
  BY <1>0 DEF ClientInv, QueueInv, Same, HeadIs
<1>2. ResyncInv(c)'
  BY <1>0 DEF ClientInv, ResyncInv
<1>3. RequestInv(c)'
  BY <1>0 DEF ClientInv, RequestInv, Same
<1>4. DraftInv(c)'
  BY DEF ClientInv, DraftInv, Same
<1>5. MayCount(req[c])' => MayCount(req[c])
  BY DEF ClientInv, RequestInv, MayCount, Same, LogStep, Revisions, TypeOK, Requests
<1>6. rev[c] \in Revisions
  BY DEF TypeOK, Revisions
<1>7. BaseInv(c)'
  BY <1>0, <1>5, <1>6 DEF ClientInv, BaseInv, RequestInv, Same, HeadIs
<1>8. CleanInv(c)'
  BY <1>0, <1>5, <1>6 DEF ClientInv, CleanInv, Same, HeadIs
<1>9. QED
  BY <1>1, <1>2, <1>3, <1>4, <1>7, <1>8 DEF ClientInv

\* What is persisted stays persisted.
LEMMA PersistedGrows ==
    ASSUME LogStep
    PROVE  Persisted \subseteq Persisted'
BY DEF LogStep, Persisted, Revisions

\* An edit is kept as long as its client keeps it.
LEMMA OthersEdit ==
    ASSUME LogStep, NEW e \in committed, EditInv(e),
           Same(Owner[e])
    PROVE  EditInv(e)'
BY PersistedGrows DEF EditInv, Same

\* What a client's own step has to keep; the others are as they were.
LEMMA ClientStep ==
    ASSUME IInv, TypeOK', LogStep, NEW c \in Clients, ClientInv(c)',
           \A b \in Clients \ {c} : Same(b) /\ resync'[b] = resync[b],
           \A e \in committed' : Owner[e] # c => e \in committed,
           \A e \in committed' : Owner[e] = c => EditInv(e)'
    PROVE  IInv'
<1>1. ASSUME NEW b \in Clients PROVE ClientInv(b)'
  <2>1. CASE b = c
    BY <2>1
  <2>2. CASE b # c
    BY <2>2, OthersClient DEF IInv
  <2>3. QED
    BY <2>1, <2>2
<1>2. ASSUME NEW e \in committed' PROVE EditInv(e)'
  <2>1. CASE Owner[e] = c
    BY <2>1
  <2>2. CASE Owner[e] # c
    <3>1. e \in committed /\ e \in Edits
      BY <2>2 DEF IInv, TypeOK
    <3>2. Owner[e] \in Clients \ {c}
      BY <2>2, <3>1, OwnerAssumption
    <3>3. QED
      BY <3>1, <3>2, OthersEdit DEF IInv
  <2>3. QED
    BY <2>1, <2>2
<1>3. QED
  BY <1>1, <1>2 DEF IInv

\* Nothing that counts happens but at the server's other end.
LEMMA NobodyStep ==
    ASSUME IInv, TypeOK', LogStep, UNCHANGED committed,
           \A b \in Clients : Same(b) /\ (resync'[b] = resync[b] \/ ResyncInv(b)')
    PROVE  IInv'
<1>1. ASSUME NEW b \in Clients PROVE ClientInv(b)'
  BY OthersClient DEF IInv
<1>2. ASSUME NEW e \in committed' PROVE EditInv(e)'
  <2>1. e \in committed /\ Owner[e] \in Clients
    BY OwnerAssumption DEF IInv, TypeOK
  <2>2. QED
    BY <2>1, OthersEdit DEF IInv
<1>3. QED
  BY <1>1, <1>2 DEF IInv

-----------------------------------------------------------------------------
(* A snapshot arrives at a client.                                          *)

\* It leaves what is on screen, ...
Passed(c, d, saved) ==
    /\ doc'[c] = doc[c] /\ rev'[c] = rev[c]
    /\ draft'[c] = d /\ recovered'[c] = recovered[c]
    /\ dirty'[c] = (dirty[c] /\ ~saved)

\* ... or only its revision counts, ...
Advanced(c, r) ==
    /\ doc'[c] = doc[c] /\ rev'[c] = r
    /\ draft'[c] = {doc[c]} /\ recovered'[c] = recovered[c]
    /\ dirty'[c] = dirty[c]

\* ... or it replaces what is on screen.
Shown(c, r, d, saved) ==
    /\ doc'[c] = log[r] /\ rev'[c] = r
    /\ draft'[c] = {} /\ recovered'[c] = recovered[c] \cup (d \ {log[r]})
    /\ dirty'[c] = (dirty[c] /\ d = {} /\ ~saved)

ViewSame(b) ==
    /\ doc'[b] = doc[b] /\ rev'[b] = rev[b] /\ dirty'[b] = dirty[b]
    /\ draft'[b] = draft[b] /\ recovered'[b] = recovered[b]

\* applyTopology replaces what its client shows.
LEMMA ApplyView ==
    ASSUME TypeOK, NEW c \in Clients, NEW r, NEW d, NEW remember, NEW saved \in BOOLEAN,
           ApplyTopology(c, r, d, remember, saved)
    PROVE  Shown(c, r, d, saved) /\ \A b \in Clients \ {c} : ViewSame(b)
BY DEF TypeOK, ApplyTopology, Displaced, Shown, ViewSame

\* receiveTopology does one of the three.
LEMMA ReceiveView ==
    ASSUME TypeOK, NEW c \in Clients, NEW r, NEW d, NEW current \in BOOLEAN, NEW remember,
           NEW saved \in BOOLEAN, ReceiveTopology(c, r, d, current, remember, saved)
    PROVE  /\ \/ Passed(c, d, saved) /\ (Older(c, r) \/ (current /\ Kept(c, r, d)))
              \/ Advanced(c, r) /\ ~Older(c, r) /\ ~current
              \/ Shown(c, r, d, saved) /\ ~Older(c, r)
           /\ \A b \in Clients \ {c} : ViewSame(b)
<1>1. CASE Older(c, r)
  BY <1>1 DEF TypeOK, ReceiveTopology, Passed, ViewSame
<1>2. CASE ~Older(c, r) /\ ~current
  BY <1>2 DEF TypeOK, ReceiveTopology, Advanced, ViewSame
<1>3. CASE ~Older(c, r) /\ current /\ Kept(c, r, d)
  BY <1>3 DEF TypeOK, ReceiveTopology, Passed, ViewSame
<1>4. CASE ~Older(c, r) /\ current /\ ~Kept(c, r, d)
  BY <1>4, ApplyView DEF ReceiveTopology
<1>5. QED
  BY <1>1, <1>2, <1>3, <1>4

\* The draft, or what an acknowledgement of a stored document leaves of it.
Pending(c, d) == d = draft[c] \/ \E n \in Revisions : d = draft[c] \ {log[n]}

\* Whatever a snapshot does, an edit is saved, displaced into a recovery copy, or
\* still on screen in the draft of an unsaved map.
LEMMA ViewEdit ==
    ASSUME TypeOK, NEW c \in Clients, NEW r \in Revisions, NEW d, NEW saved \in BOOLEAN,
           Pending(c, d), UNCHANGED log,
           Passed(c, d, FALSE) \/ Advanced(c, r) \/ Shown(c, r, d, saved),
           NEW e \in committed, Owner[e] = c, EditInv(e)
    PROVE  EditInv(e)'
<1>1. Persisted' = Persisted /\ \A n \in Revisions : log[n] \subseteq Persisted
  BY DEF Persisted, Revisions
<1>2. recovered[c] \subseteq recovered'[c]
  BY DEF Passed, Advanced, Shown
<1>3. CASE e \in Persisted \/ e \in UNION recovered[c]
  BY <1>1, <1>2, <1>3 DEF EditInv
<1>4. CASE e \notin Persisted /\ dirty[c] /\ draft[c] = {doc[c]} /\ e \in doc[c]
  <2>1. d = {doc[c]}
    BY <1>1, <1>4 DEF Pending
  <2>2. CASE Passed(c, d, FALSE)
    BY <1>4, <2>1, <2>2 DEF EditInv, Passed
  <2>3. CASE Advanced(c, r)
    BY <1>4, <2>3 DEF EditInv, Advanced
  <2>4. CASE Shown(c, r, d, saved)
    <3>1. doc[c] # log[r]
      BY <1>1, <1>4
    <3>2. doc[c] \in recovered'[c]
      BY <2>1, <2>4, <3>1 DEF Shown
    <3>3. QED
      BY <1>4, <3>2 DEF EditInv
  <2>5. QED
    BY <2>2, <2>3, <2>4
<1>5. QED
  BY <1>3, <1>4 DEF EditInv

\* The job at the head ends: no save is left, and the rest waits as it did.
LEMMA NextJob ==
    ASSUME TypeOK, NEW c \in Clients, QueueInv(c), jobs[c] # <<>>, UNCHANGED log,
           jobs'[c] = Tail(jobs[c]), req'[c].stage = "idle"
    PROVE  QueueInv(c)' /\ ~HeadIs(c, {"save"})'
<1>1. jobs[c] \in Seq(Jobs)
  BY DEF TypeOK
<1>2. /\ Tail(jobs[c]) \in Seq(Jobs) /\ Len(Tail(jobs[c])) = Len(jobs[c]) - 1
      /\ \A i \in 1..Len(Tail(jobs[c])) : Tail(jobs[c])[i] = jobs[c][i + 1]
      /\ Len(jobs[c]) \in Nat
  BY <1>1, HeadTailProperties, LenProperties
<1>3. \A i \in 1..Len(jobs'[c]) : jobs'[c][i] = jobs[c][i + 1] /\ i + 1 \in 2..Len(jobs[c])
  BY <1>2
<1>4. \A i \in 1..Len(jobs'[c]) : jobs'[c][i].kind # "save"
  BY <1>3 DEF QueueInv
<1>5. jobs'[c] # <<>> => Head(jobs'[c]) = jobs'[c][1] /\ 1 \in 1..Len(jobs'[c])
  BY <1>2, EmptySeq
<1>6. ~HeadIs(c, {"save"})'
  BY <1>4, <1>5 DEF HeadIs
<1>7. Revisions' = Revisions
  BY DEF Revisions
<1>8. QED
  BY <1>2, <1>3, <1>4, <1>6, <1>7 DEF QueueInv

\* The answer of a job, or a snapshot that waited for it.
LEMMA SnapshotStep ==
    ASSUME IInv, TypeOK', NEW c \in Clients, NEW r \in Revisions, NEW d, Pending(c, d),
           NEW current \in BOOLEAN, NEW remember \in BOOLEAN, NEW saved \in BOOLEAN,
           ReceiveTopology(c, r, d, current, remember, saved),
           saved => rev[c] < r,
           ~current => HeadIs(c, {"save"}) /\ req[c].stage = "done" /\ r = req[c].rev /\ touched[c],
           Settle(c), jobs[c] # <<>>, jobs' = [jobs EXCEPT ![c] = Tail(@)],
           req'[c].stage = "idle", \A b \in Clients \ {c} : req'[b] = req[b],
           ResyncInv(c)', \A b \in Clients \ {c} : resync'[b] = resync[b],
           UNCHANGED <<log, late, touched, direct, committed>>
    PROVE  IInv'
<1>0. TypeOK /\ ClientInv(c)
  BY DEF IInv
<1>1. LogStep /\ Revisions' = Revisions
  BY <1>0, NoSave DEF TypeOK, Revisions
<1>2. /\ Passed(c, d, FALSE) \/ (Advanced(c, r) /\ ~current) \/ Shown(c, r, d, saved)
      /\ \A b \in Clients \ {c} : ViewSame(b)
  <2>1. /\ \/ Passed(c, d, saved) /\ (Older(c, r) \/ (current /\ Kept(c, r, d)))
           \/ Advanced(c, r) /\ ~Older(c, r) /\ ~current
           \/ Shown(c, r, d, saved) /\ ~Older(c, r)
        /\ \A b \in Clients \ {c} : ViewSame(b)
    BY <1>0, ReceiveView
  <2>2. saved => ~Older(c, r) /\ ~Kept(c, r, d)
    BY <1>0 DEF Older, Kept, TypeOK, Revisions
  <2>3. CASE saved
    BY <2>1, <2>2, <2>3
  <2>4. CASE saved = FALSE
    <3>1. ASSUME Passed(c, d, saved) PROVE Passed(c, d, FALSE)
      BY <2>4, <3>1
    <3>2. QED
      BY <2>1, <3>1
  <2>5. QED
    BY <2>3, <2>4
<1>3. d \subseteq {doc[c]}
  BY <1>0 DEF Pending, ClientInv, DraftInv
<1>4. jobs'[c] = Tail(jobs[c]) /\ \A b \in Clients \ {c} : jobs'[b] = jobs[b]
  BY <1>0 DEF TypeOK
<1>5. QueueInv(c)' /\ ~HeadIs(c, {"save"})'
  BY <1>0, <1>4, NextJob DEF ClientInv
<1>6. RequestInv(c)'
  BY <1>0, <1>1 DEF ClientInv, RequestInv
<1>7. DraftInv(c)'
  BY <1>2, <1>3 DEF DraftInv, Passed, Advanced, Shown
<1>8. strayed'[c] = IF doc'[c] = log[rev'[c]] /\ direct[c].stage # "sent" /\ late[c] = {}
                    THEN {} ELSE strayed[c]
  BY <1>0 DEF Settle, TypeOK
<1>9. BaseInv(c)'
  <2>1. CASE doc'[c] = log[rev'[c]] /\ direct[c].stage # "sent" /\ late[c] = {}
    BY <1>5, <2>1 DEF BaseInv
  <2>2. CASE strayed[c] = {}
    <3>1. log[rev'[c]] \subseteq doc'[c]
      <4>1. CASE Passed(c, d, FALSE)
        BY <1>0, <2>2, <4>1 DEF ClientInv, BaseInv, Passed
      <4>2. CASE Advanced(c, r) /\ ~current
        BY <1>0, <2>2, <4>2 DEF ClientInv, BaseInv, RequestInv, MayCount, Advanced
      <4>3. CASE Shown(c, r, d, saved)
        BY <4>3 DEF Shown
      <4>4. QED
        BY <1>2, <4>1, <4>2, <4>3
    <3>2. QED
      BY <1>0, <1>5, <2>2, <3>1 DEF ClientInv, BaseInv
  <2>3. QED
    BY <1>8, <2>1, <2>2 DEF BaseInv
<1>10. CleanInv(c)'
  <2>1. "overtaken" \notin strayed'[c] /\ ~dirty'[c] => doc'[c] = log[rev'[c]]
    <3>1. CASE Passed(c, d, FALSE)
      BY <1>0, <1>8, <3>1 DEF ClientInv, CleanInv, Passed
    <3>2. CASE Advanced(c, r) /\ ~current
      BY <1>0, <1>8, <3>2 DEF ClientInv, CleanInv, MayCount, Advanced
    <3>3. CASE Shown(c, r, d, saved)
      BY <3>3 DEF Shown
    <3>4. QED
      BY <1>2, <3>1, <3>2, <3>3
  <2>2. QED
    BY <1>5, <2>1 DEF CleanInv
<1>11. \A b \in Clients \ {c} : Same(b)
  BY <1>0, <1>2, <1>4 DEF Same, ViewSame, Settle, TypeOK
<1>12. \A e \in committed' : Owner[e] = c => EditInv(e)'
  BY <1>0, <1>2, ViewEdit DEF IInv
<1>13. QED
  BY <1>1, <1>5, <1>6, <1>7, <1>9, <1>10, <1>11, <1>12, ClientStep DEF ClientInv

-----------------------------------------------------------------------------
(* Every action keeps the invariant.                                        *)

\* What an action leaves alone of the others.
LEMMA SettleSame ==
    ASSUME NEW c \in Clients, Settle(c)
    PROVE  \A b \in Clients \ {c} : strayed'[b] = strayed[b]
BY DEF Settle

\* A job that joins the queue.
LEMMA EnqueueStep ==
    ASSUME IInv, TypeOK', NEW c \in Clients, NEW job \in Jobs, Enqueue(c, job),
           job.kind \in {"receive", "resync"} => job.rev \in Revisions,
           job.kind = "patch" => job.edit \in Edits,
           job.kind = "save" => jobs[c] = <<>> /\ ~touched'[c],
           touched'[c] = touched[c] \/ jobs[c] = <<>>,
           \A b \in Clients \ {c} : touched'[b] = touched[b] /\ resync'[b] = resync[b],
           ResyncInv(c)',
           UNCHANGED <<log, late, doc, rev, dirty, draft, recovered, req, direct, committed, strayed>>
    PROVE  IInv'
<1>0. TypeOK /\ ClientInv(c)
  BY DEF IInv
<1>1. LogStep /\ Revisions' = Revisions /\ Persisted' = Persisted
  BY <1>0, NoSave DEF TypeOK, Revisions, Persisted
<1>2. jobs'[c] = Append(jobs[c], job) /\ \A b \in Clients \ {c} : jobs'[b] = jobs[b]
  BY <1>0 DEF Enqueue, TypeOK
<1>3. /\ jobs[c] \in Seq(Jobs) /\ Len(jobs[c]) \in Nat /\ Len(jobs'[c]) = Len(jobs[c]) + 1
      /\ jobs'[c][Len(jobs[c]) + 1] = job /\ \A i \in 1..Len(jobs[c]) : jobs'[c][i] = jobs[c][i]
  BY <1>0, <1>2, Appended, LenProperties DEF TypeOK
<1>4. jobs'[c] # <<>> /\ Head(jobs'[c]) = jobs'[c][1]
  <2>1. jobs'[c] \in Seq(Jobs)
    BY DEF TypeOK
  <2>2. jobs'[c] # <<>>
    BY <1>3, <2>1, EmptySeq
  <2>3. QED
    BY <2>1, <2>2, HeadTailProperties
<1>5. /\ jobs[c] # <<>> => Head(jobs'[c]) = Head(jobs[c])
      /\ jobs[c] = <<>> => Head(jobs'[c]) = job
  BY <1>3, <1>4, EmptySeq, HeadTailProperties
<1>6. QueueInv(c)'
  <2>1. \A i \in 2..Len(jobs'[c]) : jobs'[c][i].kind # "save"
    BY <1>0, <1>3, EmptySeq DEF ClientInv, QueueInv
  <2>2. \A i \in 1..Len(jobs'[c]) :
           /\ jobs'[c][i].kind \in {"receive", "resync"} => jobs'[c][i].rev \in Revisions'
           /\ jobs'[c][i].kind = "patch" => jobs'[c][i].edit \in Edits
    BY <1>0, <1>1, <1>3 DEF ClientInv, QueueInv
  <2>3. req[c].stage # "idle" => Head(jobs'[c]).kind \notin {"receive", "resync"}
    BY <1>0, <1>5 DEF ClientInv, QueueInv
  <2>4. HeadIs(c, {"save"})' /\ req[c].stage = "idle" => ~touched'[c]
    BY <1>0, <1>5 DEF ClientInv, QueueInv, HeadIs
  <2>5. QED
    BY <1>4, <2>1, <2>2, <2>3, <2>4 DEF QueueInv
<1>7. RequestInv(c)' /\ DraftInv(c)'
  BY <1>0, <1>1 DEF ClientInv, RequestInv, DraftInv
<1>8. /\ MayCount(req[c])' <=> MayCount(req[c])
      /\ MayCount(req[c]) => jobs[c] # <<>>
      /\ MayCount(req[c]) => (HeadIs(c, {"save"})' <=> HeadIs(c, {"save"}))
  BY <1>0, <1>4, <1>5 DEF MayCount, ClientInv, QueueInv, HeadIs
<1>9. BaseInv(c)'
  BY <1>0, <1>8 DEF ClientInv, BaseInv
<1>10. CleanInv(c)'
  BY <1>0, <1>8 DEF ClientInv, CleanInv
<1>11. \A b \in Clients \ {c} : Same(b)
  BY <1>2 DEF Same
<1>12. \A e \in committed' : EditInv(e)'
  BY <1>1 DEF IInv, EditInv
<1>13. QED
  BY <1>1, <1>6, <1>7, <1>9, <1>10, <1>11, <1>12, ClientStep DEF ClientInv

\* What users do, and the saves that the timer starts.
LEMMA UserInv ==
    ASSUME IInv, TypeOK', NEW c \in Clients, User(c) \/ Flush(c)
    PROVE  IInv'
<1>0. TypeOK /\ ClientInv(c) /\ log \in Seq(Docs)
  BY DEF IInv, TypeOK
<1>1. ASSUME NEW e \in Edits, Commit(c, e) PROVE IInv'
  <2>1. LogStep /\ Revisions' = Revisions /\ Persisted' = Persisted
    BY <1>0, <1>1, NoSave DEF Commit, Revisions, Persisted
  <2>2. /\ doc'[c] = doc[c] \cup {e} /\ draft'[c] = {doc'[c]} /\ dirty'[c] = TRUE
        /\ recovered' = recovered /\ rev' = rev
        /\ \A b \in Clients \ {c} : /\ doc'[b] = doc[b] /\ draft'[b] = draft[b]
                                    /\ dirty'[b] = dirty[b] /\ touched'[b] = touched[b]
    BY <1>0, <1>1 DEF Commit, TypeOK
  <2>3. QueueInv(c)'
    BY <1>0, <1>1, <2>1 DEF Commit, ClientInv, QueueInv, Ready, HeadIs
  <2>4. ResyncInv(c)' /\ RequestInv(c)' /\ DraftInv(c)'
    BY <1>0, <1>1, <2>1, <2>2 DEF Commit, ClientInv, ResyncInv, RequestInv, DraftInv
  <2>5. BaseInv(c)' /\ CleanInv(c)'
    BY <1>0, <1>1, <2>2 DEF Commit, ClientInv, BaseInv, CleanInv, HeadIs, MayCount
  <2>6. \A b \in Clients \ {c} : Same(b) /\ resync'[b] = resync[b]
    BY <1>1, <2>2 DEF Commit, Same
  <2>7. ASSUME NEW g \in committed', Owner[g] = c PROVE EditInv(g)'
    <3>1. CASE g = e
      BY <1>1, <2>2, <3>1 DEF Commit, EditInv
    <3>2. CASE g # e
      <4>1. g \in committed /\ EditInv(g)
        BY <1>1, <3>2 DEF Commit, IInv
      <4>2. QED
        BY <2>1, <2>2, <2>7, <4>1 DEF EditInv
    <3>3. QED
      BY <3>1, <3>2
  <2>8. \A g \in committed' : Owner[g] # c => g \in committed
    BY <1>1 DEF Commit
  <2>9. QED
    BY <2>1, <2>3, <2>4, <2>5, <2>6, <2>7, <2>8, ClientStep DEF ClientInv
<1>2. ASSUME NEW e \in Edits, Patch(c, e) PROVE IInv'
  <2>1. Job("patch", e, 0) \in Jobs /\ Job("patch", e, 0).kind = "patch" /\ Job("patch", e, 0).edit = e
    BY DEF Job, Jobs
  <2>2. ResyncInv(c)'
    BY <1>0, <1>2 DEF Patch, ClientInv, ResyncInv, Revisions
  <2>3. QED
    BY <1>2, <2>1, <2>2, EnqueueStep DEF Patch
<1>3. ASSUME NEW e \in Edits, SendDirect(c, e) PROVE IInv'
  <2>1. LogStep /\ Revisions' = Revisions /\ Persisted' = Persisted
    BY <1>0, <1>3, NoSave DEF SendDirect, Revisions, Persisted
  <2>2. PICK body \in {log[rev[c]] \cup {e}, doc[c] \cup {e}} :
           direct' = [direct EXCEPT ![c] =
                         [stage |-> "sent", base |-> rev[c], body |-> body, rev |-> 0]]
    BY <1>3 DEF SendDirect
  <2>3. /\ direct'[c].stage = "sent" /\ direct'[c].base = rev[c] /\ direct'[c].body = body
        /\ \A b \in Clients \ {c} : direct'[b] = direct[b]
    BY <1>0, <2>2 DEF TypeOK
  <2>4. rev[c] \in Revisions
    BY <1>0 DEF TypeOK, Revisions
  <2>5. QueueInv(c)' /\ ResyncInv(c)' /\ DraftInv(c)'
    BY <1>0, <1>3, <2>1 DEF SendDirect, ClientInv, QueueInv, ResyncInv, DraftInv, HeadIs
  <2>6. RequestInv(c)'
    BY <1>0, <1>3, <2>1, <2>3, <2>4 DEF SendDirect, ClientInv, RequestInv
  <2>7. BaseInv(c)' /\ CleanInv(c)'
    BY <1>0, <1>3, <2>2, <2>3 DEF SendDirect, ClientInv, BaseInv, CleanInv, HeadIs, MayCount
  <2>8. \A b \in Clients \ {c} : Same(b) /\ resync'[b] = resync[b]
    BY <1>3, <2>3 DEF SendDirect, Same
  <2>9. \A g \in committed' : g \in committed /\ EditInv(g)'
    BY <1>3, <2>1 DEF SendDirect, IInv, EditInv
  <2>10. QED
    BY <2>1, <2>5, <2>6, <2>7, <2>8, <2>9, ClientStep DEF ClientInv
<1>4. ASSUME NEW kind \in Clicks, Undo(c, kind) PROVE IInv'
  <2>1. Job(kind, NoEdit, 0) \in Jobs /\ Job(kind, NoEdit, 0).kind \in {"undo", "redo"}
    BY <1>4 DEF Undo, Job, Jobs
  <2>2. ResyncInv(c)'
    BY <1>0, <1>4 DEF Undo, ClientInv, ResyncInv, Revisions
  <2>3. QED
    BY <1>4, <2>1, <2>2, EnqueueStep DEF Undo
<1>5. ASSUME StartSave(c) PROVE IInv'
  <2>1. Job("save", NoEdit, 0) \in Jobs /\ Job("save", NoEdit, 0).kind = "save"
    BY DEF Job, Jobs
  <2>2. ResyncInv(c)'
    BY <1>0, <1>5 DEF StartSave, ClientInv, ResyncInv, Revisions
  <2>3. ~touched'[c] /\ \A b \in Clients \ {c} : touched'[b] = touched[b]
    BY <1>0, <1>5 DEF StartSave, TypeOK
  <2>4. QED
    BY <1>5, <2>1, <2>2, <2>3, EnqueueStep DEF StartSave
<1>6. QED
  BY <1>1, <1>2, <1>3, <1>4, <1>5 DEF User, SaveNow, Flush

\* The request of the write at the head starts, or ends with the job: all that
\* makes of it is what the client shows.
LEMMA BeginInv ==
    ASSUME IInv, TypeOK', NEW c \in Clients, Begin(c)
    PROVE  IInv'
<1>0. TypeOK /\ ClientInv(c) /\ log \in Seq(Docs) /\ rev[c] \in Revisions
  BY DEF IInv, TypeOK, Revisions
<1>1. LogStep /\ Revisions' = Revisions /\ Persisted' = Persisted
  BY <1>0, NoSave DEF Begin, Revisions, Persisted
<1>2. ASSUME NEW body, Send(c, body)
      PROVE  /\ req'[c].stage = "sent" /\ req'[c].base = rev[c] /\ req'[c].body = body
             /\ \A b \in Clients \ {c} : req'[b] = req[b]
  BY <1>0, <1>2 DEF Send, TypeOK
<1>3. ResyncInv(c)'
  BY <1>0, <1>1 DEF Begin, ClientInv, ResyncInv
<1>4. CASE BeginSave(c)
  <2>1. /\ req'[c].stage = "sent" /\ req'[c].base = rev[c] /\ req'[c].body = doc[c]
        /\ \A b \in Clients \ {c} : req'[b] = req[b]
    BY <1>2, <1>4 DEF BeginSave
  <2>2. HeadIs(c, {"save"}) /\ jobs[c] # <<>> /\ ~touched[c]
    BY <1>0, <1>4 DEF BeginSave, Running, HeadIs, ClientInv, QueueInv
  <2>3. QueueInv(c)'
    BY <1>0, <1>1, <1>4, <2>1, <2>2 DEF BeginSave, ClientInv, QueueInv, HeadIs
  <2>4. RequestInv(c)' /\ DraftInv(c)'
    BY <1>0, <1>1, <1>4, <2>1 DEF Begin, BeginSave, ClientInv, RequestInv, DraftInv
  <2>5. BaseInv(c)' /\ CleanInv(c)'
    <3>1. BaseInv(c)'
      BY <1>0, <1>4, <2>1, <2>2 DEF Begin, BeginSave, ClientInv, BaseInv
    <3>2. CleanInv(c)'
      BY <1>0, <1>4, <2>1, <2>2 DEF Begin, BeginSave, ClientInv, CleanInv, Revisions
    <3>3. QED
      BY <3>1, <3>2
  <2>6. \A b \in Clients \ {c} : Same(b) /\ resync'[b] = resync[b]
    BY <1>4, <2>1 DEF Begin, BeginSave, Same
  <2>7. \A e \in committed' : e \in committed /\ EditInv(e)'
    BY <1>1, <1>4 DEF Begin, BeginSave, IInv, EditInv
  <2>8. QED
    BY <1>1, <1>3, <2>3, <2>4, <2>5, <2>6, <2>7, ClientStep DEF ClientInv
<1>5. CASE BeginPatch(c)
  <2>1. /\ req'[c].stage = "sent" /\ req'[c].base = rev[c]
        /\ log[rev[c]] \subseteq req'[c].body
        /\ \A b \in Clients \ {c} : req'[b] = req[b]
    BY <1>2, <1>5 DEF BeginPatch
  <2>2. jobs[c] # <<>> /\ Head(jobs[c]).kind = "patch"
    BY <1>5 DEF BeginPatch, Running
  <2>3. /\ dirty'[c] = TRUE /\ touched'[c] = TRUE
        /\ \A b \in Clients \ {c} : dirty'[b] = dirty[b] /\ touched'[b] = touched[b]
    BY <1>0, <1>5 DEF BeginPatch, TypeOK
  <2>4. QueueInv(c)'
    BY <1>0, <1>1, <1>5, <2>1, <2>2 DEF BeginPatch, ClientInv, QueueInv, HeadIs
  <2>5. RequestInv(c)' /\ DraftInv(c)'
    BY <1>0, <1>1, <1>5, <2>1 DEF Begin, BeginPatch, ClientInv, RequestInv, DraftInv
  <2>6. BaseInv(c)' /\ CleanInv(c)'
    <3>1. BaseInv(c)'
      BY <1>0, <1>5, <2>1, <2>2 DEF Begin, BeginPatch, ClientInv, BaseInv, HeadIs
    <3>2. CleanInv(c)'
      BY <1>0, <1>5, <2>1, <2>2, <2>3 DEF Begin, BeginPatch, ClientInv, CleanInv, HeadIs, Revisions
    <3>3. QED
      BY <3>1, <3>2
  <2>7. \A b \in Clients \ {c} : Same(b) /\ resync'[b] = resync[b]
    BY <1>5, <2>1, <2>3 DEF Begin, BeginPatch, Same
  <2>8. \A e \in committed' : e \in committed /\ (Owner[e] = c => EditInv(e)')
    BY <1>1, <1>5, <2>3 DEF Begin, BeginPatch, IInv, EditInv
  <2>9. QED
    BY <1>1, <1>3, <2>4, <2>5, <2>6, <2>7, <2>8, ClientStep DEF ClientInv
<1>6. CASE BeginUndo(c)
  <2>1. CASE StartOver(c) /\ UNCHANGED <<viewVars, dirty, touched, draft, committed, strayed>>
             /\ jobs[c] # <<>>
    <3>1. /\ jobs'[c] = Tail(jobs[c]) /\ req'[c].stage = "idle"
          /\ \A b \in Clients \ {c} : jobs'[b] = jobs[b] /\ req'[b] = req[b]
      BY <1>0, <2>1 DEF StartOver, NoRequest, TypeOK
    <3>2. QueueInv(c)' /\ ~HeadIs(c, {"save"})'
      BY <1>0, <2>1, <3>1, NextJob DEF Begin, ClientInv
    <3>3. RequestInv(c)' /\ DraftInv(c)'
      BY <1>0, <1>1, <2>1, <3>1 DEF Begin, ClientInv, RequestInv, DraftInv
    <3>4. BaseInv(c)' /\ CleanInv(c)'
      BY <1>0, <2>1, <3>1, <3>2 DEF Begin, ClientInv, BaseInv, CleanInv
    <3>5. \A b \in Clients \ {c} : Same(b) /\ resync'[b] = resync[b]
      BY <2>1, <3>1 DEF Begin, Same
    <3>6. \A e \in committed' : e \in committed /\ EditInv(e)'
      BY <1>1, <2>1 DEF Begin, IInv, EditInv
    <3>7. QED
      BY <1>1, <1>3, <3>2, <3>3, <3>4, <3>5, <3>6, ClientStep DEF ClientInv
  <2>2. ASSUME NEW restored,
               doc' = [doc EXCEPT ![c] = restored], draft' = [draft EXCEPT ![c] = {restored}],
               dirty' = [dirty EXCEPT ![c] = TRUE], touched' = [touched EXCEPT ![c] = TRUE],
               Send(c, restored),
               committed' = {e \in committed : Owner[e] = c => e \in restored},
               strayed' = [strayed EXCEPT ![c] = @ \cup {"undo"}],
               UNCHANGED <<rev, jobs>>,
               jobs[c] # <<>>, Head(jobs[c]).kind \in {"undo", "redo"}
        PROVE  IInv'
    <3>1. /\ req'[c].stage = "sent" /\ req'[c].base = rev[c] /\ req'[c].body = restored
          /\ \A b \in Clients \ {c} : req'[b] = req[b]
      BY <1>2, <2>2
    <3>2. /\ doc'[c] = restored /\ draft'[c] = {restored} /\ dirty'[c] = TRUE
          /\ strayed'[c] = strayed[c] \cup {"undo"}
          /\ \A b \in Clients \ {c} : /\ doc'[b] = doc[b] /\ draft'[b] = draft[b]
                                      /\ dirty'[b] = dirty[b] /\ touched'[b] = touched[b]
                                      /\ strayed'[b] = strayed[b]
      BY <1>0, <2>2 DEF TypeOK
    <3>3. QueueInv(c)'
      BY <1>0, <1>1, <2>2, <3>1 DEF ClientInv, QueueInv, HeadIs
    <3>4. RequestInv(c)' /\ DraftInv(c)'
      BY <1>0, <1>1, <2>2, <3>1, <3>2 DEF Begin, ClientInv, RequestInv, DraftInv
    <3>5. BaseInv(c)' /\ CleanInv(c)'
      <4>1. BaseInv(c)'
        BY <3>2 DEF BaseInv
      <4>2. CleanInv(c)'
        BY <1>0, <2>2, <3>1, <3>2 DEF CleanInv, HeadIs, Revisions
      <4>3. QED
        BY <4>1, <4>2
    <3>6. \A b \in Clients \ {c} : Same(b) /\ resync'[b] = resync[b]
      BY <2>2, <3>1, <3>2 DEF Begin, Same
    <3>7. \A e \in committed' : e \in committed /\ (Owner[e] = c => EditInv(e)')
      BY <2>2, <3>2 DEF EditInv
    <3>8. QED
      BY <1>1, <1>3, <3>3, <3>4, <3>5, <3>6, <3>7, ClientStep DEF ClientInv
  <2>3. ASSUME Restore(c, history, future), Running(c, {"undo"}, "idle") PROVE IInv'
    BY <2>2, <2>3 DEF Restore, Running
  <2>4. ASSUME Restore(c, future, history), Running(c, {"redo"}, "idle") PROVE IInv'
    BY <2>2, <2>4 DEF Restore, Running
  <2>5. QED
    BY <1>6, <2>1, <2>3, <2>4 DEF BeginUndo, Running
<1>7. QED
  BY <1>4, <1>5, <1>6 DEF Begin

\* What an answer leaves of a request, when the write is stored and when it is not.
LEMMA AnsweredIs ==
    ASSUME TypeOK, NEW q \in Requests, Answer(q)
    PROVE  /\ Answered(q).base = q.base /\ Answered(q).body = q.body
           /\ \/ /\ Answered(q).stage = "done" /\ Answered(q).rev = q.base + 1
                 /\ q.base = Len(log) /\ Len(log') = Len(log) + 1 /\ log'[Len(log')] = q.body
              \/ Answered(q).stage = "conflict" /\ UNCHANGED log
<1>1. q.body \in Docs /\ log \in Seq(Docs)
  BY DEF Requests, TypeOK
<1>2. CASE Current(q.base)
  <2>1. log' = Append(log, q.body)
    BY <1>2 DEF Answer, Save
  <2>2. Len(log') = Len(log) + 1 /\ log'[Len(log')] = q.body
    BY <1>1, <2>1, SaveGrows
  <2>3. QED
    BY <1>2, <2>2 DEF Answered, Current, Requests
<1>3. CASE ~Current(q.base)
  BY <1>3 DEF Answer, Answered, Requests
<1>4. QED
  BY <1>2, <1>3

\* The server answers the write at the head of a queue.
LEMMA ServeInv ==
    ASSUME IInv, TypeOK', NEW c \in Clients, Serve(c)
    PROVE  IInv'
<1>0. /\ TypeOK /\ ClientInv(c) /\ req[c] \in Requests /\ req[c].stage = "sent" /\ Len(log) \in Nat
      /\ rev[c] \in Revisions
  BY LenProperties DEF IInv, TypeOK, Serve, Answer, Revisions
<1>1. LogStep
  BY <1>0, AnswerStep DEF Serve
<1>2. Revisions \subseteq Revisions' /\ \A n \in Revisions : log'[n] = log[n]
  BY <1>1 DEF LogStep, Revisions
<1>3. /\ req'[c] = Answered(req[c]) /\ \A b \in Clients \ {c} : req'[b] = req[b]
  BY <1>0 DEF Serve, TypeOK
<1>4. /\ req'[c].base = req[c].base /\ req'[c].body = req[c].body
      /\ \/ /\ req'[c].stage = "done" /\ req'[c].rev = req[c].base + 1
            /\ req[c].base = Len(log) /\ Len(log') = Len(log) + 1 /\ log'[Len(log')] = req[c].body
         \/ req'[c].stage = "conflict" /\ UNCHANGED log
  BY <1>0, <1>3, AnsweredIs DEF Serve
<1>5. QueueInv(c)' /\ ResyncInv(c)' /\ DraftInv(c)'
  BY <1>0, <1>2, <1>4 DEF Serve, ClientInv, QueueInv, ResyncInv, DraftInv, HeadIs
<1>6. RequestInv(c)'
  BY <1>0, <1>2, <1>4 DEF Serve, ClientInv, RequestInv, Revisions
<1>7. MayCount(req[c])' => MayCount(req[c])
  BY <1>0, <1>4 DEF MayCount
<1>8. BaseInv(c)'
  BY <1>0, <1>2, <1>4, <1>7 DEF Serve, ClientInv, BaseInv, RequestInv, HeadIs
<1>9. CleanInv(c)'
  BY <1>0, <1>2, <1>4, <1>7 DEF Serve, ClientInv, CleanInv, HeadIs
<1>10. \A b \in Clients \ {c} : Same(b) /\ resync'[b] = resync[b]
  BY <1>3 DEF Serve, Same
<1>11. \A e \in committed' : e \in committed /\ EditInv(e)'
  BY <1>1, PersistedGrows DEF Serve, IInv, EditInv
<1>12. QED
  BY <1>1, <1>5, <1>6, <1>8, <1>9, <1>10, <1>11, ClientStep DEF ClientInv

\* The server answers a write sent past the queue: it stores none under a save
\* that it stored.
LEMMA ServeDirectInv ==
    ASSUME IInv, TypeOK', NEW c \in Clients, ServeDirect(c)
    PROVE  IInv'
<1>0. /\ TypeOK /\ ClientInv(c) /\ direct[c] \in Requests /\ direct[c].stage = "sent" /\ Len(log) \in Nat
      /\ rev[c] \in Revisions
  BY LenProperties DEF IInv, TypeOK, ServeDirect, Answer, Revisions
<1>1. LogStep
  BY <1>0, AnswerStep DEF ServeDirect
<1>2. Revisions \subseteq Revisions' /\ \A n \in Revisions : log'[n] = log[n]
  BY <1>1 DEF LogStep, Revisions
<1>3. /\ direct'[c] = Answered(direct[c]) /\ \A b \in Clients \ {c} : direct'[b] = direct[b]
  BY <1>0 DEF ServeDirect, TypeOK
<1>4. /\ direct'[c].base = direct[c].base /\ direct'[c].body = direct[c].body
      /\ \/ /\ direct'[c].stage = "done" /\ direct'[c].rev = direct[c].base + 1
            /\ direct[c].base = Len(log) /\ Len(log') = Len(log) + 1 /\ log'[Len(log')] = direct[c].body
         \/ direct'[c].stage = "conflict" /\ UNCHANGED log
  BY <1>0, <1>3, AnsweredIs DEF ServeDirect
<1>5. QueueInv(c)' /\ ResyncInv(c)' /\ DraftInv(c)'
  BY <1>0, <1>2 DEF ServeDirect, ClientInv, QueueInv, ResyncInv, DraftInv, HeadIs
<1>6. RequestInv(c)'
  <2>1. CASE direct'[c].stage = "conflict" /\ UNCHANGED log
    BY <1>0, <1>2, <1>4, <2>1 DEF ServeDirect, ClientInv, RequestInv
  <2>2. CASE /\ direct'[c].stage = "done" /\ direct'[c].rev = direct[c].base + 1
             /\ direct[c].base = Len(log) /\ Len(log') = Len(log) + 1
             /\ log'[Len(log')] = direct[c].body
    <3>1. req[c].stage # "done"
      <4>1. req[c].base \in Nat
        BY <1>0 DEF TypeOK, Requests
      <4>2. req[c].stage = "done" => /\ direct[c].base <= req[c].base
                                     /\ req[c].base + 1 \in 1..Len(log)
        BY <1>0 DEF ClientInv, RequestInv, Revisions
      <4>3. QED
        BY <1>0, <2>2, <4>1, <4>2
    <3>2. direct'[c].rev \in Revisions' /\ log'[direct'[c].rev] = direct'[c].body
      BY <1>0, <1>4, <2>2 DEF Revisions
    <3>3. QED
      BY <1>0, <1>2, <1>4, <2>2, <3>1, <3>2 DEF ServeDirect, ClientInv, RequestInv
  <2>3. QED
    BY <1>4, <2>1, <2>2
<1>7. MayCount(req[c])' => MayCount(req[c])
  BY <1>0, <1>4 DEF ServeDirect, MayCount, ClientInv, RequestInv, Revisions
<1>8. BaseInv(c)'
  BY <1>0, <1>2, <1>4, <1>7 DEF ServeDirect, ClientInv, BaseInv, RequestInv, HeadIs
<1>9. CleanInv(c)'
  BY <1>0, <1>2, <1>7 DEF ServeDirect, ClientInv, CleanInv, HeadIs
<1>10. \A b \in Clients \ {c} : Same(b) /\ resync'[b] = resync[b]
  BY <1>3 DEF ServeDirect, Same
<1>11. \A e \in committed' : e \in committed /\ EditInv(e)'
  BY <1>1, PersistedGrows DEF ServeDirect, IInv, EditInv
<1>12. QED
  BY <1>1, <1>5, <1>6, <1>8, <1>9, <1>10, <1>11, ClientStep DEF ClientInv

\* A write its browser gave up on takes effect.
LEMMA ServeLateInv ==
    ASSUME IInv, TypeOK', NEW c \in Clients, NEW q \in late[c], ServeLate(c, q)
    PROVE  IInv'
<1>0. TypeOK /\ ClientInv(c) /\ q \in Requests /\ rev[c] \in Revisions
  BY DEF IInv, TypeOK, Revisions
<1>1. LogStep
  BY <1>0, AnswerStep DEF ServeLate
<1>2. Revisions \subseteq Revisions' /\ \A n \in Revisions : log'[n] = log[n]
  BY <1>1 DEF LogStep, Revisions
<1>3. late'[c] \subseteq late[c] /\ \A b \in Clients \ {c} : late'[b] = late[b]
  BY <1>0 DEF ServeLate, TypeOK
<1>4. QueueInv(c)' /\ ResyncInv(c)' /\ DraftInv(c)'
  BY <1>0, <1>2 DEF ServeLate, ClientInv, QueueInv, ResyncInv, DraftInv, HeadIs
<1>5. RequestInv(c)'
  BY <1>0, <1>2, <1>3 DEF ServeLate, ClientInv, RequestInv
<1>6. MayCount(req[c])' => MayCount(req[c])
  BY <1>0, <1>1 DEF ServeLate, MayCount, ClientInv, RequestInv, Revisions, LogStep, TypeOK, Requests
<1>7. BaseInv(c)'
  BY <1>0, <1>2, <1>3, <1>6 DEF ServeLate, ClientInv, BaseInv, RequestInv, HeadIs
<1>8. CleanInv(c)'
  BY <1>0, <1>2, <1>6 DEF ServeLate, ClientInv, CleanInv, HeadIs
<1>9. \A b \in Clients \ {c} : Same(b) /\ resync'[b] = resync[b]
  BY <1>3 DEF ServeLate, Same
<1>10. \A e \in committed' : e \in committed /\ EditInv(e)'
  BY <1>1, PersistedGrows DEF ServeLate, IInv, EditInv
<1>11. QED
  BY <1>1, <1>4, <1>5, <1>7, <1>8, <1>9, <1>10, ClientStep DEF ClientInv

\* A request goes on without another effect than its stage, and maybe the revision
\* that was read.
LEMMA StageStep ==
    ASSUME IInv, TypeOK', NEW c \in Clients, req[c].stage # "idle",
           req'[c].stage \in {"failed", "asking", "fetched"},
           req'[c].stage = "fetched" => req'[c].rev \in Revisions,
           \A b \in Clients \ {c} : req'[b] = req[b],
           late'[c] = late[c] \cup Abandoned(req[c]), \A b \in Clients \ {c} : late'[b] = late[b],
           UNCHANGED <<log, doc, rev, dirty, touched, draft, recovered, jobs, direct, resync,
                       committed, strayed>>
    PROVE  IInv'
<1>0. TypeOK /\ ClientInv(c) /\ log \in Seq(Docs)
  BY DEF IInv, TypeOK
<1>1. LogStep /\ Revisions' = Revisions /\ Persisted' = Persisted
  BY <1>0, NoSave DEF Revisions, Persisted
<1>2. QueueInv(c)' /\ ResyncInv(c)' /\ DraftInv(c)'
  BY <1>0, <1>1 DEF ClientInv, QueueInv, ResyncInv, DraftInv, HeadIs
<1>3. \A q \in late'[c] : q \in late[c] \/ (q = req[c] /\ req[c].stage = "sent")
  BY DEF Abandoned
<1>4. RequestInv(c)'
  BY <1>0, <1>1, <1>3 DEF ClientInv, RequestInv
<1>5. BaseInv(c)'
  BY <1>0, <1>3 DEF ClientInv, BaseInv, MayCount
<1>6. CleanInv(c)'
  BY <1>0 DEF ClientInv, CleanInv, MayCount
<1>7. \A b \in Clients \ {c} : Same(b)
  BY DEF Same
<1>8. \A e \in committed' : e \in committed /\ EditInv(e)'
  BY <1>1 DEF IInv, EditInv
<1>9. QED
  BY <1>1, <1>2, <1>4, <1>5, <1>6, <1>7, <1>8, ClientStep DEF ClientInv

\* The server.
LEMMA ServerInv ==
    ASSUME IInv, TypeOK', Server
    PROVE  IInv'
<1>0. TypeOK /\ log \in Seq(Docs)
  BY DEF IInv, TypeOK
<1>1. ASSUME NEW c \in Clients, ServeGet(c) PROVE IInv'
  <2>1. Len(log) \in Revisions
    BY <1>0, LenProperties DEF TypeOK, Revisions
  <2>2. /\ req'[c].stage = "fetched" /\ req'[c].rev = Len(log)
        /\ \A b \in Clients \ {c} : req'[b] = req[b]
    BY <1>0, <1>1 DEF ServeGet, TypeOK, Requests
  <2>3. Abandoned(req[c]) = {} /\ req[c].stage # "idle"
    BY <1>1 DEF ServeGet, Abandoned
  <2>4. QED
    BY <1>1, <2>1, <2>2, <2>3, StageStep DEF ServeGet
<1>2. ASSUME NEW c \in Clients, ServeResync(c) PROVE IInv'
  <2>1. LogStep
    BY <1>0, <1>2, NoSave DEF ServeResync
  <2>2. \A b \in Clients : Same(b)
    BY <1>2 DEF ServeResync, Same
  <2>3. ResyncInv(c)'
    BY <1>0, <1>2, LenProperties DEF ServeResync, ResyncInv, Revisions, TypeOK
  <2>4. \A b \in Clients \ {c} : resync'[b] = resync[b]
    BY <1>2 DEF ServeResync
  <2>5. QED
    BY <1>2, <2>1, <2>2, <2>3, <2>4, NobodyStep DEF ServeResync
<1>3. ASSUME NEW c \in Clients, Connect(c) PROVE IInv'
  BY <1>0, <1>3, NoSave, NobodyStep DEF Connect, Same
<1>4. ASSUME NEW r \in unpublished, Publish(r) PROVE IInv'
  BY <1>0, <1>4, NoSave, NobodyStep DEF Publish, Same
<1>5. QED
  BY <1>1, <1>2, <1>3, <1>4, ServeInv, ServeDirectInv DEF Server

\* A job ends with its answer.
LEMMA FinishStep ==
    ASSUME IInv, TypeOK', NEW c \in Clients, req[c].rev \in Revisions, jobs[c] # <<>>,
           NEW d, Pending(c, d), NEW current \in BOOLEAN, NEW remember \in BOOLEAN,
           NEW saved \in BOOLEAN, saved => rev[c] < req[c].rev,
           ~current => HeadIs(c, {"save"}) /\ req[c].stage = "done" /\ touched[c],
           Finish(c, d, current, remember, saved)
    PROVE  IInv'
<1>0. TypeOK /\ ClientInv(c)
  BY DEF IInv
<1>1. /\ ReceiveTopology(c, req[c].rev, d, current, remember, saved) /\ Settle(c)
      /\ jobs' = [jobs EXCEPT ![c] = Tail(@)]
      /\ UNCHANGED <<log, late, touched, direct, resync, committed>>
  BY DEF Finish, StartOver
<1>2. req'[c].stage = "idle" /\ \A b \in Clients \ {c} : req'[b] = req[b]
  BY <1>0 DEF Finish, StartOver, NoRequest, TypeOK
<1>3. ResyncInv(c)'
  BY <1>0, <1>1 DEF ClientInv, ResyncInv, Revisions
<1>4. QED
  BY <1>1, <1>2, <1>3, SnapshotStep

\* A write past the queue is answered: what its client shows is replaced, by a
\* later revision unless the answer was overtaken.
LEMMA DirectDoneInv ==
    ASSUME IInv, TypeOK', NEW c \in Clients, DirectDone(c)
    PROVE  IInv'
<1> DEFINE r == direct[c].rev
           d == Acknowledged(c, direct[c].body)
<1>0. TypeOK /\ ClientInv(c) /\ log \in Seq(Docs)
  BY DEF IInv, TypeOK
<1>1. LogStep /\ Revisions' = Revisions
  BY <1>0, NoSave DEF DirectDone, Revisions
<1>2. r \in Revisions /\ log[r] = direct[c].body /\ r \in Nat
  BY <1>0 DEF DirectDone, ClientInv, RequestInv, Revisions
<1>3. PICK saved \in BOOLEAN : ApplyTopology(c, r, d, FALSE, saved)
  BY DEF DirectDone
<1>4. Shown(c, r, d, saved) /\ \A b \in Clients \ {c} : ViewSame(b)
  BY <1>0, <1>3, ApplyView
<1>5. /\ direct'[c].stage = "idle"
      /\ strayed'[c] = IF Overtaken(c) THEN strayed[c] \cup {"overtaken"} ELSE strayed[c]
      /\ \A b \in Clients \ {c} : direct'[b] = direct[b] /\ strayed'[b] = strayed[b]
  BY <1>0 DEF DirectDone, NoRequest, TypeOK
<1>6. Pending(c, d)
  BY <1>2 DEF Acknowledged, Pending
<1>7. QueueInv(c)' /\ ResyncInv(c)' /\ DraftInv(c)'
  BY <1>0, <1>1, <1>4 DEF DirectDone, ClientInv, QueueInv, ResyncInv, DraftInv, HeadIs, Shown
<1>8. RequestInv(c)'
  BY <1>0, <1>1, <1>4, <1>5 DEF DirectDone, ClientInv, RequestInv, Shown
<1>9. ASSUME "overtaken" \notin strayed'[c], req[c].stage \in {"sent", "done"}
      PROVE  req[c].base <= rev'[c] /\ ~MayCount(req[c])
  <2>1. ~Overtaken(c) /\ "overtaken" \notin strayed[c]
    BY <1>5, <1>9
  <2>2. /\ rev[c] < r /\ req[c].base <= rev[c]
        /\ req[c].base \in Nat /\ rev[c] \in Nat /\ Len(log) \in Nat
    <3>1. rev[c] \in Nat /\ req[c].base \in Nat /\ Len(log) \in Nat
      BY <1>0, Numbers
    <3>2. req[c].base <= rev[c]
      BY <1>0, <1>9, <2>1 DEF ClientInv, CleanInv
    <3>3. QED
      BY <1>2, <1>9, <2>1, <3>1, <3>2 DEF Overtaken
  <2>3. req[c].stage # "done"
    BY <1>0, <1>2, <2>2 DEF DirectDone, ClientInv, RequestInv
  <2>4. req[c].base # Len(log)
    BY <1>0, <1>2, <2>2 DEF Revisions
  <2>5. QED
    BY <1>0, <1>2, <1>4, <2>2, <2>3, <2>4 DEF MayCount, Shown
<1>10. MayCount(req[c])' => "overtaken" \in strayed'[c]
  BY <1>9 DEF DirectDone, MayCount
<1>11. BaseInv(c)'
  <2>1. strayed'[c] = {} => strayed[c] = {}
    BY <1>5
  <2>2. QED
    BY <1>0, <1>4, <1>5, <1>10, <2>1 DEF DirectDone, ClientInv, BaseInv, Shown
<1>12. CleanInv(c)'
  <2>1. doc'[c] = log[rev'[c]]
    BY <1>4 DEF Shown
  <2>2. QED
    BY <1>9, <1>10, <2>1 DEF DirectDone, CleanInv
<1>13. \A b \in Clients \ {c} : Same(b) /\ resync'[b] = resync[b]
  BY <1>4, <1>5 DEF DirectDone, Same, ViewSame
<1>14. \A e \in committed' : e \in committed /\ (Owner[e] = c => EditInv(e)')
  BY <1>0, <1>2, <1>4, <1>6, ViewEdit DEF DirectDone, IInv
<1>15. QED
  BY <1>1, <1>7, <1>8, <1>11, <1>12, <1>13, <1>14, ClientStep DEF ClientInv

\* ... or it is refused, or given up.
LEMMA DirectRefusedInv ==
    ASSUME IInv, TypeOK', NEW c \in Clients, DirectRefused(c)
    PROVE  IInv'
<1>0. TypeOK /\ ClientInv(c) /\ log \in Seq(Docs)
  BY DEF IInv, TypeOK
<1>1. LogStep /\ Revisions' = Revisions /\ Persisted' = Persisted
  BY <1>0, NoSave DEF DirectRefused, Revisions, Persisted
<1>2. direct'[c].stage = "idle" /\ \A b \in Clients \ {c} : direct'[b] = direct[b]
  BY <1>0 DEF DirectRefused, NoRequest, TypeOK
<1>3. /\ \A q \in late'[c] : q \in late[c] \/ (q = direct[c] /\ direct[c].stage = "sent")
      /\ \A b \in Clients \ {c} : late'[b] = late[b]
  <2>1. late' = late \/ late' = [late EXCEPT ![c] = @ \cup Abandoned(direct[c])]
    BY DEF DirectRefused
  <2>2. late \in [Clients -> SUBSET Requests]
    BY <1>0 DEF TypeOK
  <2>3. CASE late' = late
    BY <2>3
  <2>4. CASE late' = [late EXCEPT ![c] = @ \cup Abandoned(direct[c])]
    BY <2>2, <2>4 DEF Abandoned
  <2>5. QED
    BY <2>1, <2>3, <2>4
<1>4. QueueInv(c)' /\ ResyncInv(c)' /\ DraftInv(c)'
  BY <1>0, <1>1 DEF DirectRefused, ClientInv, QueueInv, ResyncInv, DraftInv, HeadIs
<1>5. RequestInv(c)'
  BY <1>0, <1>1, <1>2, <1>3 DEF DirectRefused, ClientInv, RequestInv
<1>6. BaseInv(c)'
  BY <1>0, <1>2, <1>3 DEF DirectRefused, ClientInv, BaseInv, MayCount, HeadIs
<1>7. CleanInv(c)'
  BY <1>0 DEF DirectRefused, ClientInv, CleanInv, MayCount, HeadIs
<1>8. \A b \in Clients \ {c} : Same(b) /\ resync'[b] = resync[b]
  BY <1>2, <1>3 DEF DirectRefused, Same
<1>9. \A e \in committed' : e \in committed /\ EditInv(e)'
  BY <1>1 DEF DirectRefused, IInv, EditInv
<1>10. QED
  BY <1>1, <1>4, <1>5, <1>6, <1>7, <1>8, <1>9, ClientStep DEF ClientInv

\* Answers.
LEMMA AnswerInv ==
    ASSUME IInv, TypeOK', NEW c \in Clients,
           Saved(c) \/ Patched(c) \/ Undone(c) \/ Fetched(c) \/ Reread(c) \/ GiveUp(c)
    PROVE  IInv'
<1>0. TypeOK /\ ClientInv(c) /\ log \in Seq(Docs) /\ touched[c] \in BOOLEAN
  BY DEF IInv, TypeOK
<1>1. ASSUME req[c].stage = "done"
      PROVE  /\ req[c].rev \in Revisions /\ rev[c] < req[c].rev
             /\ Pending(c, Acknowledged(c, req[c].body))
  <2>1. /\ req[c].rev = req[c].base + 1 /\ req[c].rev \in Revisions
        /\ log[req[c].rev] = req[c].body /\ rev[c] <= req[c].base
    BY <1>0, <1>1 DEF ClientInv, RequestInv
  <2>2. rev[c] \in Nat /\ req[c].base \in Nat
    BY <1>0, Numbers
  <2>3. QED
    BY <2>1, <2>2 DEF Pending, Acknowledged
<1>2. Pending(c, draft[c])
  BY DEF Pending
<1>3. CASE Saved(c)
  <2> DEFINE current == ~touched[c]
  <2>1. current \in BOOLEAN /\ HeadIs(c, {"save"}) /\ jobs[c] # <<>> /\ req[c].stage = "done"
    BY <1>0, <1>3 DEF Saved, Running, HeadIs
  <2>2. Finish(c, Acknowledged(c, req[c].body), current, FALSE, current)
    BY <1>3 DEF Saved
  <2>3. ~current => touched[c]
    OBVIOUS
  <2> HIDE DEF current
  <2>4. QED
    BY <1>1, <2>1, <2>2, <2>3, FinishStep
<1>4. CASE Patched(c)
  <2>1. jobs[c] # <<>> /\ req[c].stage = "done" /\ Finish(c, draft[c], TRUE, TRUE, TRUE)
    BY <1>4 DEF Patched, Running
  <2>2. QED
    BY <1>1, <1>2, <2>1, FinishStep
<1>5. CASE Undone(c)
  <2>1. /\ jobs[c] # <<>> /\ req[c].stage = "done"
        /\ Finish(c, Acknowledged(c, req[c].body), TRUE, FALSE, TRUE)
    BY <1>5 DEF Undone, Running
  <2>2. QED
    BY <1>1, <2>1, FinishStep
<1>6. CASE Fetched(c)
  <2>1. jobs[c] # <<>> /\ req[c].stage = "fetched" /\ Finish(c, draft[c], TRUE, FALSE, FALSE)
    BY <1>6 DEF Fetched, Running
  <2>2. req[c].rev \in Revisions
    BY <1>0, <2>1 DEF ClientInv, RequestInv
  <2>3. QED
    BY <1>2, <2>1, <2>2, FinishStep
<1>7. CASE Reread(c)
  <2>1. req'[c].stage = "asking" /\ \A b \in Clients \ {c} : req'[b] = req[b]
    BY <1>0, <1>7 DEF Reread, TypeOK, Requests
  <2>2. Abandoned(req[c]) = {} /\ req[c].stage # "idle"
    BY <1>7 DEF Reread, Running, Abandoned
  <2>3. QED
    BY <1>7, <2>1, <2>2, StageStep DEF Reread
<1>8. CASE GiveUp(c)
  <2>1. LogStep /\ Revisions' = Revisions /\ Persisted' = Persisted
    BY <1>0, <1>8, NoSave DEF GiveUp, Revisions, Persisted
  <2>2. /\ jobs[c] # <<>> /\ jobs'[c] = Tail(jobs[c]) /\ req'[c].stage = "idle"
        /\ \A b \in Clients \ {c} : jobs'[b] = jobs[b] /\ req'[b] = req[b]
    BY <1>0, <1>8 DEF GiveUp, StartOver, Running, NoRequest, TypeOK
  <2>3. QueueInv(c)' /\ ~HeadIs(c, {"save"})'
    BY <1>0, <1>8, <2>2, NextJob DEF GiveUp, ClientInv
  <2>4. ResyncInv(c)' /\ RequestInv(c)' /\ DraftInv(c)'
    BY <1>0, <1>8, <2>1, <2>2 DEF GiveUp, ClientInv, ResyncInv, RequestInv, DraftInv
  <2>5. BaseInv(c)' /\ CleanInv(c)'
    BY <1>0, <1>8, <2>2, <2>3 DEF GiveUp, ClientInv, BaseInv, CleanInv
  <2>6. \A b \in Clients \ {c} : Same(b) /\ resync'[b] = resync[b]
    BY <1>8, <2>2 DEF GiveUp, Same
  <2>7. \A e \in committed' : e \in committed /\ EditInv(e)'
    BY <1>8, <2>1 DEF GiveUp, IInv, EditInv
  <2>8. QED
    BY <2>1, <2>3, <2>4, <2>5, <2>6, <2>7, ClientStep DEF ClientInv
<1>9. QED
  BY <1>3, <1>4, <1>5, <1>6, <1>7, <1>8

\* What the stream brings, and what waited for the writes.
LEMMA StreamInv ==
    ASSUME IInv, TypeOK', NEW c \in Clients, OnOpen(c) \/ OnEvent(c) \/ OnResync(c) \/ Receive(c)
    PROVE  IInv'
<1>0. TypeOK /\ ClientInv(c) /\ log \in Seq(Docs)
  BY DEF IInv, TypeOK
<1>1. ASSUME UNCHANGED log, resync' = Asked(c) \/ resync' = resync PROVE \A b \in Clients : ResyncInv(b)'
  <2>1. \A b \in Clients : resync'[b].stage = "answered" => resync'[b] = resync[b]
    <3>1. CASE resync' = resync
      BY <3>1
    <3>2. CASE resync' = Asked(c)
      <4>1. resync \in [Clients -> Resyncs]
        BY <1>0 DEF TypeOK, Resyncs
      <4>2. QED
        BY <3>2, <4>1 DEF Asked
    <3>3. QED
      BY <1>1, <3>1, <3>2
  <2>2. QED
    BY <1>1, <2>1 DEF IInv, ClientInv, ResyncInv, Revisions
<1>2. CASE OnOpen(c)
  <2>1. LogStep
    BY <1>0, <1>2, NoSave DEF OnOpen
  <2>2. \A b \in Clients : Same(b) /\ ResyncInv(b)'
    BY <1>1, <1>2 DEF OnOpen, Same
  <2>3. QED
    BY <1>2, <2>1, <2>2, NobodyStep DEF OnOpen
<1>3. CASE OnEvent(c)
  <2> DEFINE r == Head(channel[c])
  <2>1. r \in Revisions
    BY <1>0, <1>3, HeadTailProperties DEF OnEvent, TypeOK, Revisions
  <2>2. CASE UNCHANGED <<seen, resync, jobs>>
    <3>1. LogStep
      BY <1>0, <1>3, NoSave DEF OnEvent
    <3>2. \A b \in Clients : Same(b) /\ resync'[b] = resync[b]
      BY <1>3, <2>2 DEF OnEvent, Same
    <3>3. QED
      BY <1>3, <3>1, <3>2, NobodyStep DEF OnEvent
  <2>3. CASE /\ resync' = IF r > seen[c] + 1 THEN Asked(c) ELSE resync
             /\ Enqueue(c, Job("receive", NoEdit, r))
    <3>1. /\ Job("receive", NoEdit, r) \in Jobs
          /\ Job("receive", NoEdit, r).kind = "receive" /\ Job("receive", NoEdit, r).rev = r
      BY <2>1 DEF Job, Jobs, Revisions
    <3>2. ResyncInv(c)'
      BY <1>1, <1>3, <2>3 DEF OnEvent
    <3>3. \A b \in Clients \ {c} : resync'[b] = resync[b]
      BY <1>0, <2>3 DEF Asked, TypeOK
    <3>4. QED
      BY <1>3, <2>1, <2>3, <3>1, <3>2, <3>3, EnqueueStep DEF OnEvent
  <2>4. QED
    BY <1>3, <2>2, <2>3 DEF OnEvent
<1>4. CASE OnResync(c)
  <2>1. resync[c].rev \in Revisions
    BY <1>0, <1>4 DEF OnResync, ClientInv, ResyncInv
  <2>2. /\ Job("resync", NoEdit, resync[c].rev) \in Jobs
        /\ Job("resync", NoEdit, resync[c].rev).kind = "resync"
        /\ Job("resync", NoEdit, resync[c].rev).rev = resync[c].rev
    BY <2>1 DEF Job, Jobs, Revisions
  <2>3. ResyncInv(c)' /\ \A b \in Clients \ {c} : resync'[b] = resync[b]
    BY <1>0, <1>4 DEF OnResync, ResyncInv, TypeOK
  <2>4. QED
    BY <1>4, <2>1, <2>2, <2>3, EnqueueStep DEF OnResync
<1>5. CASE Receive(c)
  <2>1. /\ jobs[c] # <<>> /\ Head(jobs[c]).kind \in {"receive", "resync"} /\ req[c].stage = "idle"
    BY <1>5 DEF Receive, Running
  <2>2. Head(jobs[c]).rev \in Revisions
    BY <1>0, <2>1, HeadJob DEF ClientInv
  <2>3. ResyncInv(c)' /\ \A b \in Clients \ {c} : resync'[b] = resync[b]
    BY <1>0, <1>5 DEF Receive, ClientInv, ResyncInv, Revisions, TypeOK
  <2>4. Pending(c, draft[c])
    BY DEF Pending
  <2>5. /\ ReceiveTopology(c, Head(jobs[c]).rev, draft[c], TRUE, FALSE, FALSE) /\ Settle(c)
        /\ jobs' = [jobs EXCEPT ![c] = Tail(@)]
        /\ UNCHANGED <<log, late, touched, direct, req, committed>>
    BY <1>5 DEF Receive
  <2>6. QED
    BY <2>1, <2>2, <2>3, <2>4, <2>5, SnapshotStep
<1>6. QED
  BY <1>2, <1>3, <1>4, <1>5

\* The page is loaded again.
LEMMA ReloadInv ==
    ASSUME IInv, TypeOK', NEW c \in Clients, Reload(c)
    PROVE  IInv'
<1>0. TypeOK /\ ClientInv(c) /\ log \in Seq(Docs)
  BY DEF IInv, TypeOK
<1>1. LogStep /\ Revisions' = Revisions /\ Persisted' = Persisted
  BY <1>0, NoSave DEF Reload, Revisions, Persisted
<1>2. /\ doc'[c] = log[Len(log)] /\ rev'[c] = Len(log) /\ draft'[c] = {} /\ dirty'[c] = FALSE
      /\ recovered'[c] = recovered[c] \cup draft[c]
      /\ jobs'[c] = <<>> /\ req'[c].stage = "idle" /\ direct'[c].stage = "idle"
      /\ resync'[c].stage = "none"
      /\ late'[c] = late[c] \cup Abandoned(req[c]) \cup Abandoned(direct[c])
      /\ strayed'[c] = IF late'[c] = {} THEN {} ELSE strayed[c]
  BY <1>0 DEF Reload, Stored, NoRequest, TypeOK
<1>3. \A b \in Clients \ {c} : Same(b) /\ resync'[b] = resync[b]
  BY <1>0 DEF Reload, Same, TypeOK
<1>4. \A q \in late'[c] : \/ q \in late[c]
                          \/ q = req[c] /\ req[c].stage = "sent"
                          \/ q = direct[c] /\ direct[c].stage = "sent"
  BY <1>2 DEF Abandoned
<1>5. QueueInv(c)'
  <2>1. Len(jobs'[c]) = 0
    BY <1>2
  <2>2. QED
    BY <1>2, <2>1 DEF QueueInv, HeadIs
<1>6. ResyncInv(c)' /\ DraftInv(c)'
  BY <1>2 DEF ResyncInv, DraftInv
<1>7. RequestInv(c)'
  BY <1>0, <1>1, <1>2, <1>4 DEF ClientInv, RequestInv
<1>8. BaseInv(c)'
  <2>1. log'[rev'[c]] \subseteq doc'[c]
    BY <1>2 DEF Reload
  <2>2. strayed'[c] = {} => \A q \in late'[c] : log[q.base] \subseteq q.body
    BY <1>0, <1>2, <1>4 DEF ClientInv, BaseInv
  <2>3. QED
    BY <1>2, <2>1, <2>2 DEF BaseInv, HeadIs, Reload
<1>9. CleanInv(c)'
  BY <1>2 DEF CleanInv, HeadIs, Reload
<1>10. \A e \in committed' : e \in committed /\ (Owner[e] = c => EditInv(e)')
  BY <1>1, <1>2 DEF Reload, IInv, EditInv
<1>11. QED
  BY <1>1, <1>3, <1>5, <1>6, <1>7, <1>8, <1>9, <1>10, ClientStep DEF ClientInv

\* What is lost.
LEMMA LossInv ==
    ASSUME IInv, TypeOK', Loss
    PROVE  IInv'
<1>0. TypeOK /\ log \in Seq(Docs)
  BY DEF IInv, TypeOK
<1>1. ASSUME NEW c \in Clients, Fail(c) PROVE IInv'
  <2>1. /\ req'[c].stage = "failed" /\ late'[c] = late[c] \cup Abandoned(req[c])
        /\ \A b \in Clients \ {c} : req'[b] = req[b] /\ late'[b] = late[b]
    BY <1>0, <1>1 DEF Fail, TypeOK, Requests
  <2>2. req[c].stage # "idle"
    BY <1>1 DEF Fail
  <2>3. QED
    BY <1>1, <2>1, <2>2, StageStep DEF Fail
<1>2. ASSUME NEW c \in Clients, Break(c) PROVE IInv'
  <2>1. LogStep
    BY <1>0, <1>2, NoSave DEF Break
  <2>2. QED
    BY <1>2, <2>1, NobodyStep DEF Break, Same
<1>3. ASSUME NEW c \in Clients, ResyncFails(c) PROVE IInv'
  <2>1. LogStep
    BY <1>0, <1>3, NoSave DEF ResyncFails
  <2>2. \A b \in Clients : Same(b)
    BY <1>3 DEF ResyncFails, Same
  <2>3. \A b \in Clients : resync'[b] = resync[b] \/ ResyncInv(b)'
    BY <1>0, <1>3 DEF ResyncFails, ResyncInv, TypeOK
  <2>4. QED
    BY <1>3, <2>1, <2>2, <2>3, NobodyStep DEF ResyncFails
<1>4. QED
  BY <1>1, <1>2, <1>3, ReloadInv, ServeLateInv DEF Loss

-----------------------------------------------------------------------------
(* The theorems.                                                            *)

LEMMA InitInv == Init => IInv
<1> SUFFICES ASSUME Init PROVE IInv
  OBVIOUS
<1>1. TypeOK
  BY TypeInit
<1>2. ASSUME NEW c \in Clients PROVE ClientInv(c)
  <2>1. /\ doc[c] = {} /\ rev[c] = 1 /\ log[1] = {} /\ Len(log) = 1 /\ dirty[c] = FALSE
        /\ draft[c] = {} /\ jobs[c] = <<>> /\ req[c] = NoRequest /\ direct[c] = NoRequest
        /\ late[c] = {} /\ resync[c].stage = "none"
    BY DEF Init
  <2>2. Len(jobs[c]) = 0
    BY <2>1
  <2>3. QueueInv(c) /\ ResyncInv(c) /\ RequestInv(c) /\ DraftInv(c)
    BY <2>1, <2>2 DEF QueueInv, ResyncInv, RequestInv, DraftInv, HeadIs, NoRequest
  <2>4. BaseInv(c) /\ CleanInv(c)
    BY <2>1 DEF BaseInv, CleanInv, HeadIs, NoRequest
  <2>5. QED
    BY <2>3, <2>4 DEF ClientInv
<1>3. committed = {}
  BY DEF Init
<1>4. QED
  BY <1>1, <1>2, <1>3 DEF IInv

\* Every step keeps the invariant.
LEMMA NextInv ==
    ASSUME IInv, [Next]_vars
    PROVE  IInv'
<1>1. TypeOK'
  BY TypeNext
<1>2. CASE UNCHANGED vars
  <2>1. LogStep
    BY <1>2, NoSave DEF IInv, TypeOK, vars
  <2>2. QED
    BY <1>1, <1>2, <2>1, NobodyStep DEF vars, Same
<1>3. ASSUME NEW c \in Clients, User(c) \/ Flush(c) \/ Browser(c) PROVE IInv'
  BY <1>1, <1>3, UserInv, BeginInv, AnswerInv, DirectDoneInv, DirectRefusedInv, StreamInv
     DEF Browser
<1>4. QED
  BY <1>1, <1>2, <1>3, ServerInv, LossInv DEF Next

THEOREM Invariance == Spec => []IInv
<1>1. IInv /\ [Next]_vars => IInv'
  BY NextInv
<1>2. QED
  BY InitInv, <1>1, PTL DEF Spec

\* What the variables hold, and every reference to a revision is one that the server
\* has.
THEOREM TypeCorrect == Spec => []TypeOK
<1>1. IInv => TypeOK
  BY DEF IInv
<1>2. QED
  BY Invariance, <1>1, PTL

\* An edit that was on screen and not undone is saved, offered for recovery, or in
\* the draft of a map that counts as unsaved (state.js, autosave.js, drafts.js): also
\* when answers come late, writes are lost, or the page is loaded again.
THEOREM EditsKept == Spec => []NoEditLost
<1>1. ASSUME IInv PROVE NoEditLost
  <2>1. ASSUME NEW e \in committed
        PROVE  \/ e \in Persisted
               \/ e \in UNION recovered[Owner[e]]
               \/ dirty[Owner[e]] /\ e \in UNION draft[Owner[e]]
    BY <1>1 DEF IInv, EditInv
  <2>2. QED
    BY <2>1 DEF NoEditLost
<1>2. QED
  BY Invariance, <1>1, PTL

\* A screen contains the revision it names, but after an undo or a late answer: what
\* lets the server's comparison of revisions protect the work of others.
THEOREM ScreensKeepBase == Spec => []BaseKept
<1>1. IInv => BaseKept
  BY DEF IInv, ClientInv, BaseInv, BaseKept
<1>2. QED
  BY Invariance, <1>1, PTL

\* A map that counts as saved is the server's, but after a late answer: autosave
\* never forgets an edit (autosave.js, app.js).
THEOREM CleanMapsShared == Spec => []CleanIsShared
<1>1. IInv => CleanIsShared
  BY DEF IInv, ClientInv, CleanInv, CleanIsShared
<1>2. QED
  BY Invariance, <1>1, PTL

\* A stored write contains the revision before it, but that of a client that undid
\* or got a late answer: nobody's work is removed by somebody who has not seen it.
THEOREM OthersWorkStays == Spec => WorkKept
<1>1. ASSUME IInv, [Next]_vars, log' # log, ~(log[Len(log)] \subseteq log'[Len(log')])
      PROVE  \E c \in Clients : Answering(c) /\ strayed[c] # {}
  <2>1. TypeOK
    BY <1>1 DEF IInv
  <2>2. ASSUME NEW q \in Requests, Answer(q), log[q.base] \subseteq q.body PROVE FALSE
    <3>1. q.base = Len(log) /\ log'[Len(log')] = q.body
      BY <1>1, <2>1, <2>2, AnsweredIs
    <3>2. QED
      BY <1>1, <2>2, <3>1
  <2>3. ASSUME NEW c \in Clients, Serve(c) PROVE Answering(c) /\ strayed[c] # {}
    <3>1. req[c] \in Requests /\ Answer(req[c]) /\ req[c].stage = "sent"
      BY <2>1, <2>3 DEF TypeOK, Serve, Answer
    <3>2. strayed[c] # {}
      BY <1>1, <2>2, <3>1 DEF IInv, ClientInv, BaseInv
    <3>3. req'[c] # req[c]
      BY <2>1, <2>3, <3>1, AnsweredIs DEF Serve, TypeOK
    <3>4. QED
      BY <3>2, <3>3 DEF Answering
  <2>4. ASSUME NEW c \in Clients, ServeDirect(c) PROVE Answering(c) /\ strayed[c] # {}
    <3>1. direct[c] \in Requests /\ Answer(direct[c]) /\ direct[c].stage = "sent"
      BY <2>1, <2>4 DEF TypeOK, ServeDirect, Answer
    <3>2. strayed[c] # {}
      BY <1>1, <2>2, <3>1 DEF IInv, ClientInv, BaseInv
    <3>3. direct'[c] # direct[c]
      BY <2>1, <2>4, <3>1, AnsweredIs DEF ServeDirect, TypeOK
    <3>4. QED
      BY <3>2, <3>3 DEF Answering
  <2>5. ASSUME NEW c \in Clients, NEW q \in late[c], ServeLate(c, q)
        PROVE  Answering(c) /\ strayed[c] # {}
    <3>1. q \in Requests /\ Answer(q)
      BY <2>1, <2>5 DEF TypeOK, ServeLate
    <3>2. strayed[c] # {}
      BY <1>1, <2>2, <3>1 DEF IInv, ClientInv, BaseInv
    <3>3. late'[c] # late[c]
      BY <2>1, <2>5 DEF ServeLate, TypeOK
    <3>4. QED
      BY <3>2, <3>3 DEF Answering
  <2>6. CASE \E c \in Clients : User(c) \/ Flush(c) \/ Browser(c)
    <3>1. PICK c \in Clients : User(c) \/ Flush(c) \/ Browser(c)
      BY <2>6
    <3>2. CASE User(c) \/ Flush(c)
      BY <1>1, <3>2 DEF User, Commit, Patch, SendDirect, Undo, SaveNow, Flush, StartSave
    <3>3. CASE Browser(c)
      BY <1>1, <3>3 DEF Browser, Begin, Saved, Patched, Undone, Reread, Fetched, Finish,
         DirectDone, DirectRefused, OnOpen, OnEvent, OnResync, Receive, GiveUp
    <3>4. QED
      BY <3>1, <3>2, <3>3
  <2>7. CASE Server
    BY <1>1, <2>3, <2>4, <2>7 DEF Server, ServeGet, ServeResync, Connect, Publish
  <2>8. CASE Loss
    BY <1>1, <2>5, <2>8 DEF Loss, Fail, Break, ResyncFails, Reload
  <2>9. QED
    BY <1>1, <2>6, <2>7, <2>8 DEF Next, vars
<1>2. QED
  BY Invariance, <1>1, PTL DEF Spec, WorkKept

-----------------------------------------------------------------------------
(* The latest revision arrives.                                             *)

\* A snapshot of r waits in the queue.
Awaits(c, r) ==
    \E i \in 1..Len(jobs[c]) : jobs[c][i].kind \in {"receive", "resync"} /\ jobs[c][i].rev = r

\* The latest revision is still to be published, on its way to a client, in its
\* queue, or on its screen.
Coming(c) ==
    \/ Len(log) \in unpublished
    \/ \E i \in 1..Len(channel[c]) : channel[c][i] = Len(log)
    \/ Awaits(c, Len(log))
    \/ rev[c] = Len(log)

\* A GET will bring it.
Asking(c) ==
    \/ resync[c].stage = "asked"
    \/ resync[c].stage = "answered" /\ resync[c].rev = Len(log)

\* The answer of a resynchronization is in the queue once, and until it is taken
\* from there no other is asked for.
WaitingInv(c) ==
    \A i, j \in 1..Len(jobs[c]) :
        jobs[c][i].kind = "resync" =>
            resync[c].stage = "waiting" /\ (jobs[c][j].kind = "resync" => i = j)

\* What was received is on screen or in the queue.
SeenInv(c) == seen[c] <= rev[c] \/ Awaits(c, seen[c])

\* No page has been loaded again.
FirstPages == "page" \notin Losses \/ losses = 0

\* The GET of a stream that opens is made after the server knows of the stream; on
\* the first pages nothing depends on one.
CurrentInv(c) ==
    /\ direct[c].stage = "idle"
    /\ WaitingInv(c) /\ SeenInv(c)
    /\ stream[c] # "open" => resync[c].stage = "none"
    /\ stream[c] = "open" => Coming(c) \/ Asking(c)
    /\ FirstPages => stream[c] = "open" /\ Coming(c)

\* No stream breaks, no write goes past the queue, and a reading does not fail when a
\* page was loaded again.
StreamsLast ==
    /\ "stream" \notin Losses /\ "direct" \notin Ways
    /\ ~({"page", "read"} \subseteq Losses) \/ MaxLosses <= 1

\* What the rest of the program does to what a client waits for: nothing, or it comes
\* closer; ...
Quiet(c) ==
    /\ rev[c] <= rev'[c]
    /\ \A r \in Nat : Awaits(c, r) => Awaits(c, r)'
    /\ WaitingInv(c)'
    /\ direct'[c] = direct[c] /\ stream'[c] = stream[c] /\ channel'[c] = channel[c]
    /\ seen'[c] = seen[c] /\ resync'[c] = resync[c]

\* ... and a new revision is published later.
LogQuiet ==
    /\ UNCHANGED <<log, unpublished>> \/ Len(log') \in unpublished'
    /\ losses' = losses \/ losses' = losses + 1

\* References are numbers that the server has.
LEMMA RefsIn ==
    ASSUME TypeOK, NEW c \in Clients
    PROVE  /\ Len(log) \in Nat /\ rev[c] \in Nat /\ rev[c] <= Len(log)
           /\ seen[c] \in Nat /\ seen[c] <= Len(log) /\ losses \in Nat
           /\ jobs[c] \in Seq(Jobs) /\ Len(jobs[c]) \in Nat
           /\ channel[c] \in Seq(Revisions) /\ Len(channel[c]) \in Nat
<1>1. Len(log) \in Nat
  BY LenProperties DEF TypeOK
<1>2. rev[c] \in 1..Len(log) /\ seen[c] \in 1..Len(log)
  BY DEF TypeOK
<1>3. losses \in Nat
  BY LimitAssumption DEF TypeOK
<1>4. jobs[c] \in Seq(Jobs) /\ channel[c] \in Seq(Revisions)
  BY DEF TypeOK, Revisions
<1>5. Len(jobs[c]) \in Nat /\ Len(channel[c]) \in Nat
  BY <1>4, LenProperties
<1>6. QED
  BY <1>1, <1>2, <1>3, <1>4, <1>5

\* What is quiet keeps the invariant.
LEMMA QuietStep ==
    ASSUME TypeOK, TypeOK', NEW c \in Clients, CurrentInv(c), Quiet(c), LogQuiet
    PROVE  CurrentInv(c)'
<1>1. /\ Len(log) \in Nat /\ Len(log') \in Nat /\ rev[c] \in Nat /\ rev'[c] \in Nat
      /\ rev[c] <= Len(log) /\ rev'[c] <= Len(log') /\ seen[c] \in Nat /\ losses \in Nat
  <2>1. Len(log') \in Nat /\ rev'[c] \in 1..Len(log')
    BY LenProperties DEF TypeOK
  <2>2. QED
    BY <2>1, RefsIn
<1>2. \A r \in Nat : Awaits(c, r) => Awaits(c, r)'
  BY DEF Quiet
<1>3. SeenInv(c)'
  BY <1>1, <1>2 DEF CurrentInv, SeenInv, Quiet, Awaits
<1>4. Coming(c) => Coming(c)'
  <2>1. CASE Len(log') \in unpublished'
    BY <2>1 DEF Coming
  <2>2. CASE UNCHANGED <<log, unpublished>>
    <3>1. Awaits(c, Len(log)) => Awaits(c, Len(log))'
      <4>1. PICK r \in Nat : r = Len(log)
        BY <1>1
      <4>2. Awaits(c, r) => Awaits(c, r)'
        BY <1>2
      <4>3. QED
        BY <2>2, <4>1, <4>2 DEF Awaits
    <3>2. rev[c] = Len(log) => rev'[c] = Len(log')
      BY <1>1, <2>2 DEF Quiet
    <3>3. QED
      BY <2>2, <3>1, <3>2 DEF Coming, Quiet, Awaits
  <2>3. QED
    BY <2>1, <2>2 DEF LogQuiet
<1>5. Asking(c) => Asking(c)' \/ Coming(c)'
  BY DEF Asking, Coming, Quiet, LogQuiet
<1>6. FirstPages' => FirstPages
  BY <1>1 DEF FirstPages, LogQuiet
<1>7. QED
  BY <1>3, <1>4, <1>5, <1>6 DEF CurrentInv, Quiet

\* What nothing of a client changes is quiet.
LEMMA SameQuiet ==
    ASSUME TypeOK, NEW c \in Clients, CurrentInv(c), rev[c] <= rev'[c],
           jobs'[c] = jobs[c], direct'[c] = direct[c], stream'[c] = stream[c],
           channel'[c] = channel[c], seen'[c] = seen[c], resync'[c] = resync[c]
    PROVE  Quiet(c)
BY DEF CurrentInv, Quiet, Awaits, WaitingInv

\* The queue behind a job that brings no snapshot.
LEMMA TailQuiet ==
    ASSUME TypeOK, NEW c \in Clients, CurrentInv(c), rev[c] <= rev'[c],
           jobs[c] # <<>>, Head(jobs[c]).kind \notin {"receive", "resync"},
           jobs'[c] = Tail(jobs[c]), direct'[c] = direct[c], stream'[c] = stream[c],
           channel'[c] = channel[c], seen'[c] = seen[c], resync'[c] = resync[c]
    PROVE  Quiet(c)
<1>1. jobs[c] \in Seq(Jobs) /\ Len(jobs[c]) \in Nat
  BY RefsIn
<1>2. /\ Len(jobs'[c]) = Len(jobs[c]) - 1 /\ Head(jobs[c]) = jobs[c][1]
      /\ \A i \in 1..Len(jobs'[c]) : jobs'[c][i] = jobs[c][i + 1] /\ i + 1 \in 1..Len(jobs[c])
  BY <1>1, HeadTailProperties
<1>3. ASSUME NEW r \in Nat, Awaits(c, r) PROVE Awaits(c, r)'
  <2>1. PICK i \in 1..Len(jobs[c]) : jobs[c][i].kind \in {"receive", "resync"} /\ jobs[c][i].rev = r
    BY <1>3 DEF Awaits
  <2>2. i # 1
    BY <1>2, <2>1
  <2>3. i - 1 \in 1..Len(jobs'[c]) /\ jobs'[c][i - 1] = jobs[c][i]
    BY <1>1, <1>2, <2>2
  <2>4. QED
    BY <2>1, <2>3 DEF Awaits
<1>4. WaitingInv(c)'
  <2>1. ASSUME NEW i \in 1..Len(jobs'[c]), NEW j \in 1..Len(jobs'[c]), jobs'[c][i].kind = "resync"
        PROVE  resync'[c].stage = "waiting" /\ (jobs'[c][j].kind = "resync" => i = j)
    BY <1>2, <2>1 DEF CurrentInv, WaitingInv
  <2>2. QED
    BY <2>1 DEF WaitingInv
<1>5. QED
  BY <1>1, <1>3, <1>4 DEF Quiet

\* The queue with another job, which a resynchronization adds once.
LEMMA JoinedQueue ==
    ASSUME TypeOK, NEW c \in Clients, WaitingInv(c), NEW job \in Jobs, jobs'[c] = Append(jobs[c], job),
           job.kind # "resync" =>
               resync'[c].stage = resync[c].stage \/ resync[c].stage # "waiting",
           job.kind = "resync" => resync'[c].stage = "waiting" /\ resync[c].stage # "waiting"
    PROVE  /\ \A r \in Nat : Awaits(c, r) => Awaits(c, r)'
           /\ job.kind \in {"receive", "resync"} => Awaits(c, job.rev)'
           /\ WaitingInv(c)'
<1>1. jobs[c] \in Seq(Jobs) /\ Len(jobs[c]) \in Nat
  BY RefsIn
<1>2. /\ Len(jobs'[c]) = Len(jobs[c]) + 1 /\ jobs'[c][Len(jobs[c]) + 1] = job
      /\ \A i \in 1..Len(jobs[c]) : jobs'[c][i] = jobs[c][i] /\ i \in 1..Len(jobs'[c])
      /\ Len(jobs[c]) + 1 \in 1..Len(jobs'[c])
  BY <1>1, Appended
<1>3. \A r \in Nat : Awaits(c, r) => Awaits(c, r)'
  BY <1>2 DEF Awaits
<1>4. job.kind \in {"receive", "resync"} => Awaits(c, job.rev)'
  BY <1>2 DEF Awaits
<1>5. WaitingInv(c)'
  <2>1. ASSUME NEW i \in 1..Len(jobs'[c]), NEW j \in 1..Len(jobs'[c]), jobs'[c][i].kind = "resync"
        PROVE  resync'[c].stage = "waiting" /\ (jobs'[c][j].kind = "resync" => i = j)
    <3>1. i \in 1..Len(jobs[c]) \/ i = Len(jobs[c]) + 1
      BY <1>1, <1>2
    <3>2. j \in 1..Len(jobs[c]) \/ j = Len(jobs[c]) + 1
      BY <1>1, <1>2
    <3>3. QED
      BY <1>2, <2>1, <3>1, <3>2 DEF WaitingInv
  <2>2. QED
    BY <2>1 DEF WaitingInv
<1>6. QED
  BY <1>3, <1>4, <1>5

\* A job that brings no snapshot joins.
LEMMA JoinQuiet ==
    ASSUME TypeOK, NEW c \in Clients, CurrentInv(c), NEW job \in Jobs, jobs'[c] = Append(jobs[c], job),
           job.kind \notin {"receive", "resync"}, rev'[c] = rev[c],
           direct'[c] = direct[c], stream'[c] = stream[c],
           channel'[c] = channel[c], seen'[c] = seen[c], resync'[c] = resync[c]
    PROVE  Quiet(c)
<1>1. WaitingInv(c) /\ rev[c] <= rev'[c]
  BY RefsIn DEF CurrentInv
<1>2. (\A r \in Nat : Awaits(c, r) => Awaits(c, r)') /\ WaitingInv(c)'
  BY <1>1, JoinedQueue
<1>3. QED
  BY <1>1, <1>2 DEF Quiet

\* No snapshot takes a client back.
LEMMA ReceiveForward ==
    ASSUME TypeOK, NEW c \in Clients, NEW r \in Nat, NEW d, NEW current \in BOOLEAN, NEW remember,
           NEW saved \in BOOLEAN, ReceiveTopology(c, r, d, current, remember, saved)
    PROVE  /\ rev'[c] \in Nat /\ rev[c] <= rev'[c] /\ r <= rev'[c]
           /\ \A b \in Clients \ {c} : rev'[b] = rev[b]
<1>1. rev[c] \in Nat
  BY RefsIn
<1>2. /\ \/ rev'[c] = rev[c] /\ (Older(c, r) \/ Kept(c, r, d))
         \/ rev'[c] = r /\ ~Older(c, r)
      /\ \A b \in Clients \ {c} : rev'[b] = rev[b]
  <2>1. /\ \/ Passed(c, d, saved) /\ (Older(c, r) \/ (current /\ Kept(c, r, d)))
           \/ Advanced(c, r) /\ ~Older(c, r) /\ ~current
           \/ Shown(c, r, d, saved) /\ ~Older(c, r)
        /\ \A b \in Clients \ {c} : ViewSame(b)
    BY ReceiveView
  <2>2. QED
    BY <2>1 DEF Passed, Advanced, Shown, ViewSame
<1>3. QED
  BY <1>1, <1>2 DEF Older, Kept

\* A snapshot leaves the queue: the client shows it or something newer.
LEMMA ReceiveCurrent ==
    ASSUME TypeOK, TypeOK', NEW c \in Clients, QueueInv(c), CurrentInv(c), Receive(c)
    PROVE  CurrentInv(c)'
<1>1. /\ jobs[c] # <<>> /\ Head(jobs[c]).kind \in {"receive", "resync"}
      /\ ReceiveTopology(c, Head(jobs[c]).rev, draft[c], TRUE, FALSE, FALSE)
      /\ jobs' = [jobs EXCEPT ![c] = Tail(@)]
      /\ resync' = IF Head(jobs[c]).kind = "resync"
                   THEN [resync EXCEPT ![c] = [stage |-> "none", rev |-> 0]] ELSE resync
      /\ UNCHANGED <<log, unpublished, direct, stream, channel, seen, losses>>
  BY DEF Receive, Running
<1>2. /\ Len(log) \in Nat /\ rev[c] \in Nat /\ seen[c] \in Nat /\ jobs[c] \in Seq(Jobs)
      /\ Len(jobs[c]) \in Nat
  BY RefsIn
<1> DEFINE r == Head(jobs[c]).rev
<1>3. r \in Nat /\ r \in Revisions
  BY <1>1, <1>2, HeadJob DEF Revisions
<1>4. rev'[c] \in Nat /\ rev[c] <= rev'[c] /\ r <= rev'[c]
  <2>1. TRUE \in BOOLEAN /\ FALSE \in BOOLEAN
    OBVIOUS
  <2>2. QED
    BY <1>1, <1>3, <2>1, ReceiveForward
<1>5. rev'[c] <= Len(log)
  BY <1>1 DEF TypeOK
<1>6. /\ jobs'[c] = Tail(jobs[c]) /\ Len(jobs'[c]) = Len(jobs[c]) - 1 /\ Head(jobs[c]) = jobs[c][1]
      /\ 1 \in 1..Len(jobs[c])
      /\ \A i \in 1..Len(jobs'[c]) : jobs'[c][i] = jobs[c][i + 1] /\ i + 1 \in 1..Len(jobs[c])
  <2>1. jobs'[c] = Tail(jobs[c])
    BY <1>1 DEF TypeOK
  <2>2. Len(jobs[c]) # 0
    BY <1>1, <1>2, EmptySeq
  <2>3. 1 \in 1..Len(jobs[c])
    BY <1>2, <2>2
  <2>4. Len(Tail(jobs[c])) = Len(jobs[c]) - 1 /\ Head(jobs[c]) = jobs[c][1]
    BY <1>1, <1>2, HeadTailProperties
  <2>5. \A i \in 1..Len(Tail(jobs[c])) : Tail(jobs[c])[i] = jobs[c][i + 1]
    BY <1>1, <1>2, HeadTailProperties
  <2>6. \A i \in 1..Len(Tail(jobs[c])) : i + 1 \in 1..Len(jobs[c])
    BY <1>2, <2>4
  <2>7. QED
    BY <2>1, <2>3, <2>4, <2>5, <2>6
<1>7. ASSUME NEW s \in Nat, Awaits(c, s) PROVE Awaits(c, s)' \/ s = r
  <2>1. PICK i \in 1..Len(jobs[c]) : jobs[c][i].kind \in {"receive", "resync"} /\ jobs[c][i].rev = s
    BY <1>7 DEF Awaits
  <2>2. CASE i = 1
    BY <1>6, <2>1, <2>2
  <2>3. CASE i # 1
    <3>1. i - 1 \in 1..Len(jobs'[c]) /\ jobs'[c][i - 1] = jobs[c][i]
      BY <1>2, <1>6, <2>3
    <3>2. QED
      BY <2>1, <3>1 DEF Awaits
  <2>4. QED
    BY <2>2, <2>3
<1>8. resync'[c] = IF Head(jobs[c]).kind = "resync" THEN [stage |-> "none", rev |-> 0] ELSE resync[c]
  BY <1>1 DEF TypeOK
<1>9. WaitingInv(c)'
  <2>1. ASSUME NEW i \in 1..Len(jobs'[c]), NEW j \in 1..Len(jobs'[c]), jobs'[c][i].kind = "resync"
        PROVE  resync'[c].stage = "waiting" /\ (jobs'[c][j].kind = "resync" => i = j)
    <3>1. /\ i + 1 \in 1..Len(jobs[c]) /\ jobs[c][i + 1].kind = "resync"
          /\ j + 1 \in 1..Len(jobs[c]) /\ jobs'[c][j] = jobs[c][j + 1]
      BY <1>6, <2>1
    <3>2. Head(jobs[c]).kind # "resync"
      BY <1>6, <3>1 DEF CurrentInv, WaitingInv
    <3>3. QED
      BY <1>8, <3>1, <3>2 DEF CurrentInv, WaitingInv
  <2>2. QED
    BY <2>1 DEF WaitingInv
<1>10. SeenInv(c)'
  <2>1. CASE seen[c] <= rev[c]
    BY <1>1, <1>2, <1>4, <2>1 DEF SeenInv
  <2>2. CASE Awaits(c, seen[c])
    <3>1. PICK s \in Nat : s = seen[c]
      BY <1>2
    <3>2. Awaits(c, s)' \/ s = r
      BY <1>7, <2>2, <3>1
    <3>3. Awaits(c, s)' => Awaits(c, seen[c])'
      BY <1>1, <3>1 DEF Awaits
    <3>4. QED
      BY <1>1, <1>4, <3>1, <3>2, <3>3 DEF SeenInv
  <2>3. QED
    BY <2>1, <2>2 DEF CurrentInv, SeenInv
<1>11. Coming(c) => Coming(c)'
  <2>1. CASE Awaits(c, Len(log))
    <3>1. PICK s \in Nat : s = Len(log)
      BY <1>2
    <3>2. Awaits(c, s)' \/ s = r
      BY <1>7, <2>1, <3>1
    <3>3. Awaits(c, s)' => Awaits(c, Len(log))'
      BY <1>1, <3>1 DEF Awaits
    <3>4. s = r => rev'[c] = Len(log')
      BY <1>1, <1>2, <1>4, <1>5, <3>1
    <3>5. QED
      BY <3>2, <3>3, <3>4 DEF Coming
  <2>2. rev[c] = Len(log) => rev'[c] = Len(log')
    BY <1>1, <1>2, <1>4, <1>5
  <2>3. QED
    BY <1>1, <2>1, <2>2 DEF Coming
<1>12. Asking(c) => resync'[c] = resync[c]
  <2>1. Head(jobs[c]).kind = "resync" => resync[c].stage = "waiting"
    BY <1>6 DEF CurrentInv, WaitingInv
  <2>2. QED
    BY <1>8, <2>1 DEF Asking
<1>13. Asking(c) => Asking(c)'
  BY <1>1, <1>12 DEF Asking
<1>14. stream'[c] # "open" => resync'[c].stage = "none"
  BY <1>1, <1>8 DEF CurrentInv
<1>15. direct'[c].stage = "idle" /\ FirstPages' = FirstPages /\ stream'[c] = stream[c]
  BY <1>1 DEF CurrentInv, FirstPages
<1>16. QED
  BY <1>9, <1>10, <1>11, <1>13, <1>14, <1>15 DEF CurrentInv

\* A GET that is asked for, unless one is outstanding.
LEMMA AskedIs ==
    ASSUME TypeOK, NEW c \in Clients, resync' = Asked(c)
    PROVE  /\ resync[c].stage = "none" => resync'[c].stage = "asked"
           /\ resync[c].stage # "none" => resync'[c] = resync[c]
           /\ \A b \in Clients \ {c} : resync'[b] = resync[b]
BY DEF Asked, TypeOK

\* Only a client that waits for an answer has one in its queue.
LEMMA NoAnswerQueued ==
    ASSUME NEW c \in Clients, WaitingInv(c), resync[c].stage # "waiting", jobs'[c] = jobs[c]
    PROVE  WaitingInv(c)'
BY DEF WaitingInv

\* A stream opens: its GET is not older than the subscription.
LEMMA OpenCurrent ==
    ASSUME TypeOK, NEW c \in Clients, CurrentInv(c), OnOpen(c)
    PROVE  CurrentInv(c)'
<1>1. /\ stream[c] = "connected" /\ resync' = Asked(c) /\ stream' = [stream EXCEPT ![c] = "open"]
      /\ UNCHANGED <<log, unpublished, rev, jobs, direct, channel, seen, losses>>
  BY DEF OnOpen
<1>2. stream'[c] = "open" /\ resync[c].stage = "none"
  BY <1>1 DEF TypeOK, CurrentInv
<1>3. resync'[c].stage = "asked"
  BY <1>1, <1>2, AskedIs
<1>4. WaitingInv(c)' /\ SeenInv(c)'
  BY <1>1, <1>2, NoAnswerQueued DEF CurrentInv, SeenInv, Awaits
<1>5. Asking(c)'
  BY <1>3 DEF Asking
<1>6. ~FirstPages'
  BY <1>1 DEF CurrentInv, FirstPages
<1>7. QED
  BY <1>1, <1>2, <1>4, <1>5, <1>6 DEF CurrentInv

\* An event is queued, or has been.
LEMMA EventCurrent ==
    ASSUME TypeOK, NEW c \in Clients, CurrentInv(c), OnEvent(c)
    PROVE  CurrentInv(c)'
<1>0. PICK r : r = Head(channel[c])
  OBVIOUS
<1>1. /\ stream[c] = "open" /\ channel[c] # <<>> /\ channel' = [channel EXCEPT ![c] = Tail(@)]
      /\ \/ r <= seen[c] /\ UNCHANGED <<seen, resync, jobs>>
         \/ /\ r > seen[c] /\ seen' = [seen EXCEPT ![c] = r]
            /\ resync' = Asked(c) \/ resync' = resync
            /\ Enqueue(c, Job("receive", NoEdit, r))
      /\ UNCHANGED <<log, unpublished, rev, direct, stream, losses>>
  BY <1>0 DEF OnEvent
<1>2. /\ Len(log) \in Nat /\ rev[c] \in Nat /\ rev[c] <= Len(log) /\ seen[c] \in Nat
      /\ seen[c] <= Len(log) /\ channel[c] \in Seq(Revisions) /\ Len(channel[c]) \in Nat
  BY RefsIn
<1>3. /\ channel'[c] = Tail(channel[c]) /\ Len(channel'[c]) = Len(channel[c]) - 1
      /\ r = channel[c][1] /\ r \in Revisions
      /\ \A i \in 1..Len(channel'[c]) : channel'[c][i] = channel[c][i + 1]
  <2>1. channel'[c] = Tail(channel[c])
    BY <1>1 DEF TypeOK
  <2>2. Head(channel[c]) = channel[c][1] /\ Head(channel[c]) \in Revisions
    BY <1>1, <1>2, HeadTailProperties
  <2>3. Len(Tail(channel[c])) = Len(channel[c]) - 1
    BY <1>1, <1>2, HeadTailProperties
  <2>4. \A i \in 1..Len(Tail(channel[c])) : Tail(channel[c])[i] = channel[c][i + 1]
    BY <1>1, <1>2, HeadTailProperties
  <2>5. QED
    BY <1>0, <2>1, <2>2, <2>3, <2>4
<1>4. r \in Nat /\ r <= Len(log)
  BY <1>2, <1>3 DEF Revisions
<1>5. ASSUME NEW i \in 1..Len(channel[c]), channel[c][i] = Len(log)
      PROVE  r = Len(log) \/ \E j \in 1..Len(channel'[c]) : channel'[c][j] = Len(log')
  <2>1. CASE i = 1
    BY <1>3, <1>5, <2>1
  <2>2. CASE i # 1
    <3>1. i - 1 \in 1..Len(channel'[c]) /\ channel'[c][i - 1] = channel[c][i]
      BY <1>2, <1>3, <2>2
    <3>2. QED
      BY <1>1, <1>5, <3>1
  <2>3. QED
    BY <2>1, <2>2
<1>6. direct'[c].stage = "idle" /\ FirstPages' = FirstPages /\ stream'[c] = "open"
  BY <1>1 DEF CurrentInv, FirstPages
<1>7. CASE r <= seen[c] /\ UNCHANGED <<seen, resync, jobs>>
  <2>1. r = Len(log) => rev[c] = Len(log) \/ Awaits(c, Len(log))
    <3>1. r = Len(log) => seen[c] = Len(log)
      BY <1>2, <1>4, <1>7
    <3>2. seen[c] = Len(log) /\ seen[c] <= rev[c] => rev[c] = Len(log)
      BY <1>2
    <3>3. QED
      BY <3>1, <3>2 DEF CurrentInv, SeenInv
  <2>2. Coming(c) => Coming(c)'
    BY <1>1, <1>5, <1>7, <2>1 DEF Coming, Awaits
  <2>3. Asking(c) => Asking(c)'
    BY <1>1, <1>7 DEF Asking
  <2>4. WaitingInv(c)' /\ SeenInv(c)'
    BY <1>1, <1>7 DEF CurrentInv, WaitingInv, SeenInv, Awaits
  <2>5. QED
    BY <1>1, <1>6, <2>2, <2>3, <2>4 DEF CurrentInv
<1>8. CASE /\ r > seen[c] /\ seen' = [seen EXCEPT ![c] = r]
           /\ resync' = Asked(c) \/ resync' = resync
           /\ Enqueue(c, Job("receive", NoEdit, r))
  <2>1. PICK job \in Jobs : job = Job("receive", NoEdit, r) /\ job.kind = "receive" /\ job.rev = r
    <3>1. Job("receive", NoEdit, r) \in Jobs
      BY <1>4 DEF Job, Jobs
    <3>2. Job("receive", NoEdit, r).kind = "receive" /\ Job("receive", NoEdit, r).rev = r
      BY DEF Job
    <3>3. QED
      BY <3>1, <3>2
  <2>2. jobs'[c] = Append(jobs[c], job) /\ seen'[c] = r
    BY <1>8, <2>1 DEF Enqueue, TypeOK
  <2>3. resync'[c] = resync[c] \/ (resync[c].stage = "none" /\ resync'[c].stage = "asked")
    <3>1. CASE resync' = resync
      BY <3>1
    <3>2. CASE resync' = Asked(c)
      BY <3>2, AskedIs
    <3>3. QED
      BY <1>8, <3>1, <3>2
  <2>4. (\A s \in Nat : Awaits(c, s) => Awaits(c, s)') /\ Awaits(c, r)' /\ WaitingInv(c)'
    <3>1. WaitingInv(c) /\ job.kind \in {"receive", "resync"}
      BY <2>1 DEF CurrentInv
    <3>2. /\ job.kind # "resync" => resync'[c].stage = resync[c].stage \/ resync[c].stage # "waiting"
          /\ job.kind = "resync" => resync'[c].stage = "waiting" /\ resync[c].stage # "waiting"
      BY <2>1, <2>3
    <3>3. (\A s \in Nat : Awaits(c, s) => Awaits(c, s)') /\ Awaits(c, job.rev)' /\ WaitingInv(c)'
      BY <2>2, <3>1, <3>2, JoinedQueue
    <3>4. QED
      BY <2>1, <3>3
  <2>5. SeenInv(c)'
    BY <2>2, <2>4 DEF SeenInv, Awaits
  <2>6. Coming(c) => Coming(c)'
    <3>1. PICK s \in Nat : s = Len(log)
      BY <1>2
    <3>2. Awaits(c, s)' => Awaits(c, Len(log))'
      BY <1>1, <3>1 DEF Awaits
    <3>3. Awaits(c, Len(log)) => Awaits(c, Len(log))'
      BY <2>4, <3>1, <3>2
    <3>4. r = Len(log) => Awaits(c, Len(log))'
      BY <2>4, <3>1, <3>2
    <3>5. QED
      BY <1>1, <1>5, <3>3, <3>4 DEF Coming
  <2>7. Asking(c) => Asking(c)'
    BY <1>1, <2>3 DEF Asking
  <2>8. QED
    BY <1>1, <1>6, <2>4, <2>5, <2>6, <2>7 DEF CurrentInv
<1>9. QED
  BY <1>1, <1>7, <1>8

\* The answer of a resynchronization joins the queue.
LEMMA AnswerCurrent ==
    ASSUME TypeOK, NEW c \in Clients, ResyncInv(c), CurrentInv(c), OnResync(c)
    PROVE  CurrentInv(c)'
<1>1. /\ resync[c].stage = "answered" /\ Enqueue(c, Job("resync", NoEdit, resync[c].rev))
      /\ resync' = [resync EXCEPT ![c].stage = "waiting"]
      /\ UNCHANGED <<log, unpublished, rev, direct, stream, channel, seen, losses>>
  BY DEF OnResync
<1>2. PICK r : r = resync[c].rev
  OBVIOUS
<1>3. r \in Nat
  BY <1>2 DEF TypeOK
<1>4. PICK job \in Jobs : job = Job("resync", NoEdit, r) /\ job.kind = "resync" /\ job.rev = r
  <2>1. Job("resync", NoEdit, r) \in Jobs
    BY <1>3 DEF Job, Jobs
  <2>2. Job("resync", NoEdit, r).kind = "resync" /\ Job("resync", NoEdit, r).rev = r
    BY DEF Job
  <2>3. QED
    BY <2>1, <2>2
<1>5. jobs'[c] = Append(jobs[c], job) /\ resync'[c].stage = "waiting"
  BY <1>1, <1>2, <1>4 DEF Enqueue, TypeOK
<1>6. (\A s \in Nat : Awaits(c, s) => Awaits(c, s)') /\ Awaits(c, job.rev)' /\ WaitingInv(c)'
  <2>1. WaitingInv(c) /\ job.kind \in {"receive", "resync"}
    BY <1>4 DEF CurrentInv
  <2>2. /\ job.kind # "resync" => resync'[c].stage = resync[c].stage \/ resync[c].stage # "waiting"
        /\ job.kind = "resync" => resync'[c].stage = "waiting" /\ resync[c].stage # "waiting"
    BY <1>1, <1>4, <1>5
  <2>3. QED
    BY <1>5, <2>1, <2>2, JoinedQueue
<1>7. Len(log) \in Nat /\ seen[c] \in Nat
  BY RefsIn
<1>8. SeenInv(c)'
  <2>1. PICK s \in Nat : s = seen[c]
    BY <1>7
  <2>2. Awaits(c, s)' => Awaits(c, seen[c])'
    BY <1>1, <2>1 DEF Awaits
  <2>3. Awaits(c, seen[c]) => Awaits(c, seen[c])'
    BY <1>6, <2>1, <2>2
  <2>4. QED
    BY <1>1, <2>3 DEF CurrentInv, SeenInv
<1>9. Coming(c) \/ Asking(c) => Coming(c)'
  <2>1. PICK s \in Nat : s = Len(log)
    BY <1>7
  <2>2. Awaits(c, s)' => Awaits(c, Len(log))'
    BY <1>1, <2>1 DEF Awaits
  <2>3. Awaits(c, Len(log)) => Awaits(c, Len(log))'
    BY <1>6, <2>1, <2>2
  <2>4. Asking(c) => Awaits(c, Len(log))'
    <3>1. Asking(c) => r = s
      BY <1>1, <1>2, <2>1 DEF Asking
    <3>2. QED
      BY <1>4, <1>6, <2>2, <3>1
  <2>5. QED
    BY <1>1, <2>3, <2>4 DEF Coming
<1>10. stream[c] = "open" /\ direct'[c].stage = "idle" /\ FirstPages' = FirstPages
  BY <1>1 DEF CurrentInv, FirstPages
<1>11. QED
  BY <1>1, <1>6, <1>8, <1>9, <1>10 DEF CurrentInv

\* The server answers a GET with the latest revision.
LEMMA ResyncCurrent ==
    ASSUME TypeOK, NEW c \in Clients, CurrentInv(c), ServeResync(c)
    PROVE  CurrentInv(c)'
<1>1. /\ resync[c].stage = "asked"
      /\ resync' = [resync EXCEPT ![c] = [stage |-> "answered", rev |-> Len(log)]]
      /\ UNCHANGED <<log, unpublished, rev, jobs, direct, stream, channel, seen, losses>>
  BY DEF ServeResync
<1>2. resync'[c] = [stage |-> "answered", rev |-> Len(log)]
  BY <1>1 DEF TypeOK
<1>3. Asking(c)'
  BY <1>1, <1>2 DEF Asking
<1>4. WaitingInv(c)' /\ SeenInv(c)'
  BY <1>1, NoAnswerQueued DEF CurrentInv, SeenInv, Awaits
<1>5. Coming(c) => Coming(c)'
  BY <1>1 DEF Coming, Awaits
<1>6. QED
  BY <1>1, <1>3, <1>4, <1>5 DEF CurrentInv, FirstPages

\* The GET fails: what it would have brought is on its way by itself.
LEMMA ResyncFailsCurrent ==
    ASSUME TypeOK, StreamsLast, NEW c \in Clients, CurrentInv(c), ResyncFails(c)
    PROVE  CurrentInv(c)'
<1>1. /\ resync[c].stage \in {"asked", "answered"} /\ "read" \in Losses /\ losses < MaxLosses
      /\ resync' = [resync EXCEPT ![c] = [stage |-> "none", rev |-> 0]]
      /\ losses' = losses + 1
      /\ UNCHANGED <<log, unpublished, rev, jobs, direct, stream, channel, seen>>
  BY DEF ResyncFails, Lose
<1>2. FirstPages
  <2>1. losses \in Nat /\ MaxLosses \in Nat
    BY RefsIn, LimitAssumption
  <2>2. CASE "page" \notin Losses
    BY <2>2 DEF FirstPages
  <2>3. CASE MaxLosses <= 1
    BY <1>1, <2>1, <2>3 DEF FirstPages
  <2>4. QED
    BY <1>1, <2>2, <2>3 DEF StreamsLast
<1>3. stream'[c] = "open" /\ Coming(c)'
  BY <1>1, <1>2 DEF CurrentInv, Coming, Awaits
<1>4. WaitingInv(c)' /\ SeenInv(c)'
  BY <1>1, NoAnswerQueued DEF CurrentInv, SeenInv, Awaits
<1>5. QED
  BY <1>1, <1>3, <1>4 DEF CurrentInv

\* The server knows of the stream, the browser not yet.
LEMMA ConnectCurrent ==
    ASSUME TypeOK, NEW c \in Clients, CurrentInv(c), Connect(c)
    PROVE  CurrentInv(c)'
<1>1. /\ stream[c] = "offline" /\ stream' = [stream EXCEPT ![c] = "connected"]
      /\ UNCHANGED <<log, unpublished, rev, jobs, direct, resync, channel, seen, losses>>
  BY DEF Connect
<1>2. stream'[c] = "connected" /\ resync[c].stage = "none"
  BY <1>1 DEF TypeOK, CurrentInv
<1>3. WaitingInv(c)' /\ SeenInv(c)'
  BY <1>1 DEF CurrentInv, WaitingInv, SeenInv, Awaits
<1>4. ~FirstPages'
  BY <1>1 DEF CurrentInv, FirstPages
<1>5. QED
  BY <1>1, <1>2, <1>3, <1>4 DEF CurrentInv

\* An event goes to every stream that is subscribed.
LEMMA PublishCurrent ==
    ASSUME TypeOK, NEW c \in Clients, CurrentInv(c), NEW r \in unpublished, Publish(r)
    PROVE  CurrentInv(c)'
<1>1. /\ unpublished' = unpublished \ {r}
      /\ channel' = [b \in Clients |->
                        IF stream[b] = "offline" THEN channel[b] ELSE Append(channel[b], r)]
      /\ UNCHANGED <<log, rev, jobs, direct, resync, stream, seen, losses>>
  BY DEF Publish
<1>2. WaitingInv(c)' /\ SeenInv(c)'
  BY <1>1 DEF CurrentInv, WaitingInv, SeenInv, Awaits
<1>3. stream[c] = "open" /\ Coming(c) => Coming(c)'
  <2>1. SUFFICES ASSUME stream[c] = "open", Coming(c) PROVE Coming(c)'
    OBVIOUS
  <2>2. channel[c] \in Seq(Revisions) /\ Len(channel[c]) \in Nat /\ r \in Revisions
    BY RefsIn DEF TypeOK, Revisions
  <2>3. channel'[c] = Append(channel[c], r)
    BY <1>1, <2>1
  <2>4. /\ Len(channel'[c]) = Len(channel[c]) + 1 /\ channel'[c][Len(channel[c]) + 1] = r
        /\ \A i \in 1..Len(channel[c]) : channel'[c][i] = channel[c][i] /\ i \in 1..Len(channel'[c])
        /\ Len(channel[c]) + 1 \in 1..Len(channel'[c])
    BY <2>2, <2>3, Appended
  <2>5. QED
    BY <1>1, <2>1, <2>4 DEF Coming, Awaits
<1>4. Asking(c) => Asking(c)'
  BY <1>1 DEF Asking
<1>5. QED
  BY <1>1, <1>2, <1>3, <1>4 DEF CurrentInv, FirstPages

\* A page that is loaded again shows the latest revision, and waits for its stream.
LEMMA ReloadCurrent ==
    ASSUME TypeOK, NEW c \in Clients, CurrentInv(c), Reload(c)
    PROVE  CurrentInv(c)'
<1>1. /\ rev'[c] = Len(log) /\ seen'[c] = Len(log) /\ jobs'[c] = <<>>
      /\ direct'[c] = NoRequest /\ resync'[c].stage = "none" /\ stream'[c] = "offline"
      /\ "page" \in Losses /\ losses' = losses + 1 /\ UNCHANGED log
  BY DEF Reload, Lose, TypeOK
<1>2. losses \in Nat /\ Len(log) \in Nat
  BY RefsIn
<1>3. ~FirstPages'
  BY <1>1, <1>2 DEF FirstPages
<1>4. Len(jobs'[c]) = 0
  BY <1>1
<1>5. WaitingInv(c)' /\ SeenInv(c)'
  BY <1>1, <1>2, <1>4 DEF WaitingInv, SeenInv
<1>6. QED
  BY <1>1, <1>3, <1>5 DEF CurrentInv, NoRequest

CurrentInvs == \A c \in Clients : CurrentInv(c)

\* What users do, and the saves that the timer starts.
LEMMA UserQuiet ==
    ASSUME TypeOK, NEW c \in Clients, StreamsLast, CurrentInvs, User(c) \/ Flush(c)
    PROVE  LogQuiet /\ \A b \in Clients : Quiet(b)
<1>1. \A b \in Clients : CurrentInv(b) /\ rev[b] <= rev[b]
  BY RefsIn DEF CurrentInvs
<1>2. ASSUME NEW job \in Jobs, Enqueue(c, job), job.kind \notin {"receive", "resync"},
             UNCHANGED <<log, unpublished, rev, direct, stream, channel, seen, resync, losses>>
      PROVE  LogQuiet /\ \A b \in Clients : Quiet(b)
  <2>1. jobs'[c] = Append(jobs[c], job) /\ \A b \in Clients \ {c} : jobs'[b] = jobs[b]
    BY <1>2 DEF Enqueue, TypeOK
  <2>2. Quiet(c)
    BY <1>1, <1>2, <2>1, JoinQuiet
  <2>3. ASSUME NEW b \in Clients \ {c} PROVE Quiet(b)
    BY <1>1, <1>2, <2>1, SameQuiet
  <2>4. QED
    BY <1>2, <2>2, <2>3 DEF LogQuiet
<1>3. ASSUME NEW e \in Edits, Commit(c, e) PROVE LogQuiet /\ \A b \in Clients : Quiet(b)
  <2>1. UNCHANGED <<log, unpublished, rev, jobs, direct, stream, channel, seen, resync, losses>>
    BY <1>3 DEF Commit
  <2>2. QED
    BY <1>1, <2>1, SameQuiet DEF LogQuiet
<1>4. ASSUME NEW e \in Edits, Patch(c, e) PROVE LogQuiet /\ \A b \in Clients : Quiet(b)
  <2>1. Job("patch", e, 0) \in Jobs /\ Job("patch", e, 0).kind = "patch"
    BY DEF Job, Jobs
  <2>2. QED
    BY <1>2, <1>4, <2>1 DEF Patch
<1>5. ASSUME NEW kind \in Clicks, Undo(c, kind) PROVE LogQuiet /\ \A b \in Clients : Quiet(b)
  <2>1. Job(kind, NoEdit, 0) \in Jobs /\ Job(kind, NoEdit, 0).kind \in {"undo", "redo"}
    BY <1>5 DEF Job, Jobs, Undo
  <2>2. QED
    BY <1>2, <1>5, <2>1 DEF Undo
<1>6. ASSUME StartSave(c) PROVE LogQuiet /\ \A b \in Clients : Quiet(b)
  <2>1. Job("save", NoEdit, 0) \in Jobs /\ Job("save", NoEdit, 0).kind = "save"
    BY DEF Job, Jobs
  <2>2. QED
    BY <1>2, <1>6, <2>1 DEF StartSave
<1>7. \A e \in Edits : ~SendDirect(c, e)
  BY DEF SendDirect, StreamsLast
<1>8. QED
  BY <1>3, <1>4, <1>5, <1>6, <1>7 DEF User, Flush, SaveNow

\* The end of a job: its client is not taken back.
LEMMA FinishQuiet ==
    ASSUME IInv, NEW c \in Clients, CurrentInvs, jobs[c] # <<>>,
           Head(jobs[c]).kind \notin {"receive", "resync"},
           NEW d, NEW current \in BOOLEAN, NEW remember, NEW saved \in BOOLEAN,
           req[c].rev \in Nat, Finish(c, d, current, remember, saved)
    PROVE  LogQuiet /\ \A b \in Clients : Quiet(b)
<1>0. TypeOK /\ \A b \in Clients : CurrentInv(b)
  BY DEF IInv, CurrentInvs
<1>1. /\ ReceiveTopology(c, req[c].rev, d, current, remember, saved)
      /\ jobs' = [jobs EXCEPT ![c] = Tail(@)]
      /\ UNCHANGED <<log, unpublished, direct, stream, channel, seen, resync, losses>>
  BY DEF Finish, StartOver
<1>2. rev[c] <= rev'[c] /\ \A b \in Clients \ {c} : rev'[b] = rev[b]
  BY <1>0, <1>1, ReceiveForward
<1>3. jobs'[c] = Tail(jobs[c]) /\ \A b \in Clients \ {c} : jobs'[b] = jobs[b]
  BY <1>0, <1>1 DEF TypeOK
<1>4. Quiet(c)
  BY <1>0, <1>1, <1>2, <1>3, TailQuiet
<1>5. ASSUME NEW b \in Clients \ {c} PROVE Quiet(b)
  <2>1. rev[b] <= rev'[b]
    BY <1>0, <1>2, RefsIn
  <2>2. QED
    BY <1>0, <1>1, <1>3, <2>1, SameQuiet
<1>6. QED
  BY <1>1, <1>4, <1>5 DEF LogQuiet

\* What the writes at the head of the queue do.
LEMMA BrowserQuiet ==
    ASSUME IInv, NEW c \in Clients, CurrentInvs,
           Begin(c) \/ Saved(c) \/ Patched(c) \/ Undone(c) \/ Reread(c) \/ Fetched(c) \/ GiveUp(c)
    PROVE  LogQuiet /\ \A b \in Clients : Quiet(b)
<1>0. /\ TypeOK /\ \A b \in Clients : CurrentInv(b) /\ rev[b] <= rev[b]
      /\ req[c] \in Requests /\ req[c].rev \in Nat /\ touched[c] \in BOOLEAN
  <2>1. TypeOK
    BY DEF IInv
  <2>2. \A b \in Clients : CurrentInv(b) /\ rev[b] <= rev[b]
    BY <2>1, RefsIn DEF CurrentInvs
  <2>3. req[c] \in Requests /\ touched[c] \in BOOLEAN
    BY <2>1 DEF TypeOK
  <2>4. req[c].rev \in Nat
    BY <2>3 DEF Requests
  <2>5. QED
    BY <2>1, <2>2, <2>3, <2>4
<1>1. ASSUME UNCHANGED <<log, unpublished, rev, jobs, direct, stream, channel, seen, resync, losses>>
      PROVE  LogQuiet /\ \A b \in Clients : Quiet(b)
  BY <1>0, <1>1, SameQuiet DEF LogQuiet
<1>2. ASSUME jobs[c] # <<>>, Head(jobs[c]).kind \notin {"receive", "resync"}, StartOver(c),
             UNCHANGED <<log, unpublished, rev, direct, stream, channel, seen, resync>>,
             losses' = losses \/ losses' = losses + 1
      PROVE  LogQuiet /\ \A b \in Clients : Quiet(b)
  <2>1. jobs'[c] = Tail(jobs[c]) /\ \A b \in Clients \ {c} : jobs'[b] = jobs[b]
    BY <1>0, <1>2 DEF TypeOK, StartOver
  <2>2. Quiet(c)
    BY <1>0, <1>2, <2>1, TailQuiet
  <2>3. ASSUME NEW b \in Clients \ {c} PROVE Quiet(b)
    BY <1>0, <1>2, <2>1, SameQuiet
  <2>4. QED
    BY <1>2, <2>2, <2>3 DEF LogQuiet
<1>3. CASE Begin(c)
  <2>1. UNCHANGED <<log, unpublished, direct, stream, channel, seen, resync, losses>>
    BY <1>3 DEF Begin
  <2>2. CASE UNCHANGED <<rev, jobs>>
    BY <1>1, <2>1, <2>2
  <2>3. CASE /\ UNCHANGED rev /\ StartOver(c) /\ jobs[c] # <<>>
             /\ Head(jobs[c]).kind \notin {"receive", "resync"}
    BY <1>2, <2>1, <2>3
  <2>4. QED
    <3>1. CASE BeginSave(c)
      BY <2>2, <3>1 DEF BeginSave
    <3>2. CASE BeginPatch(c)
      BY <2>2, <3>2 DEF BeginPatch
    <3>3. CASE BeginUndo(c)
      <4>1. CASE Restore(c, history, future) \/ Restore(c, future, history)
        BY <2>2, <4>1 DEF Restore
      <4>2. CASE (Running(c, {"undo"}, "idle") \/ Running(c, {"redo"}, "idle")) /\ StartOver(c) /\ UNCHANGED rev
        BY <2>3, <4>2 DEF Running
      <4>3. QED
        BY <3>3, <4>1, <4>2 DEF BeginUndo
    <3>4. QED
      BY <1>3, <3>1, <3>2, <3>3 DEF Begin
<1>4. TRUE \in BOOLEAN /\ FALSE \in BOOLEAN
  OBVIOUS
<1>5. CASE Saved(c)
  <2>1. PICK x \in BOOLEAN : x = ~touched[c]
    <3>1. touched[c] = TRUE \/ touched[c] = FALSE
      BY <1>0
    <3>2. QED
      BY <3>1
  <2>2. /\ jobs[c] # <<>> /\ Head(jobs[c]).kind \notin {"receive", "resync"}
        /\ Finish(c, Acknowledged(c, req[c].body), x, FALSE, x)
    BY <1>5, <2>1 DEF Saved, Running
  <2>3. QED
    BY <1>0, <2>2, FinishQuiet
<1>6. CASE Patched(c)
  <2>1. /\ jobs[c] # <<>> /\ Head(jobs[c]).kind \notin {"receive", "resync"}
        /\ Finish(c, draft[c], TRUE, TRUE, TRUE)
    BY <1>6 DEF Patched, Running
  <2>2. QED
    BY <1>0, <1>4, <2>1, FinishQuiet
<1>7. CASE Undone(c)
  <2>1. /\ jobs[c] # <<>> /\ Head(jobs[c]).kind \notin {"receive", "resync"}
        /\ Finish(c, Acknowledged(c, req[c].body), TRUE, FALSE, TRUE)
    BY <1>7 DEF Undone, Running
  <2>2. QED
    BY <1>0, <1>4, <2>1, FinishQuiet
<1>8. CASE Reread(c)
  BY <1>1, <1>8 DEF Reread
<1>9. CASE Fetched(c)
  <2>1. /\ jobs[c] # <<>> /\ Head(jobs[c]).kind \notin {"receive", "resync"}
        /\ Finish(c, draft[c], TRUE, FALSE, FALSE)
    BY <1>9 DEF Fetched, Running
  <2>2. QED
    BY <1>0, <1>4, <2>1, FinishQuiet
<1>10. CASE GiveUp(c)
  <2>1. jobs[c] # <<>> /\ Head(jobs[c]).kind \notin {"receive", "resync"}
    BY <1>10 DEF GiveUp, Running
  <2>2. losses' = losses \/ losses' = losses + 1
    BY <1>10 DEF GiveUp, Lose
  <2>3. QED
    BY <1>2, <1>10, <2>1, <2>2 DEF GiveUp
<1>11. QED
  BY <1>3, <1>5, <1>6, <1>7, <1>8, <1>9, <1>10

\* The server's answers to writes, and the readings of the queue.
LEMMA WriteQuiet ==
    ASSUME TypeOK, CurrentInvs, NEW c \in Clients,
           \/ Serve(c) \/ ServeDirect(c) \/ ServeGet(c) \/ Fail(c)
           \/ \E q \in late[c] : ServeLate(c, q)
    PROVE  LogQuiet /\ \A b \in Clients : Quiet(b)
<1>1. \A b \in Clients : CurrentInv(b) /\ rev[b] <= rev[b]
  BY RefsIn DEF CurrentInvs
<1>2. ASSUME NEW q, Answer(q) PROVE UNCHANGED <<log, unpublished>> \/ Len(log') \in unpublished'
  <2>1. CASE Current(q.base)
    <3>1. log' = Append(log, q.body) /\ unpublished' = unpublished \cup {Len(log) + 1}
      BY <1>2, <2>1 DEF Answer, Save
    <3>2. Len(Append(log, q.body)) = Len(log) + 1
      BY DEF TypeOK
    <3>3. QED
      BY <3>1, <3>2
  <2>2. CASE ~Current(q.base)
    BY <1>2, <2>2 DEF Answer
  <2>3. QED
    BY <2>1, <2>2
<1>3. UNCHANGED <<rev, jobs, direct, stream, channel, seen, resync>> \/ ServeDirect(c)
  BY DEF Serve, ServeGet, Fail, ServeLate
<1>4. ~ServeDirect(c)
  BY <1>1 DEF ServeDirect, Answer, CurrentInv
<1>5. LogQuiet
  BY <1>2, <1>4 DEF LogQuiet, Serve, ServeGet, Fail, ServeLate, Lose
<1>6. QED
  BY <1>1, <1>3, <1>4, <1>5, SameQuiet

\* The other clients, when an event of one client's connection comes.
LEMMA OthersQuiet ==
    ASSUME TypeOK, NEW c \in Clients, CurrentInvs,
           \/ OnOpen(c) \/ OnEvent(c) \/ OnResync(c) \/ Receive(c)
           \/ ServeResync(c) \/ Connect(c) \/ ResyncFails(c) \/ Reload(c),
           IInv
    PROVE  LogQuiet /\ \A b \in Clients \ {c} : Quiet(b)
<1>1. \A b \in Clients : CurrentInv(b) /\ rev[b] <= rev[b]
  BY RefsIn DEF CurrentInvs
<1>2. LogQuiet
  BY DEF LogQuiet, OnOpen, OnEvent, OnResync, Receive, ServeResync, Connect, ResyncFails, Reload, Lose
<1>3. \A b \in Clients \ {c} : rev'[b] = rev[b]
  <2>1. CASE Receive(c)
    <3>1. ReceiveTopology(c, Head(jobs[c]).rev, draft[c], TRUE, FALSE, FALSE)
      BY <2>1 DEF Receive
    <3>2. TRUE \in BOOLEAN /\ FALSE \in BOOLEAN
      OBVIOUS
    <3>3. \A b \in Clients \ {c} : ViewSame(b)
      BY <3>1, <3>2, ReceiveView
    <3>4. QED
      BY <3>3 DEF ViewSame
  <2>2. CASE Reload(c)
    BY <2>2 DEF Reload
  <2>3. QED
    BY <2>1, <2>2 DEF OnOpen, OnEvent, OnResync, ServeResync, Connect, ResyncFails
<1>4. \A b \in Clients \ {c} : resync'[b] = resync[b]
  <2>1. Asked(c) = resync' => \A b \in Clients \ {c} : resync'[b] = resync[b]
    BY AskedIs
  <2>2. QED
    BY <2>1 DEF TypeOK, OnOpen, OnEvent, OnResync, Receive, ServeResync, Connect, ResyncFails, Reload
<1>5. \A b \in Clients \ {c} :
         jobs'[b] = jobs[b] /\ direct'[b] = direct[b] /\ stream'[b] = stream[b]
         /\ channel'[b] = channel[b] /\ seen'[b] = seen[b]
  BY DEF TypeOK, Enqueue, OnOpen, OnEvent, OnResync, Receive, ServeResync, Connect, ResyncFails, Reload
<1>6. ASSUME NEW b \in Clients \ {c} PROVE Quiet(b)
  BY <1>1, <1>3, <1>4, <1>5, <1>6, SameQuiet
<1>7. QED
  BY <1>2, <1>6

\* Every step keeps the invariant.
LEMMA CurrentNext ==
    ASSUME IInv, TypeOK', StreamsLast, CurrentInvs, [Next]_vars
    PROVE  CurrentInvs'
<1>0. TypeOK /\ \A c \in Clients : CurrentInv(c) /\ QueueInv(c) /\ ResyncInv(c) /\ rev[c] <= rev[c]
  <2>1. TypeOK
    BY DEF IInv
  <2>2. QED
    BY <2>1, RefsIn DEF IInv, ClientInv, CurrentInvs
<1>1. ASSUME LogQuiet, NEW c \in Clients, Quiet(c) PROVE CurrentInv(c)'
  BY <1>0, <1>1, QuietStep
<1>2. ASSUME LogQuiet, \A c \in Clients : Quiet(c) PROVE CurrentInvs'
  BY <1>1, <1>2 DEF CurrentInvs
<1>3. ASSUME NEW c \in Clients, CurrentInv(c)', LogQuiet, \A b \in Clients \ {c} : Quiet(b)
      PROVE  CurrentInvs'
  BY <1>1, <1>3 DEF CurrentInvs
<1>4. CASE UNCHANGED vars
  <2>1. UNCHANGED <<log, unpublished, rev, jobs, direct, stream, channel, seen, resync, losses>>
    BY <1>4 DEF vars
  <2>2. QED
    BY <1>0, <1>2, <2>1, SameQuiet DEF LogQuiet
<1>5. ASSUME NEW c \in Clients, User(c) \/ Flush(c) PROVE CurrentInvs'
  BY <1>0, <1>2, <1>5, UserQuiet
<1>6. ASSUME NEW c \in Clients, Browser(c) PROVE CurrentInvs'
  <2>1. CASE \/ Begin(c) \/ Saved(c) \/ Patched(c) \/ Undone(c) \/ Reread(c) \/ Fetched(c)
             \/ GiveUp(c)
    BY <1>2, <2>1, BrowserQuiet
  <2>2. ~DirectDone(c) /\ ~DirectRefused(c)
    BY <1>0 DEF DirectDone, DirectRefused, CurrentInv
  <2>3. CASE OnOpen(c) \/ OnEvent(c) \/ OnResync(c) \/ Receive(c)
    <3>1. CurrentInv(c)'
      BY <1>0, <2>3, OpenCurrent, EventCurrent, AnswerCurrent, ReceiveCurrent
    <3>2. QED
      BY <1>0, <1>3, <2>3, <3>1, OthersQuiet
  <2>4. QED
    BY <1>6, <2>1, <2>2, <2>3 DEF Browser
<1>7. CASE Server
  <2>1. ASSUME NEW c \in Clients, Serve(c) \/ ServeDirect(c) \/ ServeGet(c) PROVE CurrentInvs'
    BY <1>0, <1>2, <2>1, WriteQuiet
  <2>2. ASSUME NEW c \in Clients, ServeResync(c) \/ Connect(c) PROVE CurrentInvs'
    <3>1. CurrentInv(c)'
      BY <1>0, <2>2, ResyncCurrent, ConnectCurrent
    <3>2. QED
      BY <1>0, <1>3, <2>2, <3>1, OthersQuiet
  <2>3. ASSUME NEW r \in unpublished, Publish(r) PROVE CurrentInvs'
    BY <1>0, <2>3, PublishCurrent DEF CurrentInvs
  <2>4. QED
    BY <1>7, <2>1, <2>2, <2>3 DEF Server
<1>8. CASE Loss
  <2>1. ASSUME NEW c \in Clients, Fail(c) \/ (\E q \in late[c] : ServeLate(c, q)) PROVE CurrentInvs'
    BY <1>0, <1>2, <2>1, WriteQuiet
  <2>2. \A c \in Clients : ~Break(c)
    BY DEF Break, Lose, StreamsLast
  <2>3. ASSUME NEW c \in Clients, ResyncFails(c) \/ Reload(c) PROVE CurrentInvs'
    <3>1. CurrentInv(c)'
      BY <1>0, <2>3, ResyncFailsCurrent, ReloadCurrent
    <3>2. QED
      BY <1>0, <1>3, <2>3, <3>1, OthersQuiet
  <2>4. QED
    BY <1>8, <2>1, <2>2, <2>3 DEF Loss
<1>9. QED
  BY <1>4, <1>5, <1>6, <1>7, <1>8 DEF Next

\* A client that is online and has nothing left to receive shows the latest revision
\* (app.js, collaboration.js): when streams last, nothing is written past the queue, and
\* no reading fails for a page that was loaded again.
THEOREM LatestAtRest ==
    ASSUME "stream" \notin Losses, "direct" \notin Ways,
           ~({"page", "read"} \subseteq Losses) \/ MaxLosses <= 1
    PROVE  Spec => []CurrentAtRest
<1>0. StreamsLast
  BY DEF StreamsLast
<1>1. Init => CurrentInvs
  <2> SUFFICES ASSUME Init, NEW c \in Clients PROVE CurrentInv(c)
    BY DEF CurrentInvs
  <2>1. /\ direct[c] = NoRequest /\ jobs[c] = <<>> /\ rev[c] = 1 /\ seen[c] = 1
        /\ stream[c] = "open" /\ Len(log) = 1
    BY DEF Init
  <2>2. Len(jobs[c]) = 0
    BY <2>1
  <2>3. WaitingInv(c) /\ SeenInv(c) /\ Coming(c)
    BY <2>1, <2>2 DEF WaitingInv, SeenInv, Coming
  <2>4. QED
    BY <2>1, <2>3 DEF CurrentInv, NoRequest
<1>2. IInv /\ IInv' /\ CurrentInvs /\ [Next]_vars => CurrentInvs'
  BY <1>0, CurrentNext DEF IInv
<1>3. IInv /\ CurrentInvs => CurrentAtRest
  <2> SUFFICES ASSUME IInv, CurrentInvs, NEW c \in Clients, AtRest(c) PROVE rev[c] = Len(log)
    BY DEF CurrentAtRest
  <2>1. TypeOK /\ CurrentInv(c)
    BY DEF IInv, CurrentInvs
  <2>2. /\ unpublished = {} /\ channel[c] = <<>> /\ jobs[c] = <<>> /\ resync[c].stage = "none"
        /\ stream[c] = "open"
    BY DEF AtRest
  <2>3. Len(channel[c]) = 0 /\ Len(jobs[c]) = 0
    BY <2>2
  <2>4. QED
    BY <2>1, <2>2, <2>3 DEF CurrentInv, Coming, Asking, Awaits
<1>4. QED
  BY <1>1, <1>2, <1>3, Invariance, PTL DEF Spec

=============================================================================
