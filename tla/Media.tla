------------------------------- MODULE Media -------------------------------
(***************************************************************************)
(* Photos (handler/photos.go, handler/duplicate.go, media/store.go): a     *)
(* photo is named by the document of its map, in the database, and is a    *)
(* file in the media directory.  The two are written one after the other,  *)
(* by requests that hold no lock in common; the server may stop between    *)
(* any two steps, and sweeps the directory when it starts.                 *)
(***************************************************************************)
EXTENDS Naturals, FiniteSets

CONSTANTS
    Maps,        \* identities of maps
    Photos,      \* identities of photos; a copy keeps those of its source
    Requests,    \* requests the server handles at a time
    Existing,    \* maps at the start
    MaxMishaps   \* bound: failed file operations, lost answers, crashes

ASSUME MediaAssumption == Existing \subseteq Maps /\ MaxMishaps \in Nat

VARIABLES
    maps,      \* the maps of the database
    named,     \* the photos their documents name, as <<map, photo>>
    files,     \* the files of the media directory
    drawn,     \* identities of maps and photos drawn so far: none is drawn twice
    request,   \* what each request is about to do
    up,        \* whether the server accepts requests
    left,      \* the mishaps the bound leaves
    lost,      \* history: photos of an upload that committed and was told otherwise, and
               \* files that the clearing up of such a copy took from its map
    stray      \* history: a mishap may have left files since the last whole sweep

mediaVars == <<maps, named, files, drawn, request, up, left, lost, stray>>

Idle == [kind |-> "idle", map |-> {}, from |-> {}, names |-> {}, todo |-> {}]

MediaInit ==
    /\ maps = Existing /\ named = {} /\ files = {} /\ drawn = Existing
    /\ request = [r \in Requests |-> Idle]
    /\ up = TRUE
    /\ left = MaxMishaps /\ lost = {} /\ stray = FALSE

Of(m) == {m} \X Photos

Mishap == left > 0 /\ left' = left - 1 /\ stray' = TRUE
Calm == UNCHANGED <<left, stray>>

Becomes(r, q) == request' = [request EXCEPT ![r] = q]
Doing(kind, m, from, todo) ==
    [kind |-> kind, map |-> {m}, from |-> from, names |-> todo, todo |-> todo]
Removing(q, gone) == IF gone = {} THEN Idle ELSE [q EXCEPT !.kind = "remove", !.todo = gone]

-----------------------------------------------------------------------------
(* Uploads.                                                                 *)

\* uploadPhotos begins: every photo gets an identity of its own.  Whether the
\* map exists is the commit's question, not this one's.
Upload(r, m, ps) ==
    /\ up /\ request[r] = Idle /\ m \in drawn /\ ps # {} /\ ps \cap drawn = {}
    /\ drawn' = drawn \cup ps
    /\ Becomes(r, Doing("upload", m, {}, {m} \X ps))
    /\ UNCHANGED <<maps, named, files, up, lost>> /\ Calm

\* Mutant: a failed upload leaves what it wrote.
UnsavedLast(q) == {}

\* removeSaved: the files a failed upload has written.
Unsaved(q) == q.names \ q.todo

\* Save writes the next file; or it fails, takes back what it wrote, which may
\* fail too, and the upload removes the others.
WriteFile(r, f) ==
    LET q == request[r] IN
    /\ q.kind = "upload" /\ f \in q.todo
    /\ \/ files' = files \cup {f} /\ Becomes(r, [q EXCEPT !.todo = @ \ {f}]) /\ Calm
       \/ UNCHANGED files /\ Becomes(r, Removing(q, Unsaved(q))) /\ Calm
       \/ files' = files \cup {f} /\ Becomes(r, Removing(q, Unsaved(q))) /\ Mishap
    /\ UNCHANGED <<maps, named, drawn, up, lost>>

\* Mutant: the document is saved before the last file.
WrittenAlmost(q) == Cardinality(q.todo) <= 1

\* What a document will name is stored.
Written(q) == q.todo = {}

\* mutate appends the photos, refuses them, or commits without an answer.
CommitUpload(r) ==
    LET q == request[r] IN
    /\ q.kind = "upload" /\ Written(q)
    /\ \/ /\ q.map \subseteq maps /\ named' = named \cup q.names
          /\ Becomes(r, Idle) /\ Calm /\ UNCHANGED lost
       \/ /\ UNCHANGED <<named, lost>>
          /\ Becomes(r, Removing(q, Unsaved(q))) /\ Calm
       \/ /\ q.map \subseteq maps /\ named' = named \cup q.names
          /\ lost' = lost \cup q.names
          /\ Becomes(r, Removing(q, Unsaved(q))) /\ Mishap
    /\ UNCHANGED <<maps, files, drawn, up>>

-----------------------------------------------------------------------------
(* Removals.                                                                *)

\* A mutation that takes photos off a document (deletePhoto, or the deletion of
\* what they are attached to); without an answer their files stay.
Detach(r, m, gone) ==
    /\ up /\ request[r] = Idle
    /\ gone # {} /\ gone \subseteq named
    /\ named' = named \ gone
    /\ \/ Becomes(r, Doing("remove", m, {}, gone)) /\ Calm
       \/ UNCHANGED request /\ Mishap
    /\ UNCHANGED <<maps, files, drawn, up, lost>>

\* Remove takes the next file, or fails and is logged.
RemoveFile(r, f) ==
    LET q == request[r] IN
    /\ q.kind = "remove" /\ f \in q.todo
    /\ Becomes(r, Removing(q, q.todo \ {f}))
    /\ \/ files' = files \ {f} /\ Calm
       \/ UNCHANGED files /\ Mishap
    /\ UNCHANGED <<maps, named, drawn, up, lost>>

\* deleteTopology: the map goes, and then its directory.
DeleteMap(r, m) ==
    /\ up /\ request[r] = Idle /\ m \in maps
    /\ maps' = maps \ {m} /\ named' = named \ Of(m)
    /\ \/ Becomes(r, Doing("discard", m, {}, {})) /\ Calm
       \/ UNCHANGED request /\ Mishap
    /\ UNCHANGED <<files, drawn, up, lost>>

\* History: a copy takes the directory of a map that is there, whoever wrote to it.
LostWith(q, taken) == lost \cup {f \in taken : q.from # {} /\ f[1] \in maps}

\* RemoveTopology: the whole directory, or a part of it and an error.
Discard(r) ==
    LET directory == files \cap (request[r].map \X Photos) IN
    /\ request[r].kind = "discard"
    /\ Becomes(r, Idle)
    /\ \/ files' = files \ directory /\ lost' = LostWith(request[r], directory) /\ Calm
       \/ \E part \in SUBSET directory :
            part # directory /\ files' = files \ part /\ lost' = LostWith(request[r], part) /\ Mishap
    /\ UNCHANGED <<maps, named, drawn, up>>

-----------------------------------------------------------------------------
(* Copies.                                                                  *)

\* createMu: one copy at a time, to the end of its own clearing up.
Copying == \E r \in Requests : request[r].from # {}

\* duplicateTopology reads its source and goes on with this snapshot of it.
Copy(r, m, n) ==
    /\ up /\ request[r] = Idle /\ ~Copying
    /\ m \in maps /\ n \notin drawn
    /\ drawn' = drawn \cup {n}
    /\ Becomes(r, Doing("copy", n, {m}, {n} \X {f[2] : f \in named \cap Of(m)}))
    /\ UNCHANGED <<maps, named, files, up, lost>> /\ Calm

\* The deferred RemoveTopology of a copy that was not told it is committed.
Uncopied(q) == [q EXCEPT !.kind = "discard"]

\* copyPhoto of the next photo; it fails when the file of the source is gone.
CopyFile(r, f) ==
    LET q == request[r] IN
    /\ q.kind = "copy" /\ f \in q.todo
    /\ \/ /\ q.from \X {f[2]} \subseteq files
          /\ files' = files \cup {f}
          /\ Becomes(r, [q EXCEPT !.todo = @ \ {f}])
       \/ UNCHANGED files /\ Becomes(r, Uncopied(q))
    /\ UNCHANGED <<maps, named, drawn, up, lost>> /\ Calm

\* Create commits the copy, refuses it, or commits it without an answer.
CreateCopy(r) ==
    LET q == request[r] IN
    /\ q.kind = "copy" /\ Written(q)
    /\ \/ /\ maps' = maps \cup q.map /\ named' = named \cup q.names
          /\ Becomes(r, Idle) /\ Calm
       \/ /\ UNCHANGED <<maps, named>>
          /\ Becomes(r, Uncopied(q)) /\ Calm
       \/ /\ maps' = maps \cup q.map /\ named' = named \cup q.names
          /\ Becomes(r, Uncopied(q)) /\ Mishap
    /\ UNCHANGED <<files, drawn, up, lost>>

-----------------------------------------------------------------------------
(* Crashes and the sweep.                                                   *)

\* The server stops between two steps of its requests.
Crash ==
    /\ up /\ up' = FALSE /\ Mishap
    /\ request' = [r \in Requests |-> Idle]
    /\ UNCHANGED <<maps, named, files, drawn, lost>>

\* sweepOrphanedMedia before the server accepts requests: whole, or skipped or
\* stopped half-way by an error.
Start ==
    /\ ~up /\ up' = TRUE
    /\ \/ files' = files \cap named /\ stray' = FALSE
       \/ \E part \in SUBSET (files \ named) : files' = files \ part /\ UNCHANGED stray
    /\ UNCHANGED <<maps, named, drawn, request, left, lost>>

MediaNext ==
    \/ \E r \in Requests, m \in Maps :
          \/ \E ps \in SUBSET Photos : Upload(r, m, ps)
          \/ \E gone \in SUBSET Of(m) : Detach(r, m, gone)
          \/ DeleteMap(r, m)
          \/ \E n \in Maps : Copy(r, m, n)
    \/ \E r \in Requests, f \in Maps \X Photos : WriteFile(r, f) \/ RemoveFile(r, f) \/ CopyFile(r, f)
    \/ \E r \in Requests : CommitUpload(r) \/ Discard(r) \/ CreateCopy(r)
    \/ Crash
    \/ Start

MediaSpec == MediaInit /\ [][MediaNext]_mediaVars

-----------------------------------------------------------------------------
(* Properties.                                                              *)

\* The type invariant.
MediaTypeOK ==
    /\ maps \subseteq Maps /\ drawn \subseteq Maps \cup Photos
    /\ named \subseteq Maps \X Photos /\ files \subseteq Maps \X Photos /\ lost \subseteq Maps \X Photos
    /\ request \in [Requests ->
          [kind : {"idle", "upload", "remove", "discard", "copy"}, map : SUBSET Maps, from : SUBSET Maps,
           names : SUBSET (Maps \X Photos), todo : SUBSET (Maps \X Photos)]]
    /\ up \in BOOLEAN /\ stray \in BOOLEAN /\ left \in Nat

\* A photo that a document names has its file, whatever uploads, removals,
\* copies, crashes and sweeps came between (uploadPhotos and duplicateTopology write the
\* files first).  Excepted are the photos of an upload that committed and was told that
\* it failed, and the files that a copy that committed and was told that it failed takes
\* with the directory of its map: its own ones, and those that other requests, which
\* were told that they succeeded, wrote there meanwhile (duplicate.go:84).
PhotosStored == named \ lost \subseteq files

\* At rest there is no file that no document names, unless a crash or an error
\* left one since the last whole sweep: a removal racing an upload to the map, or
\* a copy of it, forgets nothing (removeSaved, mutate, RemoveTopology, Sweep).
NothingStray ==
    (up /\ ~stray /\ \A r \in Requests : request[r] = Idle) => files \subseteq named
=============================================================================
