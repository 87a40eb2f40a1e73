----------------------------- MODULE SharedMaps -----------------------------
(***************************************************************************)
(* What the map store promises, without saying how.  A map is the set of   *)
(* the edits its revision contains.  Every edit takes effect at once, at   *)
(* most once, and advances the revision by one; no edit makes an earlier   *)
(* one disappear; a removed map never comes back under the same id.        *)
(*                                                                         *)
(* README.md:266 of the repository states it: "Mutations lock the row,     *)
(* enforce the optional `If-Match: "rev-N"` precondition, validate the next*)
(* aggregate, increment its revision, and commit atomically."              *)
(***************************************************************************)
EXTENDS Naturals

CONSTANTS
    Maps,       \* map ids (128 random bits in the program)
    Requests,   \* requests of clients; an edit is named by its request
    InitialMaps \* the maps that exist at the start

VARIABLES
    maps,    \* maps[m]: the revision of m (0: no such map) and its edits
    minted,  \* the ids ever given to a map
    applied  \* the requests that have taken effect

vars == <<maps, minted, applied>>

NoMap == [rev |-> 0, doc |-> {}]

Exists(m) == maps[m].rev > 0

Init ==
    /\ maps = [m \in Maps |-> IF m \in InitialMaps THEN [NoMap EXCEPT !.rev = 1] ELSE NoMap]
    /\ minted = InitialMaps
    /\ applied = {}

TakeEffect(w) ==
    /\ w \notin applied
    /\ applied' = applied \cup {w}

\* A new map starts at revision 1: blank, or with edits copied from a saved map.
Create(w, m, copied) ==
    /\ m \notin minted
    /\ minted' = minted \cup {m}
    /\ maps' = [maps EXCEPT ![m] = [rev |-> 1, doc |-> copied \cup {w}]]

Edit(w, m) ==
    /\ Exists(m)
    /\ maps' = [maps EXCEPT ![m] = [rev |-> @.rev + 1, doc |-> @.doc \cup {w}]]
    /\ UNCHANGED minted

Remove(w, m) ==
    /\ Exists(m)
    /\ maps' = [maps EXCEPT ![m] = NoMap]
    /\ UNCHANGED minted

Next ==
    \E w \in Requests :
        /\ TakeEffect(w)
        /\ \E m \in Maps : \/ \E copied \in SUBSET applied : Create(w, m, copied)
                         \/ Edit(w, m)
                         \/ Remove(w, m)

Spec == Init /\ [][Next]_vars
=============================================================================
