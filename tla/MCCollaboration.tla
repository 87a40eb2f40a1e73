-------------------------- MODULE MCCollaboration --------------------------
(* Instances of Collaboration for TLC.                                      *)
EXTENDS Collaboration, TLC

CONSTANTS c1, c2, e1, e2, e3

\* The first client makes two of the edits.
Owners == (e1 :> c1) @@ (e2 :> c1) @@ (e3 :> c2)
OwnersTwo == (e1 :> c1) @@ (e2 :> c2)
OwnerOne == e1 :> c1
=============================================================================
