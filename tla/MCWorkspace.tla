---------------------------- MODULE MCWorkspace ----------------------------
(* Instances of Workspace for TLC: two maps, and a third that may be made.  *)
EXTENDS Workspace, TLC

CONSTANTS p, q, r

\* The two maps that exist at first are alike.
Alike == Permutations({p, q})
=============================================================================
