--------------------------- MODULE MCRequestLocks ---------------------------
(* Instances of RequestLocks for TLC.                                       *)
EXTENDS RequestLocks, TLC
=============================================================================
