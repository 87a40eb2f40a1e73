---------------------------- MODULE MCDirectory ----------------------------
(* Instances of Directory for TLC.                                          *)
EXTENDS Directory, TLC

CONSTANTS o1, o2, o3, nA, nB

\* The organizations but Default are interchangeable, and so are the names
\* that are not reserved.
Interchangeable == Permutations({o1, o2, o3}) \cup Permutations({nA, nB})
=============================================================================
