------------------------------ MODULE MCMedia -------------------------------
(* An instance of Media for TLC: a map, a copy of it and three photos.      *)
EXTENDS Media, TLC

CONSTANTS m1, m2, a, b, c, r1, r2

Same == Permutations({a, b, c}) \cup Permutations({r1, r2})
=============================================================================
