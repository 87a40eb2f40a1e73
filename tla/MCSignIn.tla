------------------------------ MODULE MCSignIn ------------------------------
(* Instances of SignIn for TLC: one account that two browsers behind one    *)
(* address sign in to.                                                      *)
EXTENDS SignIn, TLC

CONSTANTS anna, p1, p2, r1

OneHost == [p \in {p1, p2} |-> "host"]
Browsers == Permutations({p1, p2})
=============================================================================
