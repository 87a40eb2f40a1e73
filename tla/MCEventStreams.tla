--------------------------- MODULE MCEventStreams ---------------------------
(* Instances of EventStreams for TLC.                                       *)
EXTENDS EventStreams, TLC

CONSTANTS s1, s2, t1, a, b, c1

\* One session, which reads one of two organizations.
Access == c1 :> {a}

OneMap == (s1 :> t1) @@ (s2 :> t1)
OneSession == (s1 :> c1) @@ (s2 :> c1)
=============================================================================
