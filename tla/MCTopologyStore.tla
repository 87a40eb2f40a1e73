-------------------------- MODULE MCTopologyStore --------------------------
(* Instances of TopologyStore for TLC.                                      *)
EXTENDS TopologyStore, TLC

\* Requests are interchangeable, and so are the names of organizations.
Interchangeable == Permutations(Requests) \cup Permutations(Names)

\* Bound: the operations that meet in one behaviour, edits of a map and its links
\* or creations with what makes room for them.
Meeting ==
    \E ops \in {{"replace", "move", "share", "revoke"}, {"create", "duplicate", "move", "delete"}} :
        \A w \in Requests : op[w] \in ops \cup {"none"}
=============================================================================
