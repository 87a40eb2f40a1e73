---------------------------- MODULE RequestLocks ----------------------------
(***************************************************************************)
(* What the goroutines of the server hold while they wait.  A request      *)
(* passes through the locks of the handlers (directoryMu, createMu), the   *)
(* mutex of auth.Manager, the connections of the pool and the row locks of *)
(* Postgres in an order its handler fixes.  This module keeps that order   *)
(* and nothing else: a path is the sequence of the sets of resources the   *)
(* handler holds, and a request waits wherever the next set has a resource *)
(* that another request withholds.  TopologyStore has the data.            *)
(*                                                                         *)
(* Every request first resolves its session, and on the route of a map it  *)
(* reads the map; that prologue is a "read" and is not repeated in the     *)
(* other paths.  Consecutive visits to a resource under the same holdings  *)
(* are one visit.                                                          *)
(***************************************************************************)
EXTENDS Naturals, Sequences, FiniteSets

CONSTANTS
    Maps,             \* topology ids
    Requests,         \* requests, each sent at most once
    Connections,      \* config.MaxConns of the pool
    MaxTransactions   \* bound: requests at once that open a transaction on a map

ASSUME RequestsAssumption == IsFiniteSet(Requests) /\ Maps # {}
ASSUME PoolAssumption   == Connections \in Nat \ {0} /\ MaxTransactions \in Nat

VARIABLES
    kind,  \* what each request asks for; "none" before it is sent
    topo,  \* its map
    pos    \* how far along its path it is

lockVars == <<kind, topo, pos>>

-----------------------------------------------------------------------------
(* The paths.  "dir" is directoryMu held for reading, "excl" for writing,   *)
(* "pending" a writer that waits and lets no new reader in; "create" is     *)
(* createMu, "mu" the mutex of auth.Manager, "conn" a connection and "row"  *)
(* the lock on the map's row.                                               *)

\* Session; Get; CanAccessTopology.
ReadPath == <<{}, {"mu"}, {}, {"conn"}, {}, {"mu"}, {}>>

\* mutate and deleteTopology: the authorization is repeated inside the
\* transaction, which holds its connection and its row until it commits.
WritePath ==
    <<{}, {"dir"}, {"dir", "conn"}, {"dir", "conn", "row"}, {"dir", "conn", "row", "mu"},
      {"dir", "conn", "row"}, {"dir"}, {}>>

\* variant: createMu is taken before directoryMu
CreatePathInverted ==
    <<{}, {"create"}, {"create", "dir"}, {"create", "dir", "mu"}, {"create", "dir"},
      {"create", "dir", "conn"}, {"create", "dir"}, {}>>

\* createTopology: session; organization; session; then, under createMu, the
\* count and the insert.
CreatePath ==
    <<{}, {"dir"}, {"dir", "mu"}, {"dir"}, {"dir", "conn"}, {"dir"}, {"dir", "mu"}, {"dir"},
      {"dir", "create"}, {"dir", "create", "conn"}, {"dir", "create"}, {}>>

\* variant: the source is authorized while its connection is kept
CopyPathKeeping ==
    <<{}, {"dir"}, {"dir", "conn"}, {"dir", "conn", "mu"}, {"dir", "conn"},
      {"dir", "conn", "create"}, {"dir", "create"}, {}>>

\* duplicateTopology: source; session; then, under createMu, the count, the
\* files and the insert.
CopyPath ==
    <<{}, {"dir"}, {"dir", "conn"}, {"dir"}, {"dir", "mu"}, {"dir"},
      {"dir", "create"}, {"dir", "create", "conn"}, {"dir", "create"}, {}>>

\* The handlers of administrators: alone in the directory, they check the
\* session, change the registry, save the accounts and read the organization
\* for the answer.  The rows a rename changes are nobody's then.
AdministerPath ==
    <<{}, {"pending"}, {"excl"}, {"excl", "mu"}, {"excl"}, {"excl", "conn"}, {"excl"},
      {"excl", "mu"}, {"excl", "mu", "conn"}, {"excl"}, {"excl", "conn"}, {}>>

\* The second step of a sign-in saves the accounts under the mutex, and no
\* handler of a sign-in takes directoryMu.
SignInPath == <<{}, {"mu"}, {"mu", "conn"}, {}>>

Path(k) ==
    CASE k = "read"       -> ReadPath
      [] k = "write"      -> WritePath
      [] k = "create"     -> CreatePath
      [] k = "copy"       -> CopyPath
      [] k = "administer" -> AdministerPath
      [] k = "signin"     -> SignInPath
      [] k = "none"       -> <<{}>>

Kinds == {"read", "write", "create", "copy", "administer", "signin"}

UnderWay(w) == pos[w] < Len(Path(kind[w]))

Holding(w) == Path(kind[w])[pos[w]]

\* What a request under way has to obtain before its next step.
Wanted(w) == Path(kind[w])[pos[w] + 1] \ Holding(w)

Holders(r) == {v \in Requests : r \in Holding(v)}

\* Who withholds r from w.
Withheld(w, r) ==
    CASE r = "conn" -> IF Cardinality(Holders("conn")) < Connections THEN {} ELSE Holders("conn")
      [] r = "row"  -> {v \in Holders("row") : topo[v] = topo[w]}
      [] r \in {"dir", "pending"} -> Holders("pending") \cup Holders("excl")
      [] r = "excl" -> Holders("dir")
      [] OTHER -> Holders(r)

Blockers(w) == UNION {Withheld(w, r) : r \in Wanted(w)}

-----------------------------------------------------------------------------
LocksInit ==
    /\ kind = [w \in Requests |-> "none"]
    /\ topo \in [Requests -> Maps]
    /\ pos = [w \in Requests |-> 1]

Transacting == {w \in Requests : kind[w] = "write" /\ UnderWay(w)}

Send(w, k) ==
    /\ kind[w] = "none"
    /\ k = "write" => Cardinality(Transacting) < MaxTransactions
    /\ kind' = [kind EXCEPT ![w] = k]
    /\ UNCHANGED <<topo, pos>>

Advance(w) ==
    /\ UnderWay(w)
    /\ Blockers(w) = {}
    /\ pos' = [pos EXCEPT ![w] = @ + 1]
    /\ UNCHANGED <<kind, topo>>

\* An early return, after which the deferred calls release everything.  Who
\* waits for a connection or a row returns when the request's context ends;
\* who waits for a mutex does not notice.
Return(w) ==
    /\ UnderWay(w)
    /\ Blockers(w) = {} \/ Wanted(w) \subseteq {"conn", "row"}
    /\ pos' = [pos EXCEPT ![w] = Len(Path(kind[w]))]
    /\ UNCHANGED <<kind, topo>>

\* What was sent is answered.
Finished == (\A w \in Requests : ~UnderWay(w)) /\ UNCHANGED lockVars

LocksNext ==
    \/ \E w \in Requests, k \in Kinds : Send(w, k)
    \/ \E w \in Requests : Advance(w) \/ Return(w)
    \/ Finished

LocksSpec == LocksInit /\ [][LocksNext]_lockVars

\* Goroutines are scheduled, and a free resource is taken in the end.  No
\* client is assumed to give up.
FairLocksSpec == LocksSpec /\ \A w \in Requests : WF_lockVars(Advance(w))

-----------------------------------------------------------------------------
(* Properties.                                                              *)

LocksTypeOK ==
    /\ kind \in [Requests -> Kinds \cup {"none"}]
    /\ topo \in [Requests -> Maps]
    /\ pos \in [Requests -> Nat \ {0}]
    /\ \A w \in Requests : pos[w] <= Len(Path(kind[w]))

\* Each of the requests waits, and only for others of them.
WaitForEachOther(ws) ==
    \A w \in ws : UnderWay(w) /\ Blockers(w) # {} /\ Blockers(w) \subseteq ws

\* Requests never come to wait for each other: "writes in different
\* organizations never wait on each other; directory changes take it
\* exclusively" (comment of directoryMu).  Only an end of a request's context
\* could then free them.
NoCircularWait == \A ws \in SUBSET Requests : ws # {} => ~WaitForEachOther(ws)

\* Whatever the other requests hold, every request is answered, although no
\* client gives up.
EveryRequestAnswered == \A w \in Requests : UnderWay(w) ~> ~UnderWay(w)
=============================================================================
