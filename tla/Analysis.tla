------------------------------ MODULE Analysis ------------------------------
(***************************************************************************)
(* What the server computes about a map (internal/model/stp.go and         *)
(* analyzer.go): the spanning trees of each VLAN with the loops they block,*)
(* and the path of a VLAN between two ports.  Both are functions of the    *)
(* stored document, so they are checked on every document that the handlers*)
(* of module Document come to, against what a tree and a shortest path are.*)
(*                                                                         *)
(* Left out are the budgets of the answer (200000 entries), names, sorting *)
(* for output, the numbers of domains, and the warnings about the shape and*)
(* media of LACP and MC-LAG groups.                                        *)
(***************************************************************************)
EXTENDS Document, FiniteSets, Sequences

CONSTANTS
    Switch, Server,   \* device categories
    Rank,             \* the order of ids
    Priorities        \* bound: the STP priority of each device, which documents leave out

\* Ids are compared as strings; a document has finitely many devices and cables.
ASSUME AnalysisAssumption ==
    /\ Switch \in TeamKinds /\ Server \in Kinds \ TeamKinds
    /\ Rank \in [Devices \cup Teams \cup Links \cup Groups -> Nat]
    /\ \A x, y \in DOMAIN Rank : Rank[x] = Rank[y] => x = y
    /\ Priorities \in [Devices -> Nat]
    /\ IsFiniteSet(Devices) /\ IsFiniteSet(Links)

DeviceOf(t, p) == t.ports[p].device
Kind(t, d) == t.devices[d].kind

\* portCarriesVLAN: a port without a native VLAN is not configured.
Carries(t, p, v) ==
    t.ports[p].set.native # Unset /\ v \in {t.ports[p].set.native} \cup t.ports[p].set.tagged

Lexical(x, y) == x[1] < y[1] \/ (x[1] = y[1] /\ (x[2] < y[2] \/ (x[2] = y[2] /\ x[3] < y[3])))
Least(S) == CHOOSE x \in S : \A y \in S : x <= y

-----------------------------------------------------------------------------
(* The bridges of a map and the edges between them.                         *)

SwitchesOf(t) == {d \in DOMAIN t.devices : Kind(t, d) = Switch}

\* stpLogicalBridges: the switches of a system are one bridge.
BridgeOf(t, d) ==
    IF \E g \in DOMAIN t.teams : d \in t.teams[g].members
    THEN CHOOSE g \in DOMAIN t.teams : d \in t.teams[g].members ELSE d

MembersOf(t, b) == {d \in SwitchesOf(t) : BridgeOf(t, d) = b}

Normalized(priority) == IF priority = 0 THEN 32768 ELSE priority
PriorityOf(t, b) == Least({Normalized(Priorities[d]) : d \in MembersOf(t, b)})

\* compareSTPBridge, the cost before it where stpEdgeRoles compares that first.
Precedes(t, x, y, cost) ==
    Lexical(<<cost[x], PriorityOf(t, x), Rank[x]>>, <<cost[y], PriorityOf(t, y), Rank[y]>>)

DevicesAt(t, l) == {DeviceOf(t, p) : p \in Ends(t.links[l])}
Pair(t, l) == {BridgeOf(t, d) : d \in DevicesAt(t, l)}

\* eligible: a cable of the VLAN between two bridges.
Eligible(t, v, l) ==
    /\ DevicesAt(t, l) \subseteq SwitchesOf(t) /\ Several(Pair(t, l))
    /\ v \in t.links[l].vlans /\ \A p \in Ends(t.links[l]) : Carries(t, p, v)

GroupsOf(t, l) == {g \in DOMAIN t.groups : l \in t.groups[g].members}

\* variant: the backups of a failover group forward too
InUseAlways(t, l) == TRUE

\* Of a failover group only the primary cable is in use.
InUse(t, l) == \A g \in GroupsOf(t, l) : t.groups[g].primary \in {None, l}

Live(t, v) == {l \in DOMAIN t.links : InUse(t, l) /\ Eligible(t, v, l)}

\* The cables of a group between the same bridges are one edge.
Bundle(t, v, l) ==
    {m \in Live(t, v) : m = l \/ (Pair(t, m) = Pair(t, l) /\ GroupsOf(t, m) \cap GroupsOf(t, l) # {})}

\* stpEdges, and the order of their ids.
Edges(t, v) ==
    {[pair |-> Pair(t, l), links |-> Bundle(t, v, l),
      id |-> LET ranks == {Rank[b] : b \in Pair(t, l)} IN
             <<Least({Rank[x] : x \in IF GroupsOf(t, l) = {} THEN {l} ELSE GroupsOf(t, l)}),
               Least(ranks), Least(ranks \ {Least(ranks)})>>] : l \in Live(t, v)}

-----------------------------------------------------------------------------
(* Breadth-first search, of bridges for a tree and of devices for a path.   *)

Earlier(x, y) == Lexical(x.key, y.key)
First(S) == CHOOSE x \in S : \A y \in S : ~Earlier(y, x)

\* The arcs by which the search may go from d: each to a node not seen yet.
Onward(arcs, tree, d) == {x \in arcs : x.from = d /\ x.to \notin DOMAIN tree}

\* One turn of the search: the head of the queue is visited, and the nodes first
\* seen from it enter the tree and the queue, each by the first of its arcs.
Visit(arcs, s) ==
    LET d == Head(s.queue)
        ahead == Onward(arcs, s.tree, d)
        new == {x.to : x \in ahead}
        By(c) == First({x \in ahead : x.to = c})
        Ordered(f) == \A i, j \in DOMAIN f : i < j => f[i] # f[j] /\ ~Earlier(By(f[j]), By(f[i]))
    IN  IF s.queue = <<>> THEN s
        ELSE [queue |-> Tail(s.queue) \o CHOOSE f \in [1..Cardinality(new) -> new] : Ordered(f),
              tree |-> [c \in DOMAIN s.tree \cup new |->
                  IF c \in DOMAIN s.tree THEN s.tree[c]
                  ELSE [cost |-> s.tree[d].cost + 1, from |-> d, via |-> By(c).via]]]

AtRoot(root) ==
    [queue |-> <<root>>, tree |-> [d \in {root} |-> [cost |-> 0, from |-> root, via |-> None]]]

\* What the search comes to: each node it sees with its cost and the arc to it.
\* There is a turn for each node that can be seen.
Explored(arcs, root) ==
    LET run[n \in Nat] == IF n = 0 THEN AtRoot(root) ELSE Visit(arcs, run[n - 1])
    IN  run[Cardinality({root} \cup {x.to : x \in arcs})].tree

\* The way from the root of the tree to d (buildSTPPath, rebuild).
WayTo(tree, d) ==
    LET up[n \in Nat] == IF n = 0 THEN d ELSE tree[up[n - 1]].from
        cost == tree[d].cost
    IN  [i \in 1..cost |-> tree[up[cost - i]].via]

-----------------------------------------------------------------------------
(* The spanning trees of a VLAN.                                            *)

\* stpActiveBridgeIDs
Active(t, v) ==
    {BridgeOf(t, d) : d \in {d \in SwitchesOf(t) : \E p \in PortsOf(t, d) : Carries(t, p, v)}}

ArcsOf(edges) ==
    UNION {{[from |-> b, to |-> c, key |-> e.id, via |-> e] : b \in e.pair, c \in e.pair} : e \in edges}

\* stpComponents: the bridges joined to b.
Component(edges, b) == DOMAIN Explored(ArcsOf(edges), b)

\* simulateSTPComponent
Domain(t, edges, B) ==
    LET root == CHOOSE b \in B :
                    \A c \in B \ {b} : Precedes(t, b, c, [x \in B |-> 0])
        own == {e \in edges : e.pair \subseteq B}
    IN  [bridges |-> B, root |-> root, edges |-> own,
         tree |-> Explored(ArcsOf(own), root)]

\* simulateSTP: the domains of the edges, and each active bridge without one.
Domains(t, v) ==
    LET edges == Edges(t, v) IN
    {Domain(t, edges, Component(edges, b)) : b \in Active(t, v) \cup UNION {e.pair : e \in edges}}

\* stpEdgeRoles: the role of edge e at its end b.
Role(t, D, e, b) ==
    LET peer == CHOOSE x \in e.pair : x # b
        cost == [x \in e.pair |-> D.tree[x].cost]
        Parent(x, y) == D.tree[x].via = e /\ D.tree[x].from = y
    IN  CASE Parent(b, peer) -> "root"
          [] Parent(peer, b) -> "designated"
          [] OTHER -> IF Precedes(t, b, peer, cost) THEN "designated" ELSE "blocked"

Roles(t, D, e) == {Role(t, D, e, b) : b \in e.pair}

\* loopsFromSTP: the cables with a blocked port.
LoopLinks(t, D) == UNION {e.links : e \in {e \in D.edges : "blocked" \in Roles(t, D, e)}}

-----------------------------------------------------------------------------
(* The path of a VLAN between two ports.                                    *)

IsServer(t, d) == Kind(t, d) = Server

\* The links of a VLAN, in the order of the document and both directions: a server sends by the source port
\* only, receives by the target port only, and passes nothing on.
Hops(t, v, p, q) ==
    LET carrying == {l \in DOMAIN t.links : \A r \in Ends(t.links[l]) : Carries(t, r, v)}
        ways == UNION {{<<l, t.links[l].source, t.links[l].target>>,
                        <<l, t.links[l].target, t.links[l].source>>} : l \in carrying}
        open == {w \in ways :
                    /\ IsServer(t, DeviceOf(t, w[2])) => w[2] = p
                    /\ DeviceOf(t, w[3]) = DeviceOf(t, q) /\ IsServer(t, DeviceOf(t, q)) => w[3] = q}
    IN  {[from |-> DeviceOf(t, w[2]), to |-> DeviceOf(t, w[3]), key |-> <<Rank[w[1]], 0, 0>>,
          via |-> w[1]] : w \in open}

\* TracePath: the only answer, or none.
Trace(t, v, p, q) ==
    LET here == DeviceOf(t, p)
        there == DeviceOf(t, q)
        tree == Explored(Hops(t, v, p, q), here)
    IN  CASE ~Carries(t, p, v) \/ ~Carries(t, q, v) -> {}
          [] here = there -> IF IsServer(t, here) /\ p # q THEN {} ELSE {<<>>}
          [] OTHER -> IF there \in DOMAIN tree THEN {WayTo(tree, there)} ELSE {}

-----------------------------------------------------------------------------
(* The warnings of Analyze.                                                 *)

\* native_vlan_mismatch: both ends have a native VLAN (Unset is no VLAN), and another one.
Mismatched(t, l) ==
    LET natives == {t.ports[p].set.native : p \in Ends(t.links[l])}
    IN  Several(natives) /\ Unset \notin natives

\* tagged_vlan_drop: what one end tags and the other does not carry.
Dropped(t, l) ==
    LET Lost(p, q) == {v \in t.ports[p].set.tagged : ~Carries(t, q, v)}
    IN  Lost(t.links[l].source, t.links[l].target) \cup Lost(t.links[l].target, t.links[l].source)

\* failover_vlan_mismatch, trunk_vlan_mismatch
Uneven(t, g) == Several({t.links[l].vlans : l \in t.groups[g].members})

-----------------------------------------------------------------------------
(* Properties.                                                              *)

\* Edges that no two parts of B can be without.
Connects(edges, B) ==
    \A S \in (SUBSET B) \ {{}, B} : \E e \in edges : e.pair \cap S # {} /\ e.pair \ S # {}

\* The forwarding edges of a domain are a tree of shortest ways to its least
\* bridge, each segment has one designated port, the one nearer to the root, and
\* loops are reported just when an edge could be spared.
TreeRight(t, D) ==
    LET forwarding == {e \in D.edges : "blocked" \notin Roles(t, D, e)}
        Cost(b) == D.tree[b].cost
        Around(b) == {e \in D.edges : b \in e.pair}
        NoCost == [b \in D.bridges |-> 0]
    IN
    /\ Connects(forwarding, D.bridges)
    /\ \A e \in forwarding : ~Connects(forwarding \ {e}, D.bridges)
    /\ D.root \in D.bridges /\ Cost(D.root) = 0
    /\ \A b \in D.bridges \ {D.root} :
        /\ ~Precedes(t, b, D.root, NoCost)
        /\ Cost(b) = 1 + Least(UNION {{Cost(c) : c \in e.pair \ {b}} : e \in Around(b)})
        /\ \E e \in Around(b) : \A f \in Around(b) : Role(t, D, f, b) = "root" <=> f = e
        /\ D.root \in Component({e \in forwarding : \E i \in 1..Cost(b) : WayTo(D.tree, b)[i] = e}, b)
    /\ \A e \in D.edges : \E b \in e.pair :
        /\ Role(t, D, e, b) = "designated"
        /\ \A c \in e.pair \ {b} :
            Role(t, D, e, c) # "designated" /\ ~Precedes(t, c, b, [x \in e.pair |-> Cost(x)])
    /\ LoopLinks(t, D) # {} <=> \E e \in D.edges : Connects(D.edges \ {e}, D.bridges)

\* Every bridge with a port in the VLAN is in one domain, no live cable leaves a
\* domain, and of a failover group one cable at most forwards.
DomainsRight(t, v, domains) ==
    /\ UNION {D.bridges : D \in domains} = Active(t, v)
    /\ \A D, E \in domains : D # E => D.bridges \cap E.bridges = {}
    /\ \A l \in Live(t, v) : \E D \in domains : \E e \in D.edges : l \in e.links
    /\ \A g \in DOMAIN t.groups : t.groups[g].primary # None =>
        ~Several(t.groups[g].members \cap UNION {UNION {e.links : e \in D.edges} : D \in domains})

\* What a cable's end may leave to the others: another edge, or another cable
\* of its bundle, or the backups of its group, all fit for its place.
Spared(t, v, D, l) ==
    \/ Connects({e \in D.edges : e.links # {l}}, D.bridges)
    \/ \E g \in GroupsOf(t, l) : \A m \in t.groups[g].members :
            Eligible(t, v, m) /\ Pair(t, m) = Pair(t, l)

\* deleteLink and pruneLinkGroups with the tree: who takes away a cable that the
\* others can stand in for parts no domain, a failover group's primary included.
SparesTakeOver(t, v, domains) ==
    \A D \in domains : \A l \in UNION {e.links : e \in D.edges} : Spared(t, v, D, l) =>
        \E E \in Domains(WithoutLink(t, l), v) : D.bridges \subseteq E.bridges

TreesRight(t) ==
    \A v \in t.vlans :
        LET domains == Domains(t, v) IN
        /\ DomainsRight(t, v, domains) /\ SparesTakeOver(t, v, domains)
        /\ \A D \in domains : TreeRight(t, D)

\* The devices within n hops of d.
Within(hops, d, n) ==
    LET within[k \in Nat] ==
            IF k = 0 THEN {d}
            ELSE LET S == within[k - 1] IN S \cup {x.to : x \in {x \in hops : x.from \in S}}
    IN  within[n]

\* A path leads from p to q, no shorter one does, no server is on its way, and a
\* server at its end uses the port that was asked for.
PathRight(t, v, p, q, path) ==
    LET hops == Hops(t, v, p, q)
        here == DeviceOf(t, p)
        there == DeviceOf(t, q)
        AtLink(i) == DevicesAt(t, path[i])
    IN
    /\ path # <<>> /\ here \in AtLink(1) /\ there \in AtLink(Len(path))
    /\ IsServer(t, here) => p \in Ends(t.links[path[1]])
    /\ IsServer(t, there) => q \in Ends(t.links[path[Len(path)]])
    /\ \A i \in 1..(Len(path) - 1) :
        \E d \in AtLink(i) \cap AtLink(i + 1) : ~IsServer(t, d) /\ d \notin {here, there}
    /\ there \in Within(hops, here, Len(path)) \ Within(hops, here, Len(path) - 1)

\* TracePath finds a shortest path when there is one, the same way back, and
\* between the switches that the tree of the VLAN joins.  Of a device that is no
\* server one port is as good as another.
TracesRight(t) ==
    \A v \in t.vlans :
        LET carrying == {p \in DOMAIN t.ports : Carries(t, p, v)}
            fit == {p \in carrying :
                       \/ IsServer(t, DeviceOf(t, p))
                       \/ p = CHOOSE q \in carrying : DeviceOf(t, q) = DeviceOf(t, p)}
            domains == Domains(t, v)
        IN  \A p, q \in fit :
            LET paths == Trace(t, v, p, q) IN
            DeviceOf(t, p) # DeviceOf(t, q) =>
            /\ \A path \in paths : PathRight(t, v, p, q, path)
            /\ paths = {} =>
                /\ DeviceOf(t, q) \notin Within(Hops(t, v, p, q), DeviceOf(t, p), Cardinality(DOMAIN t.devices))
                /\ Trace(t, v, q, p) = {}
                /\ DOMAIN t.teams = {} =>
                    ~\E D \in domains : {DeviceOf(t, p), DeviceOf(t, q)} \subseteq D.bridges

\* configureLink leaves no warning on the cable and its group, and the deletion
\* of a VLAN adds none anywhere.
WarningsRight(t) ==
    /\ \A l \in {l \in DOMAIN t.links : ~t.links[l].rear}, native \in t.vlans, tagged \in SUBSET t.vlans :
        LET after == Configured(t, l, native, tagged) IN
        /\ \A k \in Grouped(t, l) : ~Mismatched(after, k) /\ Dropped(after, k) = {}
        /\ \A g \in GroupsOf(t, l) : ~Uneven(after, g)
    /\ \A v \in t.vlans \ {1} :
        LET after == WithoutVlan(t, v) IN
        /\ \A l \in DOMAIN t.links :
            (Mismatched(after, l) => Mismatched(t, l)) /\ Dropped(after, l) \subseteq Dropped(t, l)
        /\ \A g \in DOMAIN t.groups : Uneven(after, g) => Uneven(t, g)

\* "Per-VLAN spanning-tree simulation with deterministic root election" and
\* "server-side detection of ... switching loops ... and forwarding paths": what
\* the analysis says of a stored document is so, before and after the edits that
\* bear on it.
AnalysisRight == TreesRight(doc) /\ TracesRight(doc) /\ WarningsRight(doc)
=============================================================================
