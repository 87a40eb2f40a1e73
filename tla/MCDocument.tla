----------------------------- MODULE MCDocument -----------------------------
(* Instances of Document and Analysis for TLC: three switches in a system   *)
(* with a bundle of three cables; two patch panels with a rear mapping and a*)
(* patch cord; a ring of three switches, one side of which is a failover    *)
(* group.  Port c1 is for power.                                            *)
EXTENDS Analysis, TLC

CONSTANTS
    m, k, a, b, c, a1, a2, a3, b1, b2, b3, c1, c2, c3, l1, l2, l3, l4, g, s, x, n1, n2, n3, n4,
    switch, panel, server

Unused == <<>>
Access(v) == [native |-> v, tagged |-> {}, up |-> TRUE]
Trunk == [native |-> 1, tagged |-> {2}, up |-> FALSE]

At(kind, rack, unit) == [kind |-> kind, room |-> None, rack |-> rack, unit |-> unit]
Cable(p, q, rear) == [source |-> p, target |-> q, rear |-> rear, primary |-> 1, vlans |-> {1, 2}]

PortTable(sa, sb) ==
    [p \in {a1, a2, a3} |-> [device |-> a, set |-> sa]]
    @@ [p \in {b1, b2, b3} |-> [device |-> b, set |-> sb]]
    @@ c1 :> [device |-> c, set |-> Access(Unset)]

Switches ==
    [rooms |-> {m}, racks |-> k :> [room |-> m, height |-> 2],
     devices |-> (a :> At(switch, k, 2)) @@ (b :> At(switch, None, Unset)) @@ (c :> At(switch, k, 1)),
     ports |-> PortTable(Access(2), Trunk),
     links |-> (l1 :> Cable(a1, b1, FALSE)) @@ (l2 :> Cable(a2, b2, FALSE)) @@ (l3 :> Cable(a3, b3, FALSE)),
     groups |-> g :> [members |-> {l1, l2, l3}, primary |-> l1],
     teams |-> s :> [members |-> {a, b, c}, active |-> a],
     vlans |-> {1, 2}, annotations |-> {x},
     notes |-> (n1 :> [type |-> "comment", target |-> b1])
               @@ (n2 :> [type |-> "documentation", target |-> k])
               @@ (n3 :> [type |-> "photo", target |-> l2])]

Panels ==
    [Switches EXCEPT
        !.devices = (a :> At(panel, k, 2)) @@ (b :> At(panel, k, 1)) @@ (c :> At(switch, None, Unset)),
        !.links = (l1 :> Cable(a1, b1, TRUE)) @@ (l2 :> Cable(a1, b2, FALSE)),
        !.groups = Unused, !.teams = Unused]

Ring ==
    [Switches EXCEPT
        !.racks = Unused, !.teams = Unused, !.notes = Unused,
        !.devices = [d \in {a, b, c} |-> At(switch, None, Unset)],
        !.ports = [p \in {a1, a2, a3} |-> [device |-> a, set |-> Trunk]]
                  @@ [p \in {b1, b2, b3} |-> [device |-> b, set |-> Trunk]]
                  @@ (c2 :> [device |-> c, set |-> Access(2)]) @@ (c3 :> [device |-> c, set |-> Trunk]),
        !.links = (l1 :> Cable(a1, b1, FALSE)) @@ (l2 :> Cable(a2, b2, FALSE))
                  @@ (l3 :> Cable(b3, c2, FALSE)) @@ (l4 :> Cable(a3, c3, FALSE)),
        !.groups = g :> [members |-> {l1, l2}, primary |-> l1]]

Documents == {Switches, Panels, Ring}

Order == <<a, b, c, s, g, l1, l2, l3, l4>>
Ranks == [id \in {Order[i] : i \in DOMAIN Order} |-> CHOOSE i \in DOMAIN Order : Order[i] = id]
StpPriorities == (a :> 0) @@ (b :> 32768) @@ (c :> 4096)

RackBodies == {[room |-> m, height |-> 2], [room |-> None, height |-> 1]}
DeviceBodies == {At(switch, None, Unset), At(panel, k, 1), At(server, None, Unset)}
PortBodies == {{}, {a2, a3}, {a1, a2, a3}, {b1, b2, b3}, {c1}, {c2, c3}}
SettingBodies == {Access(2), Access(Unset)}
LinkBodies == {Cable(a1, b1, FALSE), Cable(a3, b3, FALSE), Cable(a2, b1, TRUE)}
LinkBatches == {{l1}, {l2, l3}}
GroupBodies == {[members |-> {l1, l2}, primary |-> None], [members |-> {l1, l2, l3}, primary |-> l2]}
TeamBodies == {[members |-> {a, b}, active |-> None], [members |-> {a, b, c}, active |-> b]}
NoteBodies ==
    {[type |-> "comment", target |-> a], [type |-> "documentation", target |-> l1],
     [type |-> "photo", target |-> x], [type |-> "comment", target |-> Whole]}
=============================================================================
