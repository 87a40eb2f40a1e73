\* Two streams of one session on one map that has room for one of them, under
\* fairness; the map commits, moves and goes.
SPECIFICATION FairSpec
CONSTANTS
    s1 = s1  s2 = s2
    t1 = t1
    a = a  b = b
    c1 = c1
    Streams = {s1, s2}
    Topologies = {t1}
    Orgs = {a, b}
    Gone = Gone
    Sessions = {c1}
    NoEvent = NoEvent
    TopoOf <- OneMap
    SessionOf <- OneSession
    AccessOf <- Access
    Buffer = 1
    PerTopology = 1
    PerBroker = 2
    PerSession = 2
    MaxRev = 2
CHECK_DEADLOCK FALSE
INVARIANTS CountsExact NoPanic
PROPERTIES StreamsEnd DeliveredToReadersOnly
