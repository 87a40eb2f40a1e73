\* Three requests of any kind on one map; fewer transactions at once than
\* connections, so that one request can always take one.
SPECIFICATION FairLocksSpec
CONSTANTS
    Maps = {m1}
    Requests = {r1, r2, r3}
    Connections = 2
    MaxTransactions = 1
INVARIANT NoCircularWait
PROPERTY EveryRequestAnswered
