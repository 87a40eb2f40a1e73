\* As many transactions at once as the pool has connections.
SPECIFICATION LocksSpec
CONSTANTS
    Maps = {m1}
    Requests = {r1, r2, r3}
    Connections = 2
    MaxTransactions = 2
INVARIANT NoCircularWait
