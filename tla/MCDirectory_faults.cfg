\* Two failures of any kind, and any number of crashes, among the handlers of
\* three organizations and an account.
SPECIFICATION Spec
CONSTANTS
    o1 = o1  o2 = o2  o3 = o3
    nA = nA  nB = nB
    Orgs = {dflt, o1, o2, o3}
    DefaultOrg = dflt
    NoOrg = NoOrg
    Names = {Default, Guest, nA, nB}
    DefaultName = Default
    GuestName = Guest
    NoName = NoName
    Users = {u1}
    Faults = {"reply", "save", "savereply", "crash"}
    MaxFaults = 2
SYMMETRY Interchangeable
INVARIANTS CatalogFaithful AnsweredKept SessionsCurrent DeletedGone GuestOnlyOwn
