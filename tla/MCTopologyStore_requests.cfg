\* Three requests on one map, its links and the maps created meanwhile race with
\* one operation of an administrator; an organization is full with two maps.
SPECIFICATION Spec
CONSTANTS
    Maps = {m1, m2, m3}
    InitialMaps = {m1}
    Orgs = {dflt, o2}
    DefaultOrg = dflt
    Names = {n1, n2, n3}
    NoName = NoName
    Users = {u1}
    Requests = {w1, w2, w3}
    Nobody = Nobody
    Ops = {"create", "duplicate", "replace", "delete", "move", "share", "revoke"}
    Capacity = 2
    MaxAdminOps = 1
CONSTRAINT Meeting
SYMMETRY Interchangeable
INVARIANTS NoLostUpdate NamesFresh LinksStayHome CapacityBound
PROPERTIES AllowedAtCommit LinksOnlyIssued ImplementsSharedMaps
