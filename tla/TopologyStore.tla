--------------------------- MODULE TopologyStore ---------------------------
(***************************************************************************)
(* Concurrent requests on saved maps: the handlers of internal/handler     *)
(* (directoryMu, createMu, the authorization repeated inside the           *)
(* transaction) over the transactions of internal/store/postgres.go (the   *)
(* row lock, the revision precondition, the organization looked up before  *)
(* the write).  One Request is one HTTP request; it reads the map, takes   *)
(* one decision and ends.  Administrators change accounts and              *)
(* organizations under the exclusive side of directoryMu.                  *)
(*                                                                         *)
(* A document is abstracted to the set of the requests whose edits it      *)
(* holds, and to its share tokens, each named by the request that minted   *)
(* it.                                                                     *)
(***************************************************************************)
EXTENDS Naturals, FiniteSets

CONSTANTS
    Maps,         \* topology ids
    InitialMaps,  \* the topologies saved before the first request
    Orgs,         \* organization ids
    DefaultOrg,   \* the protected organization "Default"
    Names,        \* organization names
    NoName,       \* the registry has no such organization
    Users,        \* accounts
    Requests,     \* requests, each sent at most once
    Nobody,       \* holder of a free lock
    Ops,          \* the operations the clients of this instance use
    Capacity,     \* maxOrganizationTopologies
    MaxAdminOps   \* bound: administrator operations in one behaviour

Replacements == {"replace", "move"}
Mutations    == Replacements \cup {"patch", "share", "revoke"}
Transactions == Mutations \cup {"delete"}
Creations    == {"create", "duplicate"}

ASSUME MapsAssumption    == IsFiniteSet(Maps) /\ InitialMaps \subseteq Maps /\ Maps # {}
ASSUME OrgsAssumption    == DefaultOrg \in Orgs /\ NoName \notin Names
ASSUME RequestAssumption == Nobody \notin Requests /\ Users # {}
ASSUME OpsAssumption     == Ops \subseteq Transactions \cup Creations
ASSUME BoundsAssumption  == Capacity \in Nat \ {0} /\ MaxAdminOps \in Nat

VARIABLES
    rows,      \* table topologies; revision 0 means no row
    minted,    \* topology ids ever used (model.NewID never repeats one)
    orgName,   \* table organizations: id -> name, or NoName once deleted
    rowLock,   \* Postgres row lock (FOR UPDATE) of each topology
    grants,    \* auth.Manager: the organizations of each account
    catalog,   \* auth.Manager: the organization ids it knows
    readers,   \* requests holding directoryMu.RLock
    createMu,  \* holder of Server.createMu
    adminPc,   \* the administrator's handler: "out" of directoryMu or inside
    goneOrg,   \* the organization whose deletion is being cleaned up
    adminOps,  \* administrator operations so far (for the bound)
    pc,        \* progress of each request
    op,        \* its operation
    topo,      \* its topology
    user,      \* its account
    target,    \* the organization it names, for a replacement or a creation
    exp,       \* its If-Match revision; 0 when it sends none
    seen,      \* edits of the document the client built its body from
    cur,       \* the row its transaction (or its GET) read
    name       \* the organization name it resolved for the row it writes

dbVars    == <<rows, minted, orgName>>
authVars  == <<grants, catalog>>
muVars    == <<rowLock, readers, createMu>>
adminVars == <<adminPc, goneOrg, adminOps>>
askVars   == <<op, user, target, exp, seen>>
vars == <<dbVars, authVars, muVars, adminVars, pc, askVars, topo, cur, name>>

Pcs == {"idle", "sent", "resolved", "entered", "locked", "authorized",
        "counted", "named", "committed", "done", "failed"}

Row == [rev : Nat, org : Orgs, name : Names \cup {NoName},
        doc : SUBSET Requests, shares : SUBSET Requests]

NoRow == [rev |-> 0, org |-> DefaultOrg, name |-> NoName, doc |-> {}, shares |-> {}]

Present(m) == rows[m].rev > 0

MapsOf(o) == {m \in Maps : Present(m) /\ rows[m].org = o}

Registered(o) == orgName[o] # NoName

\* A request has changed the database.
Committed(w) == pc[w] \in {"committed", "done"}

\* A request is between SELECT ... FOR UPDATE and the end of its transaction.
InTx(w) == op[w] \in Transactions /\ pc[w] \in {"locked", "authorized", "named"}

\* The rows CanAccessTopology and CanCreateInOrganization let an account reach.
CanAccess(u, o) == o \in catalog /\ o \in grants[u]

Init ==
    /\ minted = InitialMaps
    /\ orgName \in {f \in [Orgs -> Names] : \A o, p \in Orgs : f[o] = f[p] => o = p}
    /\ \E home \in [InitialMaps -> Orgs] :
          rows = [m \in Maps |->
                    IF m \in InitialMaps
                    THEN [rev |-> 1, org |-> home[m], name |-> orgName[home[m]], doc |-> {}, shares |-> {}]
                    ELSE NoRow]
    /\ \A o \in Orgs : Cardinality(MapsOf(o)) <= Capacity
    /\ rowLock = [m \in Maps |-> Nobody]
    /\ grants \in [Users -> SUBSET Orgs]
    /\ catalog = Orgs
    /\ readers = {} /\ createMu = Nobody
    /\ adminPc = "out" /\ goneOrg = DefaultOrg /\ adminOps = 0
    /\ pc = [w \in Requests |-> "idle"]
    /\ op = [w \in Requests |-> "none"]
    /\ topo = [w \in Requests |-> CHOOSE m \in Maps : TRUE]
    /\ user = [w \in Requests |-> CHOOSE u \in Users : TRUE]
    /\ target = [w \in Requests |-> DefaultOrg]
    /\ exp = [w \in Requests |-> 0]
    /\ seen = [w \in Requests |-> {}]
    /\ cur = [w \in Requests |-> NoRow]
    /\ name = [w \in Requests |-> NoName]

-----------------------------------------------------------------------------
(* The client.  It opened the map through GET, so the account could reach   *)
(* it then; the body and the If-Match revision come from that one answer.   *)
(* A creation names only an organization.                                   *)

Step(w, from, to) == pc[w] = from /\ pc' = [pc EXCEPT ![w] = to]

\* Only replacements and copies require an If-Match header.
Preconditions(o, m) ==
    IF o \in Replacements \cup {"duplicate"} THEN {rows[m].rev} ELSE {0, rows[m].rev}

\* A replacement keeps the organization it read; a move names another one.
Targets(o, m) ==
    CASE o = "move" -> Orgs \ {rows[m].org}
      [] o = "create" -> Orgs
      [] OTHER -> {rows[m].org}

Send(w, o, m, u) ==
    /\ Step(w, "idle", "sent")
    /\ op' = [op EXCEPT ![w] = o]
    /\ user' = [user EXCEPT ![w] = u]
    /\ IF o = "create"
       THEN UNCHANGED <<topo, exp, seen>>
       ELSE /\ Present(m) /\ CanAccess(u, rows[m].org)
            /\ topo' = [topo EXCEPT ![w] = m]
            /\ seen' = [seen EXCEPT ![w] = rows[m].doc]
            /\ \E r \in Preconditions(o, m) : exp' = [exp EXCEPT ![w] = r]
    /\ \E t \in Targets(o, m) : target' = [target EXCEPT ![w] = t]
    /\ UNCHANGED <<dbVars, authVars, muVars, adminVars, cur, name>>

-----------------------------------------------------------------------------
(* The handlers up to the transaction.                                      *)

\* replaceTopology resolves and checks the organization before any lock.
Resolve(w) ==
    /\ op[w] \in Replacements
    /\ Step(w, "sent", "resolved")
    /\ Registered(target[w]) /\ CanAccess(user[w], target[w])
    /\ UNCHANGED <<dbVars, authVars, muVars, adminVars, askVars, topo, cur, name>>

\* directoryMu.RLock waits for an administrator's handler.
Readable(w) == adminPc = "out"

Enter(w) ==
    /\ IF op[w] \in Replacements
       THEN Step(w, "resolved", "entered") ELSE Step(w, "sent", "entered")
    /\ Readable(w)
    /\ readers' = readers \cup {w}
    /\ UNCHANGED <<dbVars, authVars, rowLock, createMu, adminVars, askVars, topo, cur, name>>

-----------------------------------------------------------------------------
(* One transaction on an existing map: MutateAtRevision, DeleteAtRevision.  *)

RowFree(m) == rowLock[m] = Nobody

\* variant: the precondition is not compared
RevisionExpectedAnyway(w) == TRUE

RevisionExpected(w) == exp[w] # 0 => rows[topo[w]].rev = exp[w]

\* SELECT ... FOR UPDATE waits for the row, then reads its latest version.
Lock(w) ==
    LET m == topo[w] IN
    /\ op[w] \in Transactions
    /\ Step(w, "entered", "locked")
    /\ RowFree(m)
    /\ Present(m) /\ RevisionExpected(w)
    /\ rowLock' = [rowLock EXCEPT ![m] = w]
    /\ cur' = [cur EXCEPT ![w] = rows[m]]
    /\ UNCHANGED <<dbVars, authVars, readers, createMu, adminVars, askVars, topo, name>>

\* variant: the checks made before the transaction are not repeated inside it
StillAllowedAnyway(w) == TRUE

\* The session, as it is now, against the organization the row has now.
StillAllowed(w) ==
    /\ CanAccess(user[w], cur[w].org)
    /\ op[w] \in Replacements => CanAccess(user[w], target[w])

Authorize(w) ==
    /\ op[w] \in Transactions
    /\ Step(w, "locked", "authorized")
    /\ StillAllowed(w)
    /\ UNCHANGED <<dbVars, authVars, muVars, adminVars, askVars, topo, cur, name>>

\* The organization the written row belongs to.
NextOrg(w) ==
    CASE op[w] \in Replacements \cup {"create"} -> target[w]
      [] OTHER -> cur[w].org

\* variant: the name is the one cached in the row
NameCached(w) == cur[w].name

\* findPostgresOrganizationByID: the name the registry has for it.
NameResolved(w) == orgName[NextOrg(w)]

LookUpName(w) ==
    /\ op[w] \in Mutations
    /\ Step(w, "authorized", "named")
    /\ Registered(NextOrg(w))
    /\ name' = [name EXCEPT ![w] = NameResolved(w)]
    /\ UNCHANGED <<dbVars, authVars, muVars, adminVars, askVars, topo, cur>>

\* A replacement writes the body the client built; every other mutation
\* edits the row it locked.
NextDoc(w) ==
    (IF op[w] \in Replacements THEN seen[w] ELSE cur[w].doc) \cup {w}

\* variant: a move leaves the anonymous links in place
NextSharesKept(w) ==
    CASE op[w] = "share"  -> {cur[w].shares \cup {w}}
      [] op[w] = "revoke" -> {cur[w].shares \ {t} : t \in cur[w].shares}
      [] OTHER -> {cur[w].shares}

\* variant: a replacement takes the links of its body, a backup that may
\* list any link ever issued
NextSharesOfBody(w) ==
    CASE op[w] = "share"  -> {cur[w].shares \cup {w}}
      [] op[w] = "revoke" -> {cur[w].shares \ {t} : t \in cur[w].shares}
      [] op[w] = "replace" ->
            {{t \in Requests : op[t] = "share" /\ Committed(t) /\ topo[t] = topo[w]}}
      [] op[w] = "move" -> {{}}
      [] OTHER -> {cur[w].shares}

\* Only these three handlers change the links: the body of a replacement is
\* ignored, and a map that changes organization loses them all.  A set of
\* the outcomes, empty when the link to revoke does not exist.
NextShares(w) ==
    CASE op[w] = "share"  -> {cur[w].shares \cup {w}}
      [] op[w] = "revoke" -> {cur[w].shares \ {t} : t \in cur[w].shares}
      [] op[w] \in Replacements /\ target[w] # cur[w].org -> {{}}
      [] OTHER -> {cur[w].shares}

\* variant: the revision is taken over from the row
NextRevKept(w) == cur[w].rev

NextRev(w) == cur[w].rev + 1

\* UPDATE ... WHERE id = $1 AND revision = $12, and the commit.
Commit(w) ==
    LET m == topo[w] IN
    /\ op[w] \in Mutations
    /\ Step(w, "named", "committed")
    /\ rows[m].rev = cur[w].rev /\ Registered(NextOrg(w))
    /\ \E s \in NextShares(w) :
          rows' = [rows EXCEPT ![m] =
                     [rev |-> NextRev(w), org |-> NextOrg(w), name |-> name[w],
                      doc |-> NextDoc(w), shares |-> s]]
    /\ rowLock' = [rowLock EXCEPT ![m] = Nobody]
    /\ UNCHANGED <<minted, orgName, authVars, readers, createMu, adminVars,
                   askVars, topo, cur, name>>

\* DELETE ... WHERE id = $1 AND revision = $2, and the commit.
Delete(w) ==
    LET m == topo[w] IN
    /\ op[w] = "delete"
    /\ Step(w, "authorized", "committed")
    /\ rows[m].rev = cur[w].rev
    /\ rows' = [rows EXCEPT ![m] = NoRow]
    /\ rowLock' = [rowLock EXCEPT ![m] = Nobody]
    /\ UNCHANGED <<minted, orgName, authVars, readers, createMu, adminVars,
                   askVars, topo, cur, name>>

-----------------------------------------------------------------------------
(* createTopology and duplicateTopology.                                    *)

\* A copy reads its source without locking it; both check the organization
\* the new map will belong to.
AuthorizeCreation(w) ==
    /\ op[w] \in Creations
    /\ Step(w, "entered", "authorized")
    /\ IF op[w] = "create"
       THEN /\ Registered(target[w]) /\ CanAccess(user[w], target[w])
            /\ UNCHANGED cur
       ELSE /\ Present(topo[w]) /\ CanAccess(user[w], rows[topo[w]].org)
            /\ cur' = [cur EXCEPT ![w] = rows[topo[w]]]
    /\ UNCHANGED <<dbVars, authVars, muVars, adminVars, askVars, topo, name>>

\* variant: createMu is not taken
CreateMuFreeAnyway(w) == TRUE

CreateMuFree(w) == createMu = Nobody

\* organizationHasCapacity, under createMu; then a copy compares its revision.
Count(w) ==
    /\ op[w] \in Creations
    /\ Step(w, "authorized", "counted")
    /\ CreateMuFree(w)
    /\ createMu' = w
    /\ Cardinality(MapsOf(NextOrg(w))) < Capacity
    /\ op[w] = "duplicate" => cur[w].rev = exp[w]
    /\ UNCHANGED <<dbVars, authVars, rowLock, readers, adminVars, askVars, topo, cur, name>>

\* Store.Create: GetOrganization ...
LookUpNewName(w) ==
    /\ op[w] \in Creations
    /\ Step(w, "counted", "named")
    /\ Registered(NextOrg(w))
    /\ name' = [name EXCEPT ![w] = NameResolved(w)]
    /\ UNCHANGED <<dbVars, authVars, muVars, adminVars, askVars, topo, cur>>

\* ... and INSERT.  The foreign key needs the organization to exist still.
Insert(w, m) ==
    /\ op[w] \in Creations
    /\ Step(w, "named", "committed")
    /\ m \notin minted /\ Registered(NextOrg(w))
    /\ minted' = minted \cup {m}
    /\ rows' = [rows EXCEPT ![m] =
                  [rev |-> 1, org |-> NextOrg(w), name |-> name[w],
                   doc |-> cur[w].doc \cup {w}, shares |-> {}]]
    /\ topo' = [topo EXCEPT ![w] = m]
    /\ UNCHANGED <<orgName, authVars, muVars, adminVars, askVars, cur, name>>

-----------------------------------------------------------------------------
(* The end of a handler.                                                    *)

Release(w) ==
    /\ readers' = readers \ {w}
    /\ createMu' = IF createMu = w THEN Nobody ELSE createMu

\* The deferred unlocks of a handler whose change is committed.
Leave(w) ==
    /\ Step(w, "committed", "done")
    /\ Release(w)
    /\ UNCHANGED <<dbVars, authVars, rowLock, adminVars, askVars, topo, cur, name>>

\* BeginFunc rolls back whenever its function returns an error.
RolledBack(w) == [m \in Maps |-> IF rowLock[m] = w THEN Nobody ELSE rowLock[m]]

\* Every early return: a refused precondition or authorization, a document
\* that does not validate, a database error, a client that went away.
Fail(w) ==
    /\ pc[w] \in Pcs \ {"idle", "committed", "done", "failed"}
    /\ pc' = [pc EXCEPT ![w] = "failed"]
    /\ rowLock' = RolledBack(w)
    /\ Release(w)
    /\ UNCHANGED <<dbVars, authVars, adminVars, askVars, topo, cur, name>>

-----------------------------------------------------------------------------
(* The administrator: one handler at a time, alone under directoryMu.Lock.  *)

Alone == readers = {}

AdminEnter ==
    /\ adminPc = "out" /\ adminOps < MaxAdminOps
    /\ Alone
    /\ adminPc' = "in" /\ adminOps' = adminOps + 1
    /\ UNCHANGED <<dbVars, authVars, muVars, goneOrg, pc, askVars, topo, cur, name>>

\* updateUser: any access made of registered organizations.
UpdateUser(u, os) ==
    /\ adminPc = "in" /\ adminPc' = "leaving"
    /\ \A o \in os : Registered(o)
    /\ grants' = [grants EXCEPT ![u] = os]
    /\ UNCHANGED <<dbVars, catalog, muVars, goneOrg, adminOps, pc, askVars, topo, cur, name>>

\* The UPDATE waits for the rows it touches; it advances no revision.
RowsRenamed(o, n) ==
    [m \in Maps |->
       IF m \in MapsOf(o)
       THEN [rev |-> rows[m].rev, org |-> o, name |-> n,
             doc |-> rows[m].doc, shares |-> rows[m].shares]
       ELSE rows[m]]

RenameOrganization(o, n) ==
    /\ adminPc = "in" /\ adminPc' = "leaving"
    /\ o # DefaultOrg /\ Registered(o)
    /\ \A p \in Orgs : orgName[p] # n
    /\ \A m \in MapsOf(o) : RowFree(m)
    /\ orgName' = [orgName EXCEPT ![o] = n]
    /\ rows' = RowsRenamed(o, n)
    /\ UNCHANGED <<minted, authVars, muVars, goneOrg, adminOps, pc, askVars, topo, cur, name>>

\* DeleteOrganization: refused while a map refers to it.  A second attempt
\* finds no row and goes on with the accounts.
DeleteOrganization(o) ==
    /\ adminPc = "in" /\ adminPc' = "cleaning"
    /\ o # DefaultOrg
    /\ Registered(o) => MapsOf(o) = {}
    /\ orgName' = [orgName EXCEPT ![o] = NoName]
    /\ goneOrg' = o
    /\ UNCHANGED <<rows, minted, authVars, muVars, adminOps, pc, askVars, topo, cur, name>>

RemoveOrganizationAssignments ==
    /\ adminPc = "cleaning" /\ adminPc' = "leaving"
    /\ grants' = [u \in Users |-> grants[u] \ {goneOrg}]
    /\ catalog' = catalog \ {goneOrg}
    /\ UNCHANGED <<dbVars, muVars, goneOrg, adminOps, pc, askVars, topo, cur, name>>

\* The handler returns: after its operation, refused, or because the account
\* state could not be saved.
AdminLeave ==
    /\ adminPc # "out" /\ adminPc' = "out"
    /\ UNCHANGED <<dbVars, authVars, muVars, goneOrg, adminOps, pc, askVars, topo, cur, name>>

AdminStep ==
    \/ AdminEnter
    \/ \E u \in Users, os \in SUBSET Orgs : UpdateUser(u, os)
    \/ \E o \in Orgs, n \in Names : RenameOrganization(o, n)
    \/ \E o \in Orgs : DeleteOrganization(o)
    \/ RemoveOrganizationAssignments
    \/ AdminLeave

-----------------------------------------------------------------------------
Handle(w) ==
    \/ Resolve(w) \/ Enter(w)
    \/ Lock(w) \/ Authorize(w) \/ LookUpName(w) \/ Commit(w) \/ Delete(w)
    \/ AuthorizeCreation(w) \/ Count(w) \/ LookUpNewName(w)
    \/ \E m \in Maps : Insert(w, m)
    \/ Leave(w)

\* The instance has come to rest: what was sent is answered.
Finished ==
    /\ \A w \in Requests : pc[w] \in {"idle", "done", "failed"}
    /\ adminPc = "out"
    /\ UNCHANGED vars

Next ==
    \/ \E w \in Requests, o \in Ops, m \in Maps, u \in Users : Send(w, o, m, u)
    \/ \E w \in Requests : Handle(w) \/ Fail(w)
    \/ AdminStep
    \/ Finished

Spec == Init /\ [][Next]_vars

-----------------------------------------------------------------------------
(* Properties.                                                              *)

\* The types of the variables.
TypeOK ==
    /\ rows \in [Maps -> Row]
    /\ minted \subseteq Maps
    /\ orgName \in [Orgs -> Names \cup {NoName}]
    /\ rowLock \in [Maps -> Requests \cup {Nobody}]
    /\ grants \in [Users -> SUBSET Orgs]
    /\ catalog \subseteq Orgs
    /\ readers \subseteq Requests
    /\ createMu \in Requests \cup {Nobody}
    /\ adminPc \in {"out", "in", "cleaning", "leaving"}
    /\ goneOrg \in Orgs
    /\ adminOps \in Nat
    /\ pc \in [Requests -> Pcs]
    /\ op \in [Requests -> Transactions \cup Creations \cup {"none"}]
    /\ topo \in [Requests -> Maps]
    /\ user \in [Requests -> Users]
    /\ target \in [Requests -> Orgs]
    /\ exp \in [Requests -> Nat]
    /\ seen \in [Requests -> SUBSET Requests]
    /\ cur \in [Requests -> Row]
    /\ name \in [Requests -> Names \cup {NoName}]

\* An edit the server committed is in the map until the map is deleted:
\* whatever clients replace, patch, move or copy concurrently, and from
\* whatever revision, no committed edit is overwritten ("so a stale client
\* copy can never silently overwrite newer server state", replaceTopology).
NoLostUpdate ==
    \A w \in Requests :
        Committed(w) /\ Present(topo[w]) => w \in rows[topo[w]].doc

\* What a transaction read is what the row holds when it writes, although it
\* consults the accounts and the registry in between.
TransactionIsolated ==
    \A w \in Requests : InTx(w) => rows[topo[w]] = cur[w]

\* The row lock of a map and the transaction that holds it name each other.
LockHeld ==
    /\ \A m \in Maps : rowLock[m] # Nobody => InTx(rowLock[m]) /\ topo[rowLock[m]] = m
    /\ \A w \in Requests : InTx(w) => rowLock[topo[w]] = w

\* Ids are never reused, so what a request knows of its map is about that map.
IdsMinted ==
    /\ \A m \in Maps : Present(m) => m \in minted
    /\ \A w \in Requests : pc[w] # "idle" /\ (op[w] # "create" \/ Committed(w)) => topo[w] \in minted

\* A map still at the revision a client read still has the content it read;
\* a transaction that replaces a map found it at that revision.
BodyFresh ==
    \A w \in Requests : pc[w] # "idle" /\ op[w] \in Replacements =>
        /\ exp[w] > 0
        /\ Present(topo[w]) => exp[w] <= rows[topo[w]].rev
        /\ exp[w] = rows[topo[w]].rev => rows[topo[w]].doc = seen[w]
        /\ InTx(w) => cur[w].rev = exp[w]

\* Documents hold only edits that were committed.
EditsCommitted ==
    /\ \A m \in Maps : rows[m].doc \subseteq {w \in Requests : Committed(w)}
    /\ \A w \in Requests : cur[w].doc \subseteq {v \in Requests : Committed(v)}

\* The inductive invariant behind NoLostUpdate and ImplementsSharedMaps: the
\* row lock keeps what a transaction read true until it writes, and the
\* revision tells a replacement whether its body contains all of the row.
EditsInv ==
    /\ TypeOK
    /\ LockHeld
    /\ TransactionIsolated
    /\ \A w \in Requests : InTx(w) => cur[w].rev > 0
    /\ IdsMinted
    /\ BodyFresh
    /\ EditsCommitted
    /\ NoLostUpdate

\* Every saved map belongs to a registered organization and carries its
\* current name, although moves resolve a name before they write, renames
\* rewrite the cached names, and neither compares a revision with the other.
NamesFresh ==
    \A m \in Maps : Present(m) =>
        Registered(rows[m].org) /\ rows[m].name = orgName[rows[m].org]

\* An anonymous link shows a map only in the organization where it was made
\* ("must not keep exposing the map after it moves", replaceTopology).
LinksStayHome ==
    \A m \in Maps : \A t \in rows[m].shares : cur[t].org = rows[m].org

\* A link appears only by the request that makes it, once: no undo, backup or
\* client body brings a revoked link back (comment of replaceTopology).
LinksOnlyIssued ==
    [][\A m \in Maps : \A t \in rows'[m].shares \ rows[m].shares :
          op[t] = "share" /\ topo[t] = m /\ pc[t] = "named" /\ pc'[t] = "committed"]_vars

\* When a request changes the database its account may still reach the map,
\* and the organization it puts it in: an access taken away between the first
\* check and the commit is noticed.
AllowedAtCommit ==
    [][\A w \in Requests : ~Committed(w) /\ Committed(w)' =>
          /\ op[w] \in Transactions => CanAccess(user[w], rows[topo[w]].org)
          /\ rows'[topo'[w]].rev > 0 => CanAccess(user[w], rows'[topo'[w]].org)]_vars

\* A replacement brought the map into its organization.
MovedIn(m) ==
    \E w \in Requests : Committed(w) /\ op[w] = "move" /\ topo[w] = m /\ target[w] = rows[m].org

\* maxOrganizationTopologies "bounds how many maps ... one organization can
\* accumulate on the shared server" (comment at server.go:352): however creations,
\* copies, deletions and moves interleave, only maps that were moved in are beyond it.
CapacityBound == \A o \in Orgs : Cardinality({m \in MapsOf(o) : ~MovedIn(m)}) <= Capacity

Shared == INSTANCE SharedMaps WITH
    maps    <- [m \in Maps |-> [rev |-> rows[m].rev, doc |-> rows[m].doc]],
    applied <- {w \in Requests : Committed(w)}

\* The concurrent server implements the atomic maps.
ImplementsSharedMaps == Shared!Spec
=============================================================================
