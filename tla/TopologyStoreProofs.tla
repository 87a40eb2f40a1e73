------------------------ MODULE TopologyStoreProofs ------------------------
(***************************************************************************)
(* Proofs about TopologyStore for every set of maps, organizations,        *)
(* accounts and requests, every capacity and every number of administrator *)
(* operations.                                                             *)
(***************************************************************************)
EXTENDS TopologyStore, FiniteSetTheorems, TLAPS

\* Every variable, as the names a proof expands.
USE DEF dbVars, authVars, muVars, adminVars, askVars, vars

-----------------------------------------------------------------------------
(* Type correctness.                                                        *)

LEMMA NoRowType == NoRow \in Row
  BY OrgsAssumption DEF NoRow, Row

LEMMA InitType == Init => TypeOK
<1> SUFFICES ASSUME Init PROVE TypeOK
  OBVIOUS
<1>1. orgName \in [Orgs -> Names \cup {NoName}]
  BY DEF Init
<1>2. rows \in [Maps -> Row]
  <2>1. PICK home \in [InitialMaps -> Orgs] :
          rows = [m \in Maps |->
                    IF m \in InitialMaps
                    THEN [rev |-> 1, org |-> home[m], name |-> orgName[home[m]], doc |-> {}, shares |-> {}]
                    ELSE NoRow]
    BY DEF Init
  <2>2. \A m \in InitialMaps :
          [rev |-> 1, org |-> home[m], name |-> orgName[home[m]], doc |-> {}, shares |-> {}] \in Row
    BY <1>1 DEF NoRow, Row
  <2> QED
    BY <2>1, <2>2, NoRowType
<1>3. (CHOOSE m \in Maps : TRUE) \in Maps
  BY MapsAssumption
<1>4. (CHOOSE u \in Users : TRUE) \in Users
  BY RequestAssumption
<1>5. pc \in [Requests -> Pcs]
  BY DEF Init, Pcs
<1>6. minted \subseteq Maps /\ rowLock \in [Maps -> Requests \cup {Nobody}]
      /\ grants \in [Users -> SUBSET Orgs] /\ catalog \subseteq Orgs
      /\ readers \subseteq Requests /\ createMu \in Requests \cup {Nobody}
      /\ adminPc \in {"out", "in", "cleaning", "leaving"} /\ goneOrg \in Orgs
      /\ adminOps \in Nat
  BY MapsAssumption, OrgsAssumption DEF Init
<1>7. op \in [Requests -> Transactions \cup Creations \cup {"none"}]
      /\ topo \in [Requests -> Maps] /\ user \in [Requests -> Users]
      /\ target \in [Requests -> Orgs] /\ exp \in [Requests -> Nat]
      /\ seen \in [Requests -> SUBSET Requests]
  BY <1>3, <1>4, OrgsAssumption DEF Init
<1>8. cur \in [Requests -> Row] /\ name \in [Requests -> Names \cup {NoName}]
  BY NoRowType DEF Init
<1> QED
  BY <1>1, <1>2, <1>5, <1>6, <1>7, <1>8 DEF TypeOK

\* The row a transaction or a creation writes is a row.
LEMMA NextRowType ==
  ASSUME TypeOK, NEW w \in Requests, op[w] \in Transactions \cup Creations
  PROVE  /\ NextOrg(w) \in Orgs
         /\ NameResolved(w) \in Names \cup {NoName}
         /\ NextDoc(w) \in SUBSET Requests
         /\ \A s \in NextShares(w) : s \in SUBSET Requests
         /\ NextRev(w) \in Nat
<1>1. cur[w] \in Row /\ target[w] \in Orgs /\ seen[w] \in SUBSET Requests
  BY DEF TypeOK
<1>2. NextOrg(w) \in Orgs
  BY <1>1 DEF NextOrg, Row
<1>3. NameResolved(w) \in Names \cup {NoName}
  BY <1>2 DEF NameResolved, TypeOK
<1>4. NextDoc(w) \in SUBSET Requests
  BY <1>1 DEF NextDoc, Row
<1>5. \A s \in NextShares(w) : s \in SUBSET Requests
  BY <1>1 DEF NextShares, Row
<1>6. NextRev(w) \in Nat
  BY <1>1 DEF NextRev, Row
<1> QED
  BY <1>2, <1>3, <1>4, <1>5, <1>6

LEMMA NextType == TypeOK /\ [Next]_vars => TypeOK'
<1> SUFFICES ASSUME TypeOK, [Next]_vars PROVE TypeOK'
  OBVIOUS
<1> USE DEF TypeOK, Step, Pcs
<1>1. ASSUME NEW w \in Requests, NEW o \in Ops, NEW m \in Maps, NEW u \in Users, Send(w, o, m, u)
      PROVE TypeOK'
  <2>1. rows[m].rev \in Nat /\ rows[m].org \in Orgs /\ rows[m].doc \in SUBSET Requests
    BY DEF Row
  <2>2. Preconditions(o, m) \subseteq Nat
    BY <2>1 DEF Preconditions
  <2>3. Targets(o, m) \subseteq Orgs
    BY <2>1 DEF Targets
  <2>4. o \in Transactions \cup Creations
    BY OpsAssumption
  <2> QED
    BY <1>1, <2>1, <2>2, <2>3, <2>4 DEF Send
<1>2. ASSUME NEW w \in Requests, Resolve(w) PROVE TypeOK'
  BY <1>2 DEF Resolve
<1>3. ASSUME NEW w \in Requests, Enter(w) PROVE TypeOK'
  BY <1>3 DEF Enter
<1>4. ASSUME NEW w \in Requests, Lock(w) PROVE TypeOK'
  BY <1>4 DEF Lock
<1>5. ASSUME NEW w \in Requests, Authorize(w) PROVE TypeOK'
  BY <1>5 DEF Authorize
<1>6. ASSUME NEW w \in Requests, LookUpName(w) PROVE TypeOK'
  <2>1. NameResolved(w) \in Names \cup {NoName}
    BY <1>6, NextRowType DEF LookUpName, Transactions
  <2> QED
    BY <1>6, <2>1 DEF LookUpName
<1>7. ASSUME NEW w \in Requests, Commit(w) PROVE TypeOK'
  <2>1. PICK s \in NextShares(w) :
          rows' = [rows EXCEPT ![topo[w]] =
                     [rev |-> NextRev(w), org |-> NextOrg(w), name |-> name[w],
                      doc |-> NextDoc(w), shares |-> s]]
    BY <1>7 DEF Commit
  <2>2. [rev |-> NextRev(w), org |-> NextOrg(w), name |-> name[w],
         doc |-> NextDoc(w), shares |-> s] \in Row
    BY <1>7, NextRowType DEF Commit, Row, Transactions
  <2>3. rows' \in [Maps -> Row]
    BY <2>1, <2>2
  <2> QED
    BY <1>7, <2>3 DEF Commit
<1>8. ASSUME NEW w \in Requests, Delete(w) PROVE TypeOK'
  BY <1>8, NoRowType DEF Delete
<1>9. ASSUME NEW w \in Requests, AuthorizeCreation(w) PROVE TypeOK'
  BY <1>9 DEF AuthorizeCreation
<1>10. ASSUME NEW w \in Requests, Count(w) PROVE TypeOK'
  BY <1>10 DEF Count
<1>11. ASSUME NEW w \in Requests, LookUpNewName(w) PROVE TypeOK'
  <2>1. NameResolved(w) \in Names \cup {NoName}
    BY <1>11, NextRowType DEF LookUpNewName
  <2> QED
    BY <1>11, <2>1 DEF LookUpNewName
<1>12. ASSUME NEW w \in Requests, NEW m \in Maps, Insert(w, m) PROVE TypeOK'
  <2>1. [rev |-> 1, org |-> NextOrg(w), name |-> name[w],
         doc |-> cur[w].doc \cup {w}, shares |-> {}] \in Row
    BY <1>12, NextRowType DEF Insert, Row
  <2> QED
    BY <1>12, <2>1 DEF Insert
<1>13. ASSUME NEW w \in Requests, Leave(w) PROVE TypeOK'
  BY <1>13 DEF Leave, Release
<1>14. ASSUME NEW w \in Requests, Fail(w) PROVE TypeOK'
  BY <1>14 DEF Fail, Release, RolledBack
<1>15. CASE AdminEnter
  BY <1>15 DEF AdminEnter
<1>16. ASSUME NEW u \in Users, NEW os \in SUBSET Orgs, UpdateUser(u, os) PROVE TypeOK'
  BY <1>16 DEF UpdateUser
<1>17. ASSUME NEW o \in Orgs, NEW n \in Names, RenameOrganization(o, n) PROVE TypeOK'
  <2>1. \A m \in Maps : [rev |-> rows[m].rev, org |-> o, name |-> n,
                        doc |-> rows[m].doc, shares |-> rows[m].shares] \in Row
    BY DEF Row
  <2>2. RowsRenamed(o, n) \in [Maps -> Row]
    BY <2>1 DEF RowsRenamed
  <2> QED
    BY <1>17, <2>2 DEF RenameOrganization
<1>18. ASSUME NEW o \in Orgs, DeleteOrganization(o) PROVE TypeOK'
  BY <1>18 DEF DeleteOrganization
<1>19. CASE RemoveOrganizationAssignments
  BY <1>19 DEF RemoveOrganizationAssignments
<1>20. CASE AdminLeave
  BY <1>20 DEF AdminLeave
<1>21. CASE UNCHANGED vars
  BY <1>21
<1> QED
  BY <1>1, <1>2, <1>3, <1>4, <1>5, <1>6, <1>7, <1>8, <1>9, <1>10, <1>11, <1>12, <1>13,
     <1>14, <1>15, <1>16, <1>17, <1>18, <1>19, <1>20, <1>21
     DEF Next, Handle, AdminStep, Finished

\* Every variable keeps its type, whatever the requests and administrators do.
THEOREM TypeCorrect == Spec => []TypeOK
  BY InitType, NextType, PTL DEF Spec

-----------------------------------------------------------------------------
(* The inductive invariant EditsInv.                                        *)

LEMMA InitEdits == Init => EditsInv
<1> SUFFICES ASSUME Init PROVE EditsInv
  OBVIOUS
<1>1. TypeOK
  BY InitType
<1>2. \A w \in Requests : pc[w] = "idle" /\ op[w] = "none" /\ cur[w] = NoRow
  BY DEF Init
<1>3. \A w \in Requests : ~InTx(w) /\ ~Committed(w)
  BY <1>2 DEF InTx, Committed
<1>4. \A m \in Maps : rowLock[m] = Nobody
  BY DEF Init
<1>5. \A m \in Maps : rows[m].doc = {} /\ (Present(m) => m \in minted)
  <2>1. PICK home \in [InitialMaps -> Orgs] :
          rows = [m \in Maps |->
                    IF m \in InitialMaps
                    THEN [rev |-> 1, org |-> home[m], name |-> orgName[home[m]], doc |-> {}, shares |-> {}]
                    ELSE NoRow]
    BY DEF Init
  <2>2. minted = InitialMaps
    BY DEF Init
  <2>3. ASSUME NEW m \in InitialMaps PROVE rows[m].doc = {}
    BY <2>1, MapsAssumption DEF NoRow
  <2>4. ASSUME NEW m \in Maps \ InitialMaps PROVE rows[m].doc = {} /\ ~Present(m)
    BY <2>1 DEF NoRow, Present
  <2> QED
    BY <2>2, <2>3, <2>4
<1> QED
  BY <1>1, <1>2, <1>3, <1>4, <1>5
     DEF EditsInv, LockHeld, TransactionIsolated, IdsMinted, BodyFresh, EditsCommitted,
         NoLostUpdate, NoRow

\* A step that writes no row, takes or drops no row lock and starts or commits
\* no request keeps the invariant, whatever else it does.  A request outside
\* its transaction may read a row.
LEMMA QuietStep ==
  ASSUME EditsInv, TypeOK',
         UNCHANGED <<rows, minted, rowLock, op, topo, exp, seen>>,
         \A w \in Requests :
             /\ pc'[w] = "idle" <=> pc[w] = "idle"
             /\ InTx(w)' <=> InTx(w)
             /\ Committed(w)' <=> Committed(w)
             /\ \/ cur'[w] = cur[w]
                \/ ~InTx(w) /\ cur'[w] = rows[topo[w]]
  PROVE  EditsInv'
<1>1. TypeOK
  BY DEF EditsInv
<1>2. \A m \in Maps : Present(m)' <=> Present(m)
  BY DEF Present
<1>3. \A w \in Requests : topo[w] \in Maps
  BY <1>1 DEF TypeOK
<1>4. \A m \in Maps : rowLock[m] \in Requests \cup {Nobody}
  BY <1>1 DEF TypeOK
<1>5. LockHeld'
  BY <1>3, <1>4 DEF EditsInv, LockHeld
<1>6. TransactionIsolated' /\ (\A w \in Requests : InTx(w) => cur[w].rev > 0)'
  BY <1>3 DEF EditsInv, TransactionIsolated
<1>7. IdsMinted'
  BY <1>2 DEF EditsInv, IdsMinted
<1>8. BodyFresh'
  BY <1>2, <1>3 DEF EditsInv, BodyFresh
<1>9. EditsCommitted'
  BY <1>3 DEF EditsInv, EditsCommitted
<1>10. NoLostUpdate'
  BY <1>2, <1>3 DEF EditsInv, NoLostUpdate
<1> QED
  BY <1>5, <1>6, <1>7, <1>8, <1>9, <1>10 DEF EditsInv

\* The program counter alone moves, between two points that are both inside
\* or both outside the transaction.
LEMMA QuietRequest ==
  ASSUME EditsInv, TypeOK',
         UNCHANGED <<rows, minted, rowLock, op, topo, exp, seen>>,
         NEW w \in Requests, NEW from \in Pcs, NEW to \in Pcs, Step(w, from, to),
         from # "idle", to # "idle",
         op[w] \in Transactions =>
             (from \in {"locked", "authorized", "named"})
               <=> (to \in {"locked", "authorized", "named"}),
         (from \in {"committed", "done"}) <=> (to \in {"committed", "done"}),
         \A v \in Requests : cur'[v] = cur[v] \/ (~InTx(v) /\ cur'[v] = rows[topo[v]])
  PROVE  EditsInv'
<1>1. pc \in [Requests -> Pcs]
  BY DEF EditsInv, TypeOK
<1>2. \A v \in Requests : pc'[v] = IF v = w THEN to ELSE pc[v]
  BY <1>1 DEF Step
<1>3. pc[w] = from
  BY DEF Step
<1>4. \A v \in Requests :
        /\ pc'[v] = "idle" <=> pc[v] = "idle"
        /\ InTx(v)' <=> InTx(v)
        /\ Committed(v)' <=> Committed(v)
  BY <1>2, <1>3 DEF InTx, Committed
<1> QED
  BY <1>4, QuietStep

\* What a step leaves alone of the requests other than w, in the words of the
\* invariant.
LEMMA OthersUntouched ==
  ASSUME TypeOK, NEW w \in Requests, NEW to \in Pcs,
         pc' = [pc EXCEPT ![w] = to], UNCHANGED op
  PROVE  \A v \in Requests \ {w} :
             /\ pc'[v] = pc[v]
             /\ InTx(v)' <=> InTx(v)
             /\ Committed(v)' <=> Committed(v)
  BY DEF TypeOK, InTx, Committed

LEMMA SendEdits ==
  ASSUME EditsInv, TypeOK', NEW w \in Requests, NEW o \in Ops, NEW m \in Maps, NEW u \in Users,
         Send(w, o, m, u)
  PROVE  EditsInv'
<1>1. TypeOK
  BY DEF EditsInv
<1>2. /\ pc[w] = "idle" /\ pc'[w] = "sent" /\ op'[w] = o
      /\ UNCHANGED <<rows, minted, rowLock, cur>>
  BY <1>1 DEF Send, Step, TypeOK
<1>3. \A v \in Requests \ {w} :
          pc'[v] = pc[v] /\ op'[v] = op[v] /\ topo'[v] = topo[v]
          /\ exp'[v] = exp[v] /\ seen'[v] = seen[v]
  BY <1>1 DEF Send, Step, TypeOK
<1>4. o # "create" => /\ Present(m) /\ topo'[w] = m /\ seen'[w] = rows[m].doc
                      /\ o \in Replacements => exp'[w] = rows[m].rev
  BY <1>1 DEF Send, TypeOK, Preconditions
<1>5. ~InTx(w) /\ ~InTx(w)' /\ ~Committed(w) /\ ~Committed(w)'
  BY <1>2 DEF InTx, Committed
<1>6. \A v \in Requests \ {w} : (InTx(v)' <=> InTx(v)) /\ (Committed(v)' <=> Committed(v))
  BY <1>3 DEF InTx, Committed
<1>7. LockHeld'
  <2>1. \A v \in Requests : InTx(v)' => InTx(v) /\ topo'[v] = topo[v]
    BY <1>3, <1>5, <1>6
  <2>2. \A v \in Requests : InTx(v) => InTx(v)' /\ topo'[v] = topo[v]
    BY <1>3, <1>5, <1>6
  <2>3. \A p \in Maps : rowLock[p] \in Requests \cup {Nobody}
    BY <1>1 DEF TypeOK
  <2> QED
    BY <1>2, <2>1, <2>2, <2>3 DEF EditsInv, LockHeld
<1>8. TransactionIsolated' /\ (\A v \in Requests : InTx(v) => cur[v].rev > 0)'
  BY <1>2, <1>3, <1>5, <1>6 DEF EditsInv, TransactionIsolated
<1>9. IdsMinted'
  BY <1>2, <1>3, <1>4, <1>5, <1>6 DEF EditsInv, IdsMinted, Present
<1>10. BodyFresh'
  <2>1. ASSUME o \in Replacements
        PROVE  /\ exp'[w] > 0 /\ exp'[w] <= rows[topo'[w]].rev
               /\ rows[topo'[w]].doc = seen'[w]
    <3>1. rows[m].rev \in Nat /\ o # "create"
      BY <1>1, <2>1 DEF TypeOK, Row, Replacements
    <3> QED
      BY <1>4, <2>1, <3>1 DEF Present
  <2> QED
    BY <1>2, <1>3, <1>5, <1>6, <2>1 DEF EditsInv, BodyFresh, Present
<1>11. EditsCommitted'
  BY <1>2, <1>5, <1>6 DEF EditsInv, EditsCommitted
<1>12. NoLostUpdate'
  BY <1>2, <1>3, <1>5, <1>6 DEF EditsInv, NoLostUpdate, Present
<1> QED
  BY <1>7, <1>8, <1>9, <1>10, <1>11, <1>12 DEF EditsInv

LEMMA LockEdits ==
  ASSUME EditsInv, TypeOK', NEW w \in Requests, Lock(w)
  PROVE  EditsInv'
<1> DEFINE m == topo[w]
<1>1. TypeOK
  BY DEF EditsInv
<1>2. /\ pc[w] = "entered" /\ pc' = [pc EXCEPT ![w] = "locked"] /\ pc'[w] = "locked"
      /\ op[w] \in Transactions /\ rowLock[m] = Nobody /\ Present(m) /\ RevisionExpected(w)
      /\ rowLock' = [rowLock EXCEPT ![m] = w] /\ cur'[w] = rows[m]
      /\ UNCHANGED <<rows, minted, op, topo, exp, seen>>
  BY <1>1 DEF Lock, Step, TypeOK, RowFree
<1>3. \A v \in Requests \ {w} : cur'[v] = cur[v]
  BY <1>1 DEF Lock, TypeOK
<1>4. \A v \in Requests \ {w} : /\ pc'[v] = pc[v]
                                /\ InTx(v)' <=> InTx(v)
                                /\ Committed(v)' <=> Committed(v)
  BY <1>1, <1>2, OthersUntouched DEF Pcs
<1>5. ~InTx(w) /\ InTx(w)' /\ ~Committed(w) /\ ~Committed(w)'
  BY <1>2 DEF InTx, Committed
<1>6. LockHeld'
  <2>1. m \in Maps /\ rowLock \in [Maps -> Requests \cup {Nobody}]
    BY <1>1 DEF TypeOK
  <2>2. \A v \in Requests : InTx(v) => topo[v] # m
    BY <1>2, RequestAssumption DEF EditsInv, LockHeld
  <2> QED
    BY <1>2, <1>4, <1>5, <2>1, <2>2 DEF EditsInv, LockHeld
<1>7. TransactionIsolated' /\ (\A v \in Requests : InTx(v) => cur[v].rev > 0)'
  BY <1>2, <1>3, <1>4, <1>5 DEF EditsInv, TransactionIsolated, Present
<1>8. IdsMinted'
  BY <1>2, <1>4, <1>5 DEF EditsInv, IdsMinted, Present
<1>9. BodyFresh'
  BY <1>2, <1>3, <1>4, <1>5 DEF EditsInv, BodyFresh, Present, RevisionExpected
<1>10. EditsCommitted'
  <2>1. m \in Maps
    BY <1>1 DEF TypeOK
  <2> QED
    BY <1>2, <1>3, <1>4, <1>5, <2>1 DEF EditsInv, EditsCommitted
<1>11. NoLostUpdate'
  BY <1>2, <1>4, <1>5 DEF EditsInv, NoLostUpdate, Present
<1> QED
  BY <1>6, <1>7, <1>8, <1>9, <1>10, <1>11 DEF EditsInv

\* Two transactions on one map never overlap.
LEMMA RowExclusive ==
  ASSUME EditsInv, NEW v \in Requests, NEW w \in Requests, InTx(v), InTx(w), topo[v] = topo[w]
  PROVE  v = w
  BY DEF EditsInv, LockHeld

\* The heart of NoLostUpdate: what a mutation writes contains the row's
\* document, because the row is still what the transaction read and, for a
\* replacement, at the revision its body was built from.
LEMMA NextDocKeepsAll ==
  ASSUME EditsInv, NEW w \in Requests, InTx(w), op[w] \in Mutations
  PROVE  /\ NextDoc(w) = rows[topo[w]].doc \cup {w}
         /\ NextRev(w) = rows[topo[w]].rev + 1
         /\ rows[topo[w]].rev > 0
<1>1. rows[topo[w]] = cur[w] /\ cur[w].rev > 0
  BY DEF EditsInv, TransactionIsolated
<1>2. CASE op[w] \in Replacements
  <2>1. pc[w] # "idle"
    BY DEF InTx
  <2>2. cur[w].rev = exp[w]
    BY <1>2, <2>1 DEF EditsInv, BodyFresh
  <2>3. rows[topo[w]].doc = seen[w]
    BY <1>1, <1>2, <2>1, <2>2 DEF EditsInv, BodyFresh
  <2> QED
    BY <1>1, <1>2, <2>3 DEF NextDoc, NextRev
<1>3. CASE op[w] \notin Replacements
  BY <1>1, <1>3 DEF NextDoc, NextRev
<1> QED
  BY <1>2, <1>3

LEMMA CommitEdits ==
  ASSUME EditsInv, TypeOK', NEW w \in Requests, Commit(w)
  PROVE  EditsInv'
<1> DEFINE m == topo[w]
<1>1. TypeOK /\ m \in Maps
  BY DEF EditsInv, TypeOK
<1>2. /\ pc[w] = "named" /\ pc' = [pc EXCEPT ![w] = "committed"] /\ pc'[w] = "committed"
      /\ op[w] \in Mutations
      /\ rowLock' = [rowLock EXCEPT ![m] = Nobody]
      /\ UNCHANGED <<minted, op, topo, exp, seen, cur>>
  BY <1>1 DEF Commit, Step, TypeOK
<1>3. InTx(w) /\ ~InTx(w)' /\ ~Committed(w) /\ Committed(w)'
  BY <1>2 DEF InTx, Committed, Transactions
<1>4. \A v \in Requests \ {w} : /\ pc'[v] = pc[v]
                                /\ InTx(v)' <=> InTx(v)
                                /\ Committed(v)' <=> Committed(v)
  BY <1>1, <1>2, OthersUntouched DEF Pcs
<1>5. PICK s \in NextShares(w) :
        rows' = [rows EXCEPT ![m] = [rev |-> NextRev(w), org |-> NextOrg(w), name |-> name[w],
                                     doc |-> NextDoc(w), shares |-> s]]
  BY DEF Commit
<1>6. /\ \A p \in Maps \ {m} : rows'[p] = rows[p]
      /\ rows'[m].doc = rows[m].doc \cup {w}
      /\ rows'[m].rev = rows[m].rev + 1
      /\ rows[m].rev > 0
  BY <1>1, <1>2, <1>3, <1>5, NextDocKeepsAll DEF TypeOK
<1>7. \A v \in Requests \ {w} : InTx(v) => topo[v] # m
  BY <1>3, RowExclusive
<1>8. \A p \in Maps : rows[p].rev \in Nat /\ (Present(p)' <=> Present(p))
  <2>1. \A p \in Maps : rows[p].rev \in Nat
    BY <1>1 DEF TypeOK, Row
  <2>2. rows[m].rev > 0 /\ rows'[m].rev > 0
    BY <1>1, <1>6, <2>1
  <2> QED
    BY <1>6, <2>1, <2>2 DEF Present
<1>9. \A v \in Requests : topo[v] \in Maps
  BY <1>1 DEF TypeOK
<1>10. LockHeld'
  <2>1. \A p \in Maps \ {m} : rowLock'[p] = rowLock[p] /\ rowLock[p] \in Requests \cup {Nobody}
    BY <1>1, <1>2 DEF TypeOK
  <2>2. rowLock'[m] = Nobody
    BY <1>1, <1>2 DEF TypeOK
  <2>3. rowLock[m] = w
    BY <1>3 DEF EditsInv, LockHeld
  <2>4. \A p \in Maps \ {m} : rowLock[p] # w
    BY <1>3, RequestAssumption DEF EditsInv, LockHeld
  <2> QED
    BY <1>2, <1>3, <1>4, <1>7, <1>9, <2>1, <2>2, <2>4 DEF EditsInv, LockHeld
<1>11. TransactionIsolated' /\ (\A v \in Requests : InTx(v) => cur[v].rev > 0)'
  BY <1>2, <1>3, <1>4, <1>6, <1>7, <1>9 DEF EditsInv, TransactionIsolated
<1>12. IdsMinted'
  <2>1. pc[w] # "idle" /\ op[w] # "create"
    BY <1>2 DEF Mutations, Replacements
  <2> QED
    BY <1>2, <1>3, <1>4, <1>8, <2>1 DEF EditsInv, IdsMinted
<1>13. BodyFresh'
  <2>1. ASSUME NEW v \in Requests, pc[v] # "idle", op[v] \in Replacements, topo[v] = m
        PROVE  exp[v] < rows'[topo[v]].rev
    <3>1. exp[v] <= rows[m].rev /\ exp[v] \in Nat
      BY <1>1, <1>6, <2>1 DEF EditsInv, BodyFresh, Present, TypeOK
    <3>2. rows[m].rev \in Nat /\ rows'[m].rev = rows[m].rev + 1
      BY <1>1, <1>6, <1>8
    <3> QED
      BY <2>1, <3>1, <3>2
  <2>2. pc'[w] # "idle" /\ pc[w] # "idle"
    BY <1>2
  <2>3. \A v \in Requests : pc'[v] # "idle" => pc[v] # "idle"
    BY <1>4, <2>2
  <2>4. \A v \in Requests : topo[v] = m => rows'[topo[v]].rev \in Nat /\ exp[v] \in Nat
    BY <1>1, <1>6, <1>8 DEF TypeOK
  <2> QED
    BY <1>2, <1>3, <1>4, <1>6, <1>8, <1>9, <2>1, <2>2, <2>3, <2>4 DEF EditsInv, BodyFresh
<1>14. EditsCommitted'
  <2>1. \A v \in Requests : Committed(v) => Committed(v)'
    BY <1>3, <1>4
  <2>2. \A p \in Maps : rows'[p].doc \subseteq {v \in Requests : Committed(v)'}
    BY <1>3, <1>6, <2>1 DEF EditsInv, EditsCommitted
  <2> QED
    BY <1>2, <2>1, <2>2 DEF EditsInv, EditsCommitted
<1>15. NoLostUpdate'
  BY <1>2, <1>3, <1>4, <1>6, <1>8, <1>9 DEF EditsInv, NoLostUpdate
<1> QED
  BY <1>10, <1>11, <1>12, <1>13, <1>14, <1>15 DEF EditsInv

LEMMA DeleteEdits ==
  ASSUME EditsInv, TypeOK', NEW w \in Requests, Delete(w)
  PROVE  EditsInv'
<1> DEFINE m == topo[w]
<1>1. TypeOK /\ m \in Maps
  BY DEF EditsInv, TypeOK
<1>2. /\ pc[w] = "authorized" /\ pc' = [pc EXCEPT ![w] = "committed"] /\ pc'[w] = "committed"
      /\ op[w] = "delete"
      /\ rowLock' = [rowLock EXCEPT ![m] = Nobody]
      /\ rows' = [rows EXCEPT ![m] = NoRow]
      /\ UNCHANGED <<minted, op, topo, exp, seen, cur>>
  BY <1>1 DEF Delete, Step, TypeOK
<1>3. InTx(w) /\ ~InTx(w)' /\ ~Committed(w) /\ Committed(w)'
  BY <1>2 DEF InTx, Committed, Transactions
<1>4. \A v \in Requests \ {w} : /\ pc'[v] = pc[v]
                                /\ InTx(v)' <=> InTx(v)
                                /\ Committed(v)' <=> Committed(v)
  BY <1>1, <1>2, OthersUntouched DEF Pcs
<1>5. /\ \A p \in Maps \ {m} : rows'[p] = rows[p]
      /\ rows'[m] = NoRow
  BY <1>1, <1>2 DEF TypeOK
<1>6. \A v \in Requests \ {w} : InTx(v) => topo[v] # m
  BY <1>3, RowExclusive
<1>7. \A v \in Requests : topo[v] \in Maps
  BY <1>1 DEF TypeOK
<1>8. LockHeld'
  <2>1. \A p \in Maps \ {m} : rowLock'[p] = rowLock[p] /\ rowLock[p] \in Requests \cup {Nobody}
    BY <1>1, <1>2 DEF TypeOK
  <2>2. rowLock'[m] = Nobody
    BY <1>1, <1>2 DEF TypeOK
  <2>3. \A p \in Maps \ {m} : rowLock[p] # w
    BY <1>3, RequestAssumption DEF EditsInv, LockHeld
  <2> QED
    BY <1>2, <1>3, <1>4, <1>6, <1>7, <2>1, <2>2, <2>3 DEF EditsInv, LockHeld
<1>9. TransactionIsolated' /\ (\A v \in Requests : InTx(v) => cur[v].rev > 0)'
  BY <1>2, <1>3, <1>4, <1>5, <1>6, <1>7 DEF EditsInv, TransactionIsolated
<1>10. \A p \in Maps : Present(p)' => p # m /\ Present(p)
  BY <1>5 DEF Present, NoRow
<1>11. IdsMinted'
  BY <1>2, <1>3, <1>4, <1>10 DEF EditsInv, IdsMinted
<1>12. BodyFresh'
  <2>1. \A v \in Requests : pc'[v] # "idle" => pc[v] # "idle"
    BY <1>2, <1>4
  <2>2. ASSUME NEW v \in Requests, exp[v] > 0, topo[v] = m
        PROVE  exp[v] # rows'[topo[v]].rev
    BY <1>1, <1>5, <2>2 DEF NoRow, TypeOK
  <2> QED
    BY <1>2, <1>3, <1>4, <1>5, <1>7, <1>10, <2>1, <2>2 DEF EditsInv, BodyFresh
<1>13. EditsCommitted'
  <2>1. \A v \in Requests : Committed(v) => Committed(v)'
    BY <1>3, <1>4
  <2>2. \A p \in Maps : rows'[p].doc \subseteq {v \in Requests : Committed(v)'}
    BY <1>5, <2>1 DEF EditsInv, EditsCommitted, NoRow
  <2> QED
    BY <1>2, <2>1, <2>2 DEF EditsInv, EditsCommitted
<1>14. NoLostUpdate'
  BY <1>2, <1>4, <1>5, <1>7, <1>10 DEF EditsInv, NoLostUpdate
<1> QED
  BY <1>8, <1>9, <1>11, <1>12, <1>13, <1>14 DEF EditsInv

LEMMA InsertEdits ==
  ASSUME EditsInv, TypeOK', NEW w \in Requests, NEW m \in Maps, Insert(w, m)
  PROVE  EditsInv'
<1>1. TypeOK
  BY DEF EditsInv
<1>2. /\ pc[w] = "named" /\ pc' = [pc EXCEPT ![w] = "committed"] /\ pc'[w] = "committed"
      /\ op[w] \in Creations /\ m \notin minted /\ minted' = minted \cup {m}
      /\ topo'[w] = m
      /\ UNCHANGED <<rowLock, op, exp, seen, cur>>
  BY <1>1 DEF Insert, Step, TypeOK
<1>3. ~InTx(w) /\ ~InTx(w)' /\ ~Committed(w) /\ Committed(w)'
  BY <1>2 DEF InTx, Committed, Transactions, Creations, Mutations, Replacements
<1>4. \A v \in Requests \ {w} : /\ pc'[v] = pc[v]
                                /\ InTx(v)' <=> InTx(v)
                                /\ Committed(v)' <=> Committed(v)
  BY <1>1, <1>2, OthersUntouched DEF Pcs
<1>5. /\ \A p \in Maps \ {m} : rows'[p] = rows[p]
      /\ rows'[m].doc = cur[w].doc \cup {w}
      /\ rows'[m].rev = 1
  BY <1>1 DEF Insert, TypeOK
<1>6. \A v \in Requests \ {w} : topo'[v] = topo[v] /\ topo[v] \in Maps
  BY <1>1 DEF Insert, TypeOK
<1>7. \A v \in Requests \ {w} :
        pc[v] # "idle" /\ (op[v] # "create" \/ Committed(v)) => topo[v] # m
  BY <1>2 DEF EditsInv, IdsMinted
<1>8. \A v \in Requests : InTx(v) => v # w /\ pc[v] # "idle" /\ op[v] # "create"
  BY <1>3 DEF InTx, Transactions, Mutations, Replacements
<1>9. LockHeld'
  <2>1. \A p \in Maps : rowLock[p] \in Requests \cup {Nobody}
    BY <1>1 DEF TypeOK
  <2>2. \A p \in Maps : rowLock[p] # w
    BY <1>3, RequestAssumption DEF EditsInv, LockHeld
  <2> QED
    BY <1>2, <1>3, <1>4, <1>6, <2>1, <2>2 DEF EditsInv, LockHeld
<1>10. TransactionIsolated' /\ (\A v \in Requests : InTx(v) => cur[v].rev > 0)'
  BY <1>2, <1>3, <1>4, <1>5, <1>6, <1>7, <1>8 DEF EditsInv, TransactionIsolated
<1>11. \A p \in Maps \ {m} : Present(p)' <=> Present(p)
  BY <1>5 DEF Present
<1>12. IdsMinted'
  BY <1>2, <1>3, <1>4, <1>6, <1>11 DEF EditsInv, IdsMinted
<1>13. BodyFresh'
  <2>1. op[w] \notin Replacements
    BY <1>2 DEF Creations, Replacements
  <2>2. \A v \in Requests : op[v] \in Replacements => op[v] # "create"
    BY DEF Replacements
  <2> QED
    BY <1>2, <1>4, <1>5, <1>6, <1>7, <1>11, <2>1, <2>2 DEF EditsInv, BodyFresh
<1>14. EditsCommitted'
  <2>1. \A v \in Requests : Committed(v) => Committed(v)'
    BY <1>3, <1>4
  <2>2. \A p \in Maps : rows'[p].doc \subseteq {v \in Requests : Committed(v)'}
    BY <1>3, <1>5, <2>1 DEF EditsInv, EditsCommitted
  <2> QED
    BY <1>2, <2>1, <2>2 DEF EditsInv, EditsCommitted
<1>15. NoLostUpdate'
  <2>1. \A v \in Requests : Committed(v) => pc[v] # "idle"
    BY DEF Committed
  <2> QED
    BY <1>2, <1>3, <1>4, <1>5, <1>6, <1>7, <1>11, <2>1 DEF EditsInv, NoLostUpdate
<1> QED
  BY <1>9, <1>10, <1>12, <1>13, <1>14, <1>15 DEF EditsInv

LEMMA FailEdits ==
  ASSUME EditsInv, TypeOK', NEW w \in Requests, Fail(w)
  PROVE  EditsInv'
<1>1. TypeOK
  BY DEF EditsInv
<1>2. /\ pc[w] \notin {"idle", "committed", "done"}
      /\ pc' = [pc EXCEPT ![w] = "failed"] /\ pc'[w] = "failed"
      /\ rowLock' = [m \in Maps |-> IF rowLock[m] = w THEN Nobody ELSE rowLock[m]]
      /\ UNCHANGED <<rows, minted, op, topo, exp, seen, cur>>
  BY <1>1 DEF Fail, RolledBack, TypeOK
<1>3. ~InTx(w)' /\ ~Committed(w) /\ ~Committed(w)'
  BY <1>2 DEF InTx, Committed
<1>4. \A v \in Requests \ {w} : /\ pc'[v] = pc[v]
                                /\ InTx(v)' <=> InTx(v)
                                /\ Committed(v)' <=> Committed(v)
  BY <1>1, <1>2, OthersUntouched DEF Pcs
<1>5. LockHeld'
  <2>1. \A m \in Maps : rowLock[m] \in Requests \cup {Nobody}
    BY <1>1 DEF TypeOK
  <2>2. \A v \in Requests : topo[v] \in Maps
    BY <1>1 DEF TypeOK
  <2> QED
    BY <1>2, <1>3, <1>4, <2>1, <2>2, RequestAssumption DEF EditsInv, LockHeld
<1>6. TransactionIsolated' /\ (\A v \in Requests : InTx(v) => cur[v].rev > 0)'
  BY <1>2, <1>3, <1>4 DEF EditsInv, TransactionIsolated
<1>7. IdsMinted'
  BY <1>2, <1>3, <1>4 DEF EditsInv, IdsMinted, Present
<1>8. BodyFresh'
  BY <1>2, <1>3, <1>4 DEF EditsInv, BodyFresh, Present
<1>9. EditsCommitted'
  BY <1>2, <1>3, <1>4 DEF EditsInv, EditsCommitted
<1>10. NoLostUpdate'
  BY <1>2, <1>3, <1>4 DEF EditsInv, NoLostUpdate, Present
<1> QED
  BY <1>5, <1>6, <1>7, <1>8, <1>9, <1>10 DEF EditsInv

LEMMA RenameEdits ==
  ASSUME EditsInv, TypeOK', NEW o \in Orgs, NEW n \in Names, RenameOrganization(o, n)
  PROVE  EditsInv'
<1>1. TypeOK
  BY DEF EditsInv
<1>2. UNCHANGED <<minted, rowLock, pc, op, topo, exp, seen, cur>>
  BY DEF RenameOrganization
<1>3. \A m \in Maps : rows'[m].doc = rows[m].doc /\ rows'[m].rev = rows[m].rev
  BY DEF RenameOrganization, RowsRenamed
<1>4. \A m \in Maps : rowLock[m] # Nobody => rows'[m] = rows[m]
  BY DEF RenameOrganization, RowsRenamed, RowFree
<1>5. \A v \in Requests : topo[v] \in Maps
  BY <1>1 DEF TypeOK
<1>6. \A v \in Requests : (InTx(v)' <=> InTx(v)) /\ (Committed(v)' <=> Committed(v))
  BY <1>2 DEF InTx, Committed
<1>7. LockHeld'
  BY <1>1, <1>2, <1>6 DEF EditsInv, LockHeld, TypeOK
<1>8. TransactionIsolated' /\ (\A v \in Requests : InTx(v) => cur[v].rev > 0)'
  <2>1. \A v \in Requests : InTx(v) => rowLock[topo[v]] # Nobody
    BY RequestAssumption DEF EditsInv, LockHeld
  <2> QED
    BY <1>2, <1>4, <1>5, <1>6, <2>1 DEF EditsInv, TransactionIsolated
<1>9. \A m \in Maps : Present(m)' <=> Present(m)
  BY <1>3 DEF Present
<1>10. IdsMinted'
  BY <1>2, <1>6, <1>9 DEF EditsInv, IdsMinted
<1>11. BodyFresh'
  BY <1>2, <1>3, <1>5, <1>6, <1>9 DEF EditsInv, BodyFresh
<1>12. EditsCommitted'
  BY <1>2, <1>3, <1>6 DEF EditsInv, EditsCommitted
<1>13. NoLostUpdate'
  BY <1>2, <1>3, <1>5, <1>6, <1>9 DEF EditsInv, NoLostUpdate
<1> QED
  BY <1>7, <1>8, <1>10, <1>11, <1>12, <1>13 DEF EditsInv

LEMMA NextEdits == EditsInv /\ [Next]_vars => EditsInv'
<1> SUFFICES ASSUME EditsInv, [Next]_vars PROVE EditsInv'
  OBVIOUS
<1>1. TypeOK /\ TypeOK'
  BY NextType DEF EditsInv
<1>2. cur \in [Requests -> Row] /\ \A w \in Requests : topo[w] \in Maps
  BY <1>1 DEF TypeOK
<1>3. ASSUME NEW w \in Requests, Resolve(w) PROVE EditsInv'
  BY <1>1, <1>3, QuietRequest DEF Resolve, Pcs
<1>4. ASSUME NEW w \in Requests, Enter(w) PROVE EditsInv'
  <2>1. CASE Step(w, "resolved", "entered")
    BY <1>1, <1>4, <2>1, QuietRequest DEF Enter, Pcs
  <2>2. CASE Step(w, "sent", "entered")
    BY <1>1, <1>4, <2>2, QuietRequest DEF Enter, Pcs
  <2> QED
    BY <1>4, <2>1, <2>2 DEF Enter
<1>5. ASSUME NEW w \in Requests, Authorize(w) PROVE EditsInv'
  BY <1>1, <1>5, QuietRequest DEF Authorize, Pcs
<1>6. ASSUME NEW w \in Requests, LookUpName(w) PROVE EditsInv'
  BY <1>1, <1>6, QuietRequest DEF LookUpName, Pcs
<1>7. ASSUME NEW w \in Requests, op[w] \in Creations PROVE op[w] \notin Transactions /\ ~InTx(w)
  BY <1>7 DEF InTx, Creations, Transactions, Mutations, Replacements
<1>8. ASSUME NEW w \in Requests, AuthorizeCreation(w) PROVE EditsInv'
  <2>1. \A v \in Requests : cur'[v] = cur[v] \/ (~InTx(v) /\ cur'[v] = rows[topo[v]])
    BY <1>2, <1>7, <1>8 DEF AuthorizeCreation
  <2>2. op[w] \notin Transactions
    BY <1>7, <1>8 DEF AuthorizeCreation
  <2> QED
    BY <1>1, <1>8, <2>1, <2>2, QuietRequest DEF AuthorizeCreation, Pcs
<1>9. ASSUME NEW w \in Requests, Count(w) PROVE EditsInv'
  BY <1>1, <1>7, <1>9, QuietRequest DEF Count, Pcs
<1>10. ASSUME NEW w \in Requests, LookUpNewName(w) PROVE EditsInv'
  BY <1>1, <1>7, <1>10, QuietRequest DEF LookUpNewName, Pcs
<1>11. ASSUME NEW w \in Requests, Leave(w) PROVE EditsInv'
  BY <1>1, <1>11, QuietRequest DEF Leave, Pcs
<1>12. ASSUME UNCHANGED <<rows, minted, rowLock, pc, askVars, topo, cur, name>> PROVE EditsInv'
  <2>1. \A w \in Requests :
          /\ InTx(w)' <=> InTx(w)
          /\ Committed(w)' <=> Committed(w)
    BY <1>12 DEF InTx, Committed
  <2> QED
    BY <1>1, <1>12, <2>1, QuietStep
<1>13. CASE AdminEnter
  BY <1>12, <1>13 DEF AdminEnter
<1>14. ASSUME NEW u \in Users, NEW os \in SUBSET Orgs, UpdateUser(u, os) PROVE EditsInv'
  BY <1>12, <1>14 DEF UpdateUser
<1>15. ASSUME NEW o \in Orgs, DeleteOrganization(o) PROVE EditsInv'
  BY <1>12, <1>15 DEF DeleteOrganization
<1>16. CASE RemoveOrganizationAssignments
  BY <1>12, <1>16 DEF RemoveOrganizationAssignments
<1>17. CASE AdminLeave
  BY <1>12, <1>17 DEF AdminLeave
<1>18. CASE UNCHANGED vars
  BY <1>12, <1>18
<1> QED
  BY <1>1, <1>3, <1>4, <1>5, <1>6, <1>8, <1>9, <1>10, <1>11, <1>13, <1>14, <1>15, <1>16, <1>17,
     <1>18, SendEdits, LockEdits, CommitEdits, DeleteEdits, InsertEdits, FailEdits, RenameEdits
     DEF Next, Handle, AdminStep, Finished

\* The invariant of the edits holds in every instance.
THEOREM EditsInvariant == Spec => []EditsInv
  BY InitEdits, NextEdits, PTL DEF Spec

\* No committed edit is ever overwritten while its map exists (replaceTopology,
\* MutateAtRevision).
THEOREM NoEditLost == Spec => []NoLostUpdate
<1>1. EditsInv => NoLostUpdate
  BY DEF EditsInv
<1> QED
  BY <1>1, EditsInvariant, PTL

\* What a transaction read is still in the row when it writes (the row lock of
\* MutateAtRevision and DeleteAtRevision).
THEOREM Isolation == Spec => []TransactionIsolated
<1>1. EditsInv => TransactionIsolated
  BY DEF EditsInv
<1> QED
  BY <1>1, EditsInvariant, PTL

-----------------------------------------------------------------------------
(* The server implements SharedMaps.                                        *)

LEMMA SharedInit == Init => Shared!Init
<1> SUFFICES ASSUME Init PROVE Shared!Init
  OBVIOUS
<1>1. PICK home \in [InitialMaps -> Orgs] :
        rows = [m \in Maps |->
                  IF m \in InitialMaps
                  THEN [rev |-> 1, org |-> home[m], name |-> orgName[home[m]],
                        doc |-> {}, shares |-> {}]
                  ELSE NoRow]
  BY DEF Init
<1>2. minted = InitialMaps /\ {w \in Requests : Committed(w)} = {}
  BY DEF Init, Committed
<1>3. \A m \in Maps : [rev |-> rows[m].rev, doc |-> rows[m].doc]
                      = IF m \in InitialMaps THEN [rev |-> 1, doc |-> {}] ELSE [rev |-> 0, doc |-> {}]
  BY <1>1 DEF NoRow
<1> QED
  BY <1>2, <1>3 DEF Shared!Init, Shared!NoMap

\* The maps a reader of the store sees, and the requests that took effect.
MapsSeen == [m \in Maps |-> [rev |-> rows[m].rev, doc |-> rows[m].doc]]
Applied  == {w \in Requests : Committed(w)}

\* A step that changes neither is a stutter of SharedMaps.
LEMMA SharedStutter ==
  ASSUME \A m \in Maps : rows'[m].rev = rows[m].rev /\ rows'[m].doc = rows[m].doc,
         \A w \in Requests : Committed(w)' <=> Committed(w),
         UNCHANGED minted
  PROVE  UNCHANGED Shared!vars
<1>1. UNCHANGED MapsSeen
  BY DEF MapsSeen
<1>2. UNCHANGED Applied
  BY DEF Applied
<1> QED
  BY <1>1, <1>2 DEF Shared!vars, MapsSeen, Applied

\* One request commits on one map.
LEMMA TakesEffect ==
  ASSUME TypeOK, NEW w \in Requests,
         pc' = [pc EXCEPT ![w] = "committed"], ~Committed(w)
  PROVE  Shared!TakeEffect(w)
<1>1. \A v \in Requests : Committed(v)' <=> Committed(v) \/ v = w
  BY DEF Committed, TypeOK
<1> QED
  BY <1>1 DEF Shared!TakeEffect

LEMMA SharedStep == EditsInv /\ [Next]_vars => [Shared!Next]_(Shared!vars)
<1> SUFFICES ASSUME EditsInv, [Next]_vars PROVE [Shared!Next]_(Shared!vars)
  OBVIOUS
<1>1. TypeOK
  BY DEF EditsInv
<1>2. ASSUME NEW w \in Requests, Commit(w) PROVE Shared!Next
  <2> DEFINE m == topo[w]
  <2>1. m \in Maps
    BY <1>1 DEF TypeOK
  <2>2. /\ pc[w] = "named" /\ pc' = [pc EXCEPT ![w] = "committed"]
        /\ op[w] \in Mutations /\ UNCHANGED <<minted, topo>>
    BY <1>2 DEF Commit, Step
  <2>3. InTx(w) /\ ~Committed(w)
    BY <2>2 DEF InTx, Committed, Transactions
  <2>4. PICK s \in NextShares(w) :
          rows' = [rows EXCEPT ![m] = [rev |-> NextRev(w), org |-> NextOrg(w), name |-> name[w],
                                       doc |-> NextDoc(w), shares |-> s]]
    BY <1>2 DEF Commit
  <2>5. \A p \in Maps : [rev |-> rows'[p].rev, doc |-> rows'[p].doc] =
            IF p = m THEN [rev |-> rows[m].rev + 1, doc |-> rows[m].doc \cup {w}]
            ELSE [rev |-> rows[p].rev, doc |-> rows[p].doc]
    BY <1>1, <2>1, <2>2, <2>3, <2>4, NextDocKeepsAll DEF TypeOK
  <2>6. Shared!TakeEffect(w)
    BY <1>1, <2>2, <2>3, TakesEffect
  <2>7. Shared!Exists(m)
    BY <2>1, <2>2, <2>3, NextDocKeepsAll DEF Shared!Exists
  <2>8. Shared!Edit(w, m)
    BY <2>1, <2>2, <2>5, <2>7 DEF Shared!Edit
  <2> QED
    BY <2>1, <2>6, <2>8 DEF Shared!Next, Shared!Edit
<1>3. ASSUME NEW w \in Requests, Delete(w) PROVE Shared!Next
  <2> DEFINE m == topo[w]
  <2>1. m \in Maps
    BY <1>1 DEF TypeOK
  <2>2. /\ pc[w] = "authorized" /\ pc' = [pc EXCEPT ![w] = "committed"]
        /\ op[w] = "delete" /\ UNCHANGED <<minted, topo>>
        /\ rows' = [rows EXCEPT ![m] = NoRow]
    BY <1>3 DEF Delete, Step
  <2>3. InTx(w) /\ ~Committed(w)
    BY <2>2 DEF InTx, Committed, Transactions
  <2>4. \A p \in Maps : [rev |-> rows'[p].rev, doc |-> rows'[p].doc] =
            IF p = m THEN [rev |-> 0, doc |-> {}]
            ELSE [rev |-> rows[p].rev, doc |-> rows[p].doc]
    BY <1>1, <2>1, <2>2 DEF TypeOK, NoRow
  <2>5. Shared!TakeEffect(w)
    BY <1>1, <2>2, <2>3, TakesEffect
  <2>6. Shared!Exists(m)
    BY <2>1, <2>3 DEF Shared!Exists, EditsInv, TransactionIsolated
  <2>7. Shared!Remove(w, m)
    BY <2>1, <2>2, <2>4, <2>6 DEF Shared!Remove, Shared!NoMap
  <2> QED
    BY <2>1, <2>5, <2>7 DEF Shared!Next, Shared!Remove
<1>4. ASSUME NEW w \in Requests, NEW m \in Maps, Insert(w, m) PROVE Shared!Next
  <2>1. /\ pc[w] = "named" /\ pc' = [pc EXCEPT ![w] = "committed"]
        /\ m \notin minted /\ minted' = minted \cup {m}
        /\ rows' = [rows EXCEPT ![m] = [rev |-> 1, org |-> NextOrg(w), name |-> name[w],
                                        doc |-> cur[w].doc \cup {w}, shares |-> {}]]
    BY <1>4 DEF Insert, Step
  <2>2. ~Committed(w)
    BY <2>1 DEF Committed
  <2>3. \A p \in Maps : [rev |-> rows'[p].rev, doc |-> rows'[p].doc] =
            IF p = m THEN [rev |-> 1, doc |-> cur[w].doc \cup {w}]
            ELSE [rev |-> rows[p].rev, doc |-> rows[p].doc]
    BY <1>1, <2>1 DEF TypeOK
  <2>4. Shared!TakeEffect(w)
    BY <1>1, <2>1, <2>2, TakesEffect
  <2>5. cur[w].doc \subseteq {v \in Requests : Committed(v)}
    BY DEF EditsInv, EditsCommitted
  <2>6. Shared!Create(w, m, cur[w].doc)
    BY <2>1, <2>3 DEF Shared!Create
  <2> QED
    BY <2>4, <2>5, <2>6 DEF Shared!Next, Shared!Create
<1>5. ASSUME NEW w \in Requests, NEW to \in Pcs, pc' = [pc EXCEPT ![w] = to],
             to \in {"committed", "done"} <=> pc[w] \in {"committed", "done"},
             UNCHANGED <<rows, minted>>
      PROVE  UNCHANGED Shared!vars
  <2>1. \A v \in Requests : Committed(v)' <=> Committed(v)
    BY <1>1, <1>5 DEF Committed, TypeOK
  <2> QED
    BY <1>5, <2>1, SharedStutter
<1>6. ASSUME NEW w \in Requests, NEW o \in Ops, NEW m \in Maps, NEW u \in Users, Send(w, o, m, u)
      PROVE  UNCHANGED Shared!vars
  BY <1>5, <1>6 DEF Send, Step, Pcs
<1>7. ASSUME NEW w \in Requests,
             Resolve(w) \/ Enter(w) \/ Lock(w) \/ Authorize(w) \/ LookUpName(w) \/ Leave(w)
      PROVE  UNCHANGED Shared!vars
  BY <1>5, <1>7 DEF Resolve, Enter, Lock, Authorize, LookUpName, Leave, Step, Pcs
<1>8. ASSUME NEW w \in Requests, AuthorizeCreation(w) \/ Count(w) \/ LookUpNewName(w) \/ Fail(w)
      PROVE  UNCHANGED Shared!vars
  BY <1>5, <1>8 DEF AuthorizeCreation, Count, LookUpNewName, Fail, Step, Pcs
<1>9. ASSUME AdminStep PROVE UNCHANGED Shared!vars
  <2>1. UNCHANGED <<minted, pc>>
    BY <1>9 DEF AdminStep, AdminEnter, UpdateUser, RenameOrganization, DeleteOrganization,
                RemoveOrganizationAssignments, AdminLeave
  <2>2. \A m \in Maps : rows'[m].rev = rows[m].rev /\ rows'[m].doc = rows[m].doc
    BY <1>9 DEF AdminStep, AdminEnter, UpdateUser, RenameOrganization, RowsRenamed,
                DeleteOrganization, RemoveOrganizationAssignments, AdminLeave
  <2>3. \A w \in Requests : Committed(w)' <=> Committed(w)
    BY <2>1 DEF Committed
  <2> QED
    BY <2>1, <2>2, <2>3, SharedStutter
<1>10. ASSUME UNCHANGED vars PROVE UNCHANGED Shared!vars
  <2>1. \A w \in Requests : Committed(w)' <=> Committed(w)
    BY <1>10 DEF Committed
  <2> QED
    BY <1>10, <2>1, SharedStutter
<1> QED
  BY <1>2, <1>3, <1>4, <1>6, <1>7, <1>8, <1>9, <1>10 DEF Next, Handle, Finished

\* The concurrent server, with its locks, preconditions and failures, behaves
\* as maps whose edits are atomic and never lost.
THEOREM ServerImplementsSharedMaps == Spec => ImplementsSharedMaps
  BY SharedInit, SharedStep, EditsInvariant, PTL DEF Spec, Shared!Spec, ImplementsSharedMaps

-----------------------------------------------------------------------------
(* Access, names and links: what administrators may not change meanwhile.   *)

\* A request inside the shared side of directoryMu.
Inside(w) == pc[w] \in {"entered", "locked", "authorized", "counted", "named", "committed"}

\* The account may still reach the row, and the organization named.
Allowed(w) ==
    /\ op[w] \in Transactions \cup {"duplicate"} => CanAccess(user[w], cur[w].org)
    /\ op[w] \in Replacements \cup {"create"} => CanAccess(user[w], target[w])

\* What a request has found out stays true while it holds its locks.
Current(w) ==
    /\ Inside(w) => w \in readers
    /\ op[w] \in Creations /\ pc[w] \in {"counted", "named", "committed"} => createMu = w
    /\ pc[w] \in {"authorized", "counted", "named"} => Allowed(w)
    /\ pc[w] = "named" => Registered(NextOrg(w)) /\ name[w] = orgName[NextOrg(w)]

\* A link is of a committed request, which read the map where the map is now.
LinksCommitted ==
    \A m \in Maps : \A t \in rows[m].shares : Committed(t) /\ cur[t].org = rows[m].org

AccessInv ==
    /\ adminPc # "out" => readers = {}
    /\ \A w \in Requests : Current(w)
    /\ NamesFresh
    /\ LinksCommitted

ServerInv == EditsInv /\ AccessInv

\* The kinds of operations are distinct.
LEMMA Kinds ==
  ASSUME NEW o
  PROVE  /\ o \in Creations => o \notin Transactions /\ o \notin Replacements
         /\ o \in Replacements => o \in Mutations
         /\ o \in Mutations => o \in Transactions /\ o # "delete"
  BY DEF Creations, Transactions, Mutations, Replacements

LEMMA InitServer == Init => ServerInv
<1> SUFFICES ASSUME Init PROVE ServerInv
  OBVIOUS
<1>1. PICK home \in [InitialMaps -> Orgs] :
        rows = [m \in Maps |->
                  IF m \in InitialMaps
                  THEN [rev |-> 1, org |-> home[m], name |-> orgName[home[m]], doc |-> {}, shares |-> {}]
                  ELSE NoRow]
  BY DEF Init
<1>2. orgName \in [Orgs -> Names] /\ NoName \notin Names
  BY OrgsAssumption DEF Init
<1>3. ASSUME NEW m \in InitialMaps
      PROVE  m \in Maps /\ Registered(rows[m].org) /\ rows[m].name = orgName[rows[m].org] /\ rows[m].shares = {}
  BY <1>1, <1>2, MapsAssumption DEF Registered
<1>4. ASSUME NEW m \in Maps, m \notin InitialMaps PROVE ~Present(m) /\ rows[m].shares = {}
  BY <1>1, <1>4 DEF Present, NoRow
<1>5. NamesFresh /\ LinksCommitted
  BY <1>3, <1>4 DEF NamesFresh, LinksCommitted
<1>6. \A w \in Requests : Current(w)
  BY DEF Init, Current, Inside
<1> QED
  BY <1>5, <1>6, InitEdits DEF Init, ServerInv, AccessInv

\* A step of one request keeps what the others have found out: organizations and
\* access do not change, and locks are taken and given back for itself only.
LEMMA OthersStayCurrent ==
  ASSUME ServerInv, NEW w \in Requests, UNCHANGED <<orgName, authVars>>,
         \A v \in Requests \ {w} : /\ pc'[v] = pc[v] /\ op'[v] = op[v] /\ user'[v] = user[v]
                                   /\ target'[v] = target[v] /\ cur'[v] = cur[v] /\ name'[v] = name[v],
         readers' = readers \/ readers' = readers \cup {w} \/ readers' = readers \ {w},
         createMu' = createMu \/ createMu = Nobody \/ createMu = w
  PROVE  \A v \in Requests \ {w} : Current(v)'
<1> SUFFICES ASSUME NEW v \in Requests \ {w} PROVE Current(v)'
  OBVIOUS
<1>1. Current(v) /\ v # Nobody
  BY RequestAssumption DEF ServerInv, AccessInv
<1>2. NextOrg(v)' = NextOrg(v) /\ (Allowed(v) => Allowed(v)') /\ (Inside(v)' <=> Inside(v))
  BY DEF NextOrg, Allowed, CanAccess, Inside
<1> QED
  BY <1>1, <1>2 DEF Current, Registered

\* A step of one request that writes no row.
LEMMA QuietServer ==
  ASSUME ServerInv, EditsInv', NEW w \in Requests, UNCHANGED <<orgName, authVars, adminPc, rows>>,
         \A v \in Requests \ {w} : /\ pc'[v] = pc[v] /\ op'[v] = op[v] /\ user'[v] = user[v]
                                   /\ target'[v] = target[v] /\ cur'[v] = cur[v] /\ name'[v] = name[v],
         \/ readers' = readers \/ readers' = readers \ {w}
         \/ readers' = readers \cup {w} /\ adminPc = "out",
         createMu' = createMu \/ createMu = Nobody \/ createMu = w,
         Current(w)', Committed(w) => Committed(w)' /\ cur'[w] = cur[w]
  PROVE  ServerInv'
<1>1. \A v \in Requests : Current(v)'
  BY OthersStayCurrent
<1>2. NamesFresh'
  BY DEF ServerInv, AccessInv, NamesFresh, Present, Registered
<1>3. LinksCommitted'
  <2>1. \A m \in Maps : rows[m].shares \subseteq Requests
    BY DEF ServerInv, EditsInv, TypeOK, Row
  <2> QED
    BY <2>1 DEF ServerInv, AccessInv, LinksCommitted, Committed
<1>4. adminPc' # "out" => readers' = {}
  BY DEF ServerInv, AccessInv
<1> QED
  BY <1>1, <1>2, <1>3, <1>4 DEF ServerInv, AccessInv

LEMMA SendServer ==
  ASSUME ServerInv, EditsInv', NEW w \in Requests, NEW o \in Ops, NEW m \in Maps, NEW u \in Users, Send(w, o, m, u)
  PROVE  ServerInv'
<1>1. TypeOK
  BY DEF ServerInv, EditsInv
<1>2. pc[w] = "idle" /\ pc'[w] = "sent" /\ UNCHANGED <<orgName, authVars, adminPc, rows, readers, createMu, cur, name>>
  BY <1>1 DEF Send, Step, TypeOK
<1>3. \A v \in Requests \ {w} : pc'[v] = pc[v] /\ op'[v] = op[v] /\ user'[v] = user[v] /\ target'[v] = target[v]
  BY <1>1 DEF Send, Step, TypeOK
<1>4. Current(w)' /\ ~Committed(w)
  BY <1>2 DEF Current, Inside, Committed
<1> QED
  BY <1>2, <1>3, <1>4, QuietServer

\* What a step of a handler that only moves its program counter leaves alone.
LEMMA StepsApart ==
  ASSUME TypeOK, NEW w \in Requests, NEW from, NEW to, Step(w, from, to)
  PROVE  pc[w] = from /\ pc'[w] = to /\ \A v \in Requests \ {w} : pc'[v] = pc[v]
  BY DEF Step, TypeOK

LEMMA ResolveServer ==
  ASSUME ServerInv, EditsInv', NEW w \in Requests, Resolve(w)
  PROVE  ServerInv'
<1>1. /\ pc[w] = "sent" /\ pc'[w] = "resolved" /\ \A v \in Requests \ {w} : pc'[v] = pc[v]
      /\ UNCHANGED <<orgName, authVars, adminPc, rows, readers, createMu, op, user, target, cur, name>>
  BY StepsApart DEF Resolve, ServerInv, EditsInv
<1>2. Current(w)' /\ ~Committed(w)
  BY <1>1 DEF Current, Inside, Committed
<1> QED
  BY <1>1, <1>2, QuietServer

LEMMA EnterServer ==
  ASSUME ServerInv, EditsInv', NEW w \in Requests, Enter(w)
  PROVE  ServerInv'
<1>1. Step(w, "resolved", "entered") \/ Step(w, "sent", "entered")
  BY DEF Enter
<1>2. /\ pc[w] \in {"resolved", "sent"} /\ pc'[w] = "entered" /\ \A v \in Requests \ {w} : pc'[v] = pc[v]
      /\ adminPc = "out" /\ readers' = readers \cup {w}
      /\ UNCHANGED <<orgName, authVars, adminPc, rows, createMu, op, user, target, cur, name>>
  BY <1>1, StepsApart DEF Enter, Readable, ServerInv, EditsInv
<1>3. Current(w)' /\ ~Committed(w)
  BY <1>2 DEF Current, Inside, Committed
<1> QED
  BY <1>2, <1>3, QuietServer

LEMMA LockServer ==
  ASSUME ServerInv, EditsInv', NEW w \in Requests, Lock(w)
  PROVE  ServerInv'
<1>1. /\ pc[w] = "entered" /\ pc'[w] = "locked" /\ \A v \in Requests \ {w} : pc'[v] = pc[v] /\ cur'[v] = cur[v]
      /\ UNCHANGED <<orgName, authVars, adminPc, rows, readers, createMu, op, user, target, name>>
  BY StepsApart DEF Lock, ServerInv, EditsInv, TypeOK
<1>2. Current(w)' /\ ~Committed(w)
  BY <1>1 DEF Current, Inside, Committed, ServerInv, AccessInv
<1> QED
  BY <1>1, <1>2, QuietServer

LEMMA AuthorizeServer ==
  ASSUME ServerInv, EditsInv', NEW w \in Requests, Authorize(w)
  PROVE  ServerInv'
<1>1. /\ pc[w] = "locked" /\ pc'[w] = "authorized" /\ \A v \in Requests \ {w} : pc'[v] = pc[v]
      /\ StillAllowed(w) /\ op[w] \in Transactions
      /\ UNCHANGED <<orgName, authVars, adminPc, rows, readers, createMu, op, user, target, cur, name>>
  BY StepsApart DEF Authorize, ServerInv, EditsInv
<1>2. Allowed(w)'
  BY <1>1, Kinds DEF StillAllowed, Allowed, CanAccess, Creations
<1>3. Current(w)' /\ ~Committed(w)
  BY <1>1, <1>2 DEF Current, Inside, Committed, ServerInv, AccessInv
<1> QED
  BY <1>1, <1>3, QuietServer

LEMMA LookUpServer ==
  ASSUME ServerInv, EditsInv', NEW w \in Requests, LookUpName(w) \/ LookUpNewName(w)
  PROVE  ServerInv'
<1>1. Step(w, "authorized", "named") \/ (op[w] \in Creations /\ Step(w, "counted", "named"))
  BY DEF LookUpName, LookUpNewName
<1>2. /\ pc[w] \in {"authorized", "counted"} /\ (op[w] \in Creations => pc[w] = "counted")
      /\ pc'[w] = "named" /\ \A v \in Requests \ {w} : pc'[v] = pc[v] /\ name'[v] = name[v]
      /\ Registered(NextOrg(w)) /\ name'[w] = orgName[NextOrg(w)]
      /\ UNCHANGED <<orgName, authVars, adminPc, rows, readers, createMu, op, user, target, cur>>
  BY <1>1, StepsApart, Kinds DEF LookUpName, LookUpNewName, NameResolved, ServerInv, EditsInv, TypeOK
<1>3. NextOrg(w)' = NextOrg(w) /\ Allowed(w)' = Allowed(w)
  BY <1>2 DEF NextOrg, Allowed, CanAccess
<1>4. Current(w)' /\ ~Committed(w)
  BY <1>2, <1>3 DEF Current, Inside, Committed, Registered, ServerInv, AccessInv
<1> QED
  BY <1>2, <1>4, QuietServer

LEMMA AuthorizeCreationServer ==
  ASSUME ServerInv, EditsInv', NEW w \in Requests, AuthorizeCreation(w)
  PROVE  ServerInv'
<1>1. /\ pc[w] = "entered" /\ pc'[w] = "authorized" /\ \A v \in Requests \ {w} : pc'[v] = pc[v] /\ cur'[v] = cur[v]
      /\ op[w] \in Creations
      /\ UNCHANGED <<orgName, authVars, adminPc, rows, readers, createMu, op, user, target, name>>
  BY StepsApart DEF AuthorizeCreation, ServerInv, EditsInv, TypeOK
<1>2. op[w] = "duplicate" => CanAccess(user[w], cur'[w].org)
  BY DEF AuthorizeCreation, ServerInv, EditsInv, TypeOK
<1>3. Allowed(w)'
  BY <1>1, <1>2, Kinds DEF AuthorizeCreation, Allowed, CanAccess, Creations
<1>4. Current(w)' /\ ~Committed(w)
  BY <1>1, <1>3 DEF Current, Inside, Committed, ServerInv, AccessInv
<1> QED
  BY <1>1, <1>4, QuietServer

LEMMA CountServer ==
  ASSUME ServerInv, EditsInv', NEW w \in Requests, Count(w)
  PROVE  ServerInv'
<1>1. /\ pc[w] = "authorized" /\ pc'[w] = "counted" /\ \A v \in Requests \ {w} : pc'[v] = pc[v]
      /\ createMu = Nobody /\ createMu' = w
      /\ UNCHANGED <<orgName, authVars, adminPc, rows, readers, op, user, target, cur, name>>
  BY StepsApart DEF Count, CreateMuFree, ServerInv, EditsInv
<1>2. Allowed(w)'
  BY <1>1 DEF Allowed, CanAccess, Current, ServerInv, AccessInv
<1>3. Current(w)' /\ ~Committed(w)
  BY <1>1, <1>2 DEF Current, Inside, Committed, ServerInv, AccessInv
<1> QED
  BY <1>1, <1>3, QuietServer

\* The deferred unlocks.
LEMMA LeaveServer ==
  ASSUME ServerInv, EditsInv', NEW w \in Requests, Leave(w) \/ Fail(w)
  PROVE  ServerInv'
<1>1. /\ pc'[w] \in {"done", "failed"} /\ (Committed(w) => Committed(w)')
      /\ \A v \in Requests \ {w} : pc'[v] = pc[v]
      /\ readers' = readers \ {w} /\ createMu' = (IF createMu = w THEN Nobody ELSE createMu)
      /\ UNCHANGED <<orgName, authVars, adminPc, rows, op, user, target, cur, name>>
  BY DEF Leave, Fail, Step, Release, Committed, ServerInv, EditsInv, TypeOK
<1>2. Current(w)'
  BY <1>1 DEF Current, Inside
<1>3. createMu' = createMu \/ createMu = w
  BY <1>1
<1> QED
  BY <1>1, <1>2, <1>3, QuietServer

\* What a mutation writes: the organization it looked up, and links only of requests
\* that read the map there.
LEMMA CommitWrites ==
  ASSUME ServerInv, NEW w \in Requests, Commit(w)
  PROVE  /\ topo[w] \in Maps /\ pc[w] = "named" /\ pc'[w] = "committed"
         /\ \A v \in Requests \ {w} : pc'[v] = pc[v]
         /\ UNCHANGED <<orgName, authVars, adminPc, readers, createMu, op, topo, user, target, cur, name>>
         /\ \A m \in Maps \ {topo[w]} : rows'[m] = rows[m]
         /\ rows'[topo[w]].rev = rows[topo[w]].rev + 1 /\ rows'[topo[w]].org = NextOrg(w)
         /\ rows'[topo[w]].name = name[w] /\ rows'[topo[w]].shares \in NextShares(w)
         /\ Present(topo[w]) /\ rows[topo[w]] = cur[w] /\ op[w] \in Mutations
<1>1. TypeOK
  BY DEF ServerInv, EditsInv
<1>2. /\ op[w] \in Mutations /\ pc[w] = "named" /\ pc'[w] = "committed" /\ \A v \in Requests \ {w} : pc'[v] = pc[v]
      /\ UNCHANGED <<orgName, authVars, adminPc, readers, createMu, op, topo, user, target, cur, name>>
  BY <1>1, StepsApart DEF Commit
<1>3. InTx(w)
  BY <1>2, Kinds DEF InTx
<1>4. rows[topo[w]] = cur[w] /\ cur[w].rev > 0
  BY <1>3 DEF ServerInv, EditsInv, TransactionIsolated
<1>5. topo[w] \in Maps /\ rows \in [Maps -> Row]
  BY <1>1 DEF TypeOK
<1> QED
  BY <1>2, <1>4, <1>5 DEF Commit, NextRev, Present

\* Only a request that makes a link adds one.
LEMMA NextLinks ==
  ASSUME NEW w \in Requests, NEW s \in NextShares(w), NEW t \in s
  PROVE  (t = w /\ op[w] = "share") \/ t \in cur[w].shares
<1>1. CASE op[w] = "share"
  BY <1>1 DEF NextShares
<1>2. CASE op[w] = "revoke"
  <2>1. NextShares(w) = {cur[w].shares \ {u} : u \in cur[w].shares}
    BY <1>2 DEF NextShares
  <2> QED
    BY <2>1
<1>3. CASE op[w] \in Replacements /\ target[w] # cur[w].org
  BY <1>3 DEF NextShares, Replacements
<1>4. CASE op[w] \notin {"share", "revoke"} /\ ~(op[w] \in Replacements /\ target[w] # cur[w].org)
  BY <1>4 DEF NextShares
<1> QED
  BY <1>1, <1>2, <1>3, <1>4

LEMMA CommitServer ==
  ASSUME ServerInv, EditsInv', NEW w \in Requests, Commit(w)
  PROVE  ServerInv'
<1>1. Current(w)'
  BY CommitWrites DEF Current, Inside, ServerInv, AccessInv
<1>2. \A v \in Requests : Current(v)'
  BY <1>1, CommitWrites, OthersStayCurrent
<1>3. NamesFresh'
  <2>1. Registered(NextOrg(w)) /\ name[w] = orgName[NextOrg(w)]
    BY CommitWrites DEF ServerInv, AccessInv, Current
  <2> QED
    BY <2>1, CommitWrites DEF ServerInv, AccessInv, NamesFresh, Present, Registered
<1>4. LinksCommitted'
  <2>1. \A t \in Requests : Committed(t)' <=> Committed(t) \/ t = w
    BY CommitWrites DEF Committed
  <2>2. \A m \in Maps : rows[m].shares \subseteq Requests
    BY DEF ServerInv, EditsInv, TypeOK, Row
  <2>3. ASSUME NEW t \in rows'[topo[w]].shares PROVE Committed(t)' /\ cur'[t].org = rows'[topo[w]].org
    <3>1. CASE t = w /\ op[w] = "share"
      BY <2>1, <3>1, CommitWrites DEF NextOrg, Replacements
    <3>2. CASE t \in rows[topo[w]].shares
      <4>1. NextOrg(w) = cur[w].org
        BY <2>3, CommitWrites DEF NextShares, NextOrg, Replacements, Mutations
      <4>2. t \in Requests /\ Committed(t) /\ cur[t].org = rows[topo[w]].org
        BY <2>2, <3>2, CommitWrites DEF ServerInv, AccessInv, LinksCommitted
      <4> QED
        BY <2>1, <4>1, <4>2, CommitWrites
    <3>3. (t = w /\ op[w] = "share") \/ t \in rows[topo[w]].shares
      BY <2>3, CommitWrites, NextLinks
    <3> QED
      BY <3>1, <3>2, <3>3
  <2>4. ASSUME NEW m \in Maps \ {topo[w]}, NEW t \in rows'[m].shares PROVE Committed(t)' /\ cur'[t].org = rows'[m].org
    BY <2>1, <2>2, <2>4, CommitWrites DEF ServerInv, AccessInv, LinksCommitted
  <2> QED
    BY <2>3, <2>4 DEF LinksCommitted
<1> QED
  BY <1>2, <1>3, <1>4, CommitWrites DEF ServerInv, AccessInv

LEMMA DeleteServer ==
  ASSUME ServerInv, EditsInv', NEW w \in Requests, Delete(w)
  PROVE  ServerInv'
<1>1. /\ topo[w] \in Maps /\ pc[w] = "authorized" /\ pc'[w] = "committed" /\ op[w] = "delete"
      /\ \A v \in Requests \ {w} : pc'[v] = pc[v]
      /\ UNCHANGED <<orgName, authVars, adminPc, readers, createMu, op, topo, user, target, cur, name>>
      /\ rows' = [rows EXCEPT ![topo[w]] = NoRow] /\ rows \in [Maps -> Row]
  BY StepsApart DEF Delete, ServerInv, EditsInv, TypeOK
<1>2. Current(w)'
  BY <1>1 DEF Current, Inside, Creations, ServerInv, AccessInv
<1>3. \A v \in Requests : Current(v)'
  BY <1>1, <1>2, OthersStayCurrent
<1>4. NamesFresh'
  BY <1>1 DEF ServerInv, AccessInv, NamesFresh, Present, Registered, NoRow
<1>5. LinksCommitted'
  <2>1. \A m \in Maps : rows[m].shares \subseteq Requests
    BY <1>1 DEF Row
  <2>2. \A t \in Requests : Committed(t) => Committed(t)'
    BY <1>1 DEF Committed
  <2> QED
    BY <1>1, <2>1, <2>2 DEF ServerInv, AccessInv, LinksCommitted, NoRow
<1> QED
  BY <1>1, <1>3, <1>4, <1>5 DEF ServerInv, AccessInv

LEMMA InsertServer ==
  ASSUME ServerInv, EditsInv', NEW w \in Requests, NEW m \in Maps, Insert(w, m)
  PROVE  ServerInv'
<1>1. /\ pc[w] = "named" /\ pc'[w] = "committed" /\ op[w] \in Creations
      /\ \A v \in Requests \ {w} : pc'[v] = pc[v]
      /\ UNCHANGED <<orgName, authVars, adminPc, readers, createMu, op, user, target, cur, name>>
      /\ rows' = [rows EXCEPT ![m] = [rev |-> 1, org |-> NextOrg(w), name |-> name[w],
                                      doc |-> cur[w].doc \cup {w}, shares |-> {}]]
      /\ rows \in [Maps -> Row]
  BY StepsApart DEF Insert, ServerInv, EditsInv, TypeOK
<1>2. Current(w)'
  BY <1>1 DEF Current, Inside, ServerInv, AccessInv
<1>3. \A v \in Requests : Current(v)'
  BY <1>1, <1>2, OthersStayCurrent
<1>4. NamesFresh'
  <2>1. Registered(NextOrg(w)) /\ name[w] = orgName[NextOrg(w)]
    BY <1>1 DEF ServerInv, AccessInv, Current
  <2>2. rows'[m].org = NextOrg(w) /\ rows'[m].name = name[w]
    BY <1>1
  <2>3. \A p \in Maps \ {m} : rows'[p] = rows[p]
    BY <1>1
  <2>4. orgName' = orgName /\ NamesFresh
    BY <1>1 DEF ServerInv, AccessInv
  <2> QED
    BY <2>1, <2>2, <2>3, <2>4 DEF NamesFresh, Present, Registered
<1>5. LinksCommitted'
  <2>1. \A p \in Maps : rows[p].shares \subseteq Requests
    BY <1>1 DEF Row
  <2>2. \A t \in Requests : Committed(t) => Committed(t)'
    BY <1>1 DEF Committed
  <2> QED
    BY <1>1, <2>1, <2>2 DEF ServerInv, AccessInv, LinksCommitted
<1> QED
  BY <1>1, <1>3, <1>4, <1>5 DEF ServerInv, AccessInv

\* While the administrator's handler runs, no request is inside.
LEMMA NobodyInside ==
  ASSUME ServerInv, readers = {}, UNCHANGED <<pc, readers>>
  PROVE  \A w \in Requests : Current(w)'
<1>1. \A w \in Requests : ~Inside(w)
  BY DEF ServerInv, AccessInv, Current
<1> QED
  BY <1>1 DEF Current, Inside

LEMMA AdminServer ==
  ASSUME ServerInv, EditsInv', AdminStep
  PROVE  ServerInv'
<1>1. readers = {} /\ UNCHANGED <<pc, readers, cur, op>>
  BY DEF AdminStep, AdminEnter, Alone, UpdateUser, RenameOrganization, DeleteOrganization,
         RemoveOrganizationAssignments, AdminLeave, ServerInv, AccessInv
<1>2. \A w \in Requests : Current(w)'
  BY <1>1, NobodyInside
<1>3. \A t \in Requests : Committed(t)' <=> Committed(t)
  BY <1>1 DEF Committed
<1>4. TypeOK /\ rows \in [Maps -> Row] /\ \A m \in Maps : rows[m].shares \subseteq Requests /\ rows[m].org \in Orgs
  BY DEF ServerInv, EditsInv, TypeOK, Row
<1>5. ASSUME NEW o \in Orgs, NEW n \in Names, RenameOrganization(o, n) PROVE NamesFresh' /\ LinksCommitted'
  <2>1. /\ orgName' = [orgName EXCEPT ![o] = n] /\ orgName \in [Orgs -> Names \cup {NoName}] /\ n # NoName
        /\ \A m \in Maps : /\ rows'[m].rev = rows[m].rev /\ rows'[m].org = rows[m].org /\ rows'[m].shares = rows[m].shares
                           /\ rows'[m].name = IF Present(m) /\ rows[m].org = o THEN n ELSE rows[m].name
    BY <1>4, <1>5, OrgsAssumption DEF RenameOrganization, RowsRenamed, MapsOf, TypeOK
  <2>2. NamesFresh'
    BY <1>4, <2>1 DEF ServerInv, AccessInv, NamesFresh, Present, Registered
  <2>3. LinksCommitted'
    BY <1>1, <1>3, <1>4, <2>1 DEF ServerInv, AccessInv, LinksCommitted
  <2> QED
    BY <2>2, <2>3
<1>6. ASSUME NEW o \in Orgs, DeleteOrganization(o) PROVE NamesFresh' /\ LinksCommitted'
  <2>1. orgName' = [orgName EXCEPT ![o] = NoName] /\ rows' = rows /\ orgName \in [Orgs -> Names \cup {NoName}]
    BY <1>4, <1>6 DEF DeleteOrganization, TypeOK
  <2>2. \A m \in Maps : Present(m) => rows[m].org # o
    BY <1>6 DEF DeleteOrganization, MapsOf, ServerInv, AccessInv, NamesFresh
  <2>3. NamesFresh'
    BY <1>4, <2>1, <2>2 DEF ServerInv, AccessInv, NamesFresh, Present, Registered
  <2>4. LinksCommitted'
    BY <1>1, <1>3, <1>4, <2>1 DEF ServerInv, AccessInv, LinksCommitted
  <2> QED
    BY <2>3, <2>4
<1>7. ASSUME UNCHANGED <<rows, orgName>> PROVE NamesFresh' /\ LinksCommitted'
  <2>1. NamesFresh /\ LinksCommitted
    BY DEF ServerInv, AccessInv
  <2>2. NamesFresh'
    BY <1>7, <2>1 DEF NamesFresh, Present, Registered
  <2>3. LinksCommitted'
    BY <1>1, <1>3, <1>4, <1>7, <2>1 DEF LinksCommitted
  <2> QED
    BY <2>2, <2>3
<1>8. \/ \E o \in Orgs, n \in Names : RenameOrganization(o, n)
      \/ \E o \in Orgs : DeleteOrganization(o)
      \/ UNCHANGED <<rows, orgName>>
  BY DEF AdminStep, AdminEnter, UpdateUser, RemoveOrganizationAssignments, AdminLeave
<1>9. NamesFresh' /\ LinksCommitted'
  BY <1>5, <1>6, <1>7, <1>8
<1> QED
  BY <1>1, <1>2, <1>9 DEF ServerInv, AccessInv

LEMMA NextServer == ServerInv /\ [Next]_vars => ServerInv'
<1> SUFFICES ASSUME ServerInv, [Next]_vars PROVE ServerInv'
  OBVIOUS
<1>1. EditsInv'
  BY NextEdits DEF ServerInv
<1>2. CASE UNCHANGED vars
  BY <1>1, <1>2 DEF ServerInv, AccessInv, NamesFresh, Present, Registered, LinksCommitted, Committed,
                    Current, Inside, Allowed, CanAccess, NextOrg
<1> QED
  BY <1>1, <1>2, SendServer, ResolveServer, EnterServer, LockServer, AuthorizeServer, LookUpServer,
     CommitServer, DeleteServer, AuthorizeCreationServer, CountServer, InsertServer, LeaveServer, AdminServer
     DEF Next, Handle, Finished

\* Access, names and links stay true of the saved maps in every instance.
THEOREM ServerInvariant == Spec => []ServerInv
  BY InitServer, NextServer, PTL DEF Spec

\* A map carries its organization's current name (findPostgresOrganizationByID and
\* the renames, kept apart by directoryMu).
THEOREM NamesAreFresh == Spec => []NamesFresh
<1>1. ServerInv => NamesFresh
  BY DEF ServerInv, AccessInv
<1> QED
  BY <1>1, ServerInvariant, PTL

\* A link shows a map only in the organization where it was made (replaceTopology).
THEOREM LinksStay == Spec => []LinksStayHome
<1>1. ServerInv => LinksStayHome
  BY DEF ServerInv, AccessInv, LinksCommitted, LinksStayHome
<1> QED
  BY <1>1, ServerInvariant, PTL

-----------------------------------------------------------------------------
(* What a committed request has done.                                       *)

\* A request commits by writing, deleting or inserting a row.
LEMMA Commits ==
  ASSUME TypeOK, Next, NEW w \in Requests, ~Committed(w), Committed(w)'
  PROVE  Commit(w) \/ Delete(w) \/ \E m \in Maps : Insert(w, m)
<1>1. pc \in [Requests -> Pcs] /\ pc'[w] \in {"committed", "done"} /\ pc[w] \notin {"committed", "done"}
  BY DEF TypeOK, Committed
<1>2. ~Finished /\ ~AdminStep
  BY <1>1 DEF Finished, AdminStep, AdminEnter, UpdateUser, RenameOrganization, DeleteOrganization,
              RemoveOrganizationAssignments, AdminLeave
<1>3. ~\E v \in Requests, o \in Ops, m \in Maps, u \in Users : Send(v, o, m, u)
  BY <1>1 DEF Send, Step
<1>4. PICK v \in Requests : Handle(v) \/ Fail(v)
  BY <1>2, <1>3 DEF Next
<1>5. v = w
  BY <1>1, <1>4 DEF Handle, Resolve, Enter, Lock, Authorize, LookUpName, Commit, Delete, AuthorizeCreation,
                    Count, LookUpNewName, Insert, Leave, Fail, Step
<1>6. ~(Resolve(w) \/ Enter(w) \/ Lock(w) \/ Authorize(w) \/ LookUpName(w) \/ AuthorizeCreation(w)
        \/ Count(w) \/ LookUpNewName(w) \/ Leave(w) \/ Fail(w))
  BY <1>1 DEF Resolve, Enter, Lock, Authorize, LookUpName, AuthorizeCreation,
              Count, LookUpNewName, Leave, Fail, Step
<1> QED
  BY <1>4, <1>5, <1>6 DEF Handle

\* A request writes only where its account may still go (StillAllowed, replaceTopology,
\* createTopology): access taken away earlier is noticed, access taken away later waits.
THEOREM WritesAreAllowed == Spec => AllowedAtCommit
<1>1. ASSUME ServerInv, [Next]_vars, NEW w \in Requests, ~Committed(w), Committed(w)'
      PROVE  /\ op[w] \in Transactions => CanAccess(user[w], rows[topo[w]].org)
             /\ rows'[topo'[w]].rev > 0 => CanAccess(user[w], rows'[topo'[w]].org)
  <2>1. TypeOK /\ Next /\ Current(w)
    BY <1>1 DEF ServerInv, EditsInv, AccessInv, vars, Committed
  <2>2. CASE Commit(w)
    <3>1. Allowed(w)
      BY <1>1, <2>1, <2>2, CommitWrites DEF Current
    <3> QED
      BY <1>1, <2>2, <3>1, CommitWrites, Kinds DEF Allowed, NextOrg, Mutations, Transactions
  <2>3. CASE Delete(w)
    <3>1. op[w] = "delete" /\ pc[w] = "authorized" /\ topo[w] \in Maps /\ rows \in [Maps -> Row]
          /\ rows' = [rows EXCEPT ![topo[w]] = NoRow] /\ topo' = topo
      BY <2>1, <2>3 DEF Delete, Step, TypeOK
    <3>2. rows[topo[w]] = cur[w]
      BY <1>1, <3>1 DEF ServerInv, EditsInv, TransactionIsolated, InTx, Transactions
    <3>3. CanAccess(user[w], cur[w].org)
      BY <2>1, <3>1 DEF Current, Allowed, Transactions
    <3> QED
      BY <3>1, <3>2, <3>3 DEF NoRow
  <2>4. ASSUME NEW m \in Maps, Insert(w, m)
        PROVE  op[w] \notin Transactions /\ CanAccess(user[w], rows'[topo'[w]].org)
    <3>1. op[w] \in Creations /\ pc[w] = "named" /\ topo'[w] = m /\ rows'[m].org = NextOrg(w)
      BY <2>1, <2>4 DEF Insert, Step, TypeOK
    <3>2. Allowed(w)
      BY <2>1, <3>1 DEF Current
    <3> QED
      BY <3>1, <3>2, Kinds DEF Allowed, NextOrg, Creations, Replacements
  <2> QED
    BY <1>1, <2>1, <2>2, <2>3, <2>4, Commits
<1>2. ServerInv /\ [Next]_vars =>
        [\A w \in Requests : ~Committed(w) /\ Committed(w)' =>
          /\ op[w] \in Transactions => CanAccess(user[w], rows[topo[w]].org)
          /\ rows'[topo'[w]].rev > 0 => CanAccess(user[w], rows'[topo'[w]].org)]_vars
  BY <1>1
<1> QED
  BY <1>2, ServerInvariant, PTL DEF Spec, AllowedAtCommit

\* The links of a map after a step that is no commit of a mutation.
LEMMA LinksKept ==
  ASSUME TypeOK, [Next]_vars, \A w \in Requests : ~Commit(w), NEW m \in Maps
  PROVE  rows'[m].shares \subseteq rows[m].shares
<1>1. rows \in [Maps -> Row]
  BY DEF TypeOK
<1>2. CASE UNCHANGED rows
  BY <1>2
<1>3. CASE \E w \in Requests : Delete(w) \/ \E p \in Maps : Insert(w, p)
  BY <1>1, <1>3 DEF Delete, Insert, NoRow
<1>4. CASE \E o \in Orgs, n \in Names : RenameOrganization(o, n)
  BY <1>1, <1>4 DEF RenameOrganization, RowsRenamed
<1>5. UNCHANGED rows \/ (\E w \in Requests : Delete(w) \/ \E p \in Maps : Insert(w, p))
      \/ (\E o \in Orgs, n \in Names : RenameOrganization(o, n))
  BY DEF Next, Send, Handle, Resolve, Enter, Lock, Authorize, LookUpName, AuthorizeCreation, Count, LookUpNewName,
         Leave, Fail, Finished, AdminStep, AdminEnter, UpdateUser, DeleteOrganization, RemoveOrganizationAssignments,
         AdminLeave
<1> QED
  BY <1>2, <1>3, <1>4, <1>5

\* A link appears by the request that makes it and by no other (replaceTopology keeps
\* the stored links whatever its body says).
THEOREM LinksAreIssued == Spec => LinksOnlyIssued
<1>1. ASSUME ServerInv, [Next]_vars, NEW m \in Maps, NEW t \in rows'[m].shares \ rows[m].shares
      PROVE  op[t] = "share" /\ topo[t] = m /\ pc[t] = "named" /\ pc'[t] = "committed"
  <2>1. TypeOK
    BY <1>1 DEF ServerInv, EditsInv
  <2>2. PICK w \in Requests : Commit(w)
    BY <1>1, <2>1, LinksKept
  <2>3. m = topo[w] /\ rows[m] = cur[w] /\ rows'[m].shares \in NextShares(w)
    BY <1>1, <2>2, CommitWrites
  <2>4. t = w /\ op[w] = "share"
    BY <1>1, <2>3, NextLinks
  <2> QED
    BY <1>1, <2>2, <2>3, <2>4, CommitWrites
<1>2. ServerInv /\ [Next]_vars =>
        [\A m \in Maps : \A t \in rows'[m].shares \ rows[m].shares :
          op[t] = "share" /\ topo[t] = m /\ pc[t] = "named" /\ pc'[t] = "committed"]_vars
  BY <1>1
<1> QED
  BY <1>2, ServerInvariant, PTL DEF Spec, LinksOnlyIssued

-----------------------------------------------------------------------------
(* Capacity.                                                                *)

\* The maps of an organization that no move brought there.
Home(o) == {m \in MapsOf(o) : ~MovedIn(m)}

\* A creation that has counted, and has not inserted yet.
Counted(w) == op[w] \in Creations /\ pc[w] \in {"counted", "named"}

\* A replacement that will find its revision writes the organization the map is in.
ReplacementsStay ==
    \A w \in Requests : pc[w] # "idle" /\ op[w] = "replace" /\ Present(topo[w]) /\ exp[w] = rows[topo[w]].rev
        => target[w] = rows[topo[w]].org

CapacityInv ==
    /\ CapacityBound
    /\ \A w \in Requests : Counted(w) => Cardinality(Home(NextOrg(w))) < Capacity
    /\ ReplacementsStay

LEMMA HomeFinite ==
  ASSUME NEW o
  PROVE  IsFiniteSet(Home(o)) /\ Cardinality(Home(o)) \in Nat
         /\ IsFiniteSet(MapsOf(o)) /\ Cardinality(MapsOf(o)) \in Nat
         /\ Cardinality(Home(o)) <= Cardinality(MapsOf(o))
<1>1. IsFiniteSet(MapsOf(o))
  BY MapsAssumption, FS_Subset DEF MapsOf
<1>2. Home(o) \subseteq MapsOf(o)
  BY DEF Home
<1> QED
  BY <1>1, <1>2, FS_Subset, FS_CardinalityType

LEMMA NextOrgType ==
  ASSUME TypeOK, NEW w \in Requests
  PROVE  NextOrg(w) \in Orgs
  BY DEF TypeOK, Row, NextOrg

\* A smaller set of maps, and no new reservation.
LEMMA Shrink ==
  ASSUME ServerInv, CapacityInv, ReplacementsStay', \A o \in Orgs : Home(o)' \subseteq Home(o),
         \A w \in Requests : Counted(w)' => Counted(w) /\ NextOrg(w)' = NextOrg(w)
  PROVE  CapacityInv'
<1>1. ASSUME NEW o \in Orgs PROVE Cardinality(Home(o)') \in Nat /\ Cardinality(Home(o)') <= Cardinality(Home(o))
  BY HomeFinite, FS_Subset, FS_CardinalityType
<1>2. \A o \in Orgs : Cardinality(Home(o)) \in Nat /\ Cardinality(Home(o)) <= Capacity
  BY HomeFinite DEF CapacityInv, CapacityBound, Home
<1>3. \A o \in Orgs : Cardinality(Home(o)') <= Capacity
  BY <1>1, <1>2, BoundsAssumption
<1>4. ASSUME NEW w \in Requests, Counted(w)' PROVE (Cardinality(Home(NextOrg(w))) < Capacity)'
  <2>1. PICK o \in Orgs : o = NextOrg(w)
    BY NextOrgType DEF ServerInv, EditsInv
  <2>2. Counted(w) /\ NextOrg(w)' = o
    BY <1>4, <2>1
  <2>3. Cardinality(Home(o)) < Capacity
    BY <2>1, <2>2 DEF CapacityInv
  <2>4. Cardinality(Home(o)') < Capacity
    BY <1>1, <1>2, <2>3, BoundsAssumption
  <2> QED
    BY <2>2, <2>4 DEF Home, MapsOf, MovedIn
<1> QED
  BY <1>3, <1>4 DEF CapacityInv, CapacityBound, Home

\* A step that moves no map and starts no request.
LEMMA RestCapacity ==
  ASSUME ServerInv, CapacityInv, UNCHANGED <<op, topo, target, exp>>,
         \A m \in Maps : rows'[m].rev = rows[m].rev /\ rows'[m].org = rows[m].org,
         \A w \in Requests : (Committed(w) => Committed(w)') /\ (pc'[w] # "idle" => pc[w] # "idle"),
         \A w \in Requests : Counted(w)' => Counted(w) /\ cur'[w] = cur[w]
  PROVE  CapacityInv'
<1>1. \A w \in Requests : topo[w] \in Maps
  BY DEF ServerInv, EditsInv, TypeOK
<1>2. ReplacementsStay'
  BY <1>1 DEF CapacityInv, ReplacementsStay, Present
<1>3. \A m \in Maps : MovedIn(m) => MovedIn(m)'
  BY DEF MovedIn
<1>4. \A o \in Orgs : Home(o)' \subseteq Home(o)
  BY <1>3 DEF Home, MapsOf, Present
<1>5. \A w \in Requests : Counted(w)' => Counted(w) /\ NextOrg(w)' = NextOrg(w)
  BY DEF NextOrg
<1> QED
  BY <1>2, <1>4, <1>5, Shrink

\* What of a request only Send sets.
LEMMA HandlersRest ==
  ASSUME ServerInv, CapacityInv, NEW w \in Requests,
         Resolve(w) \/ Enter(w) \/ Lock(w) \/ Authorize(w) \/ LookUpName(w)
         \/ AuthorizeCreation(w) \/ LookUpNewName(w) \/ Leave(w) \/ Fail(w)
  PROVE  CapacityInv'
<1>1. pc \in [Requests -> Pcs] /\ cur \in [Requests -> Row]
  BY DEF ServerInv, EditsInv, TypeOK
<1>2. UNCHANGED <<op, topo, target, exp, rows>>
  BY DEF Resolve, Enter, Lock, Authorize, LookUpName, AuthorizeCreation, LookUpNewName, Leave, Fail
<1>3. \A v \in Requests \ {w} : pc'[v] = pc[v] /\ cur'[v] = cur[v]
  BY <1>1 DEF Resolve, Enter, Lock, Authorize, LookUpName, AuthorizeCreation, LookUpNewName, Leave, Fail, Step
<1>4. pc[w] # "idle" /\ (Committed(w) => Committed(w)')
  BY <1>1 DEF Resolve, Enter, Lock, Authorize, LookUpName, AuthorizeCreation, LookUpNewName, Leave, Fail, Step,
              Committed
<1>5. Counted(w)' => Counted(w) /\ cur'[w] = cur[w]
  BY <1>1, <1>2, Kinds DEF Resolve, Enter, Lock, Authorize, LookUpName, AuthorizeCreation, LookUpNewName, Leave, Fail,
                           Step, Counted
<1>6. \A v \in Requests : (Committed(v) => Committed(v)') /\ (pc'[v] # "idle" => pc[v] # "idle")
  BY <1>3, <1>4 DEF Committed
<1>7. \A v \in Requests : Counted(v)' => Counted(v) /\ cur'[v] = cur[v]
  BY <1>2, <1>3, <1>5 DEF Counted
<1> QED
  BY <1>2, <1>6, <1>7, RestCapacity

LEMMA AdminCapacity ==
  ASSUME ServerInv, CapacityInv, AdminStep
  PROVE  CapacityInv'
<1>1. UNCHANGED <<pc, op, topo, target, exp, cur>>
  BY DEF AdminStep, AdminEnter, UpdateUser, RenameOrganization, DeleteOrganization,
         RemoveOrganizationAssignments, AdminLeave
<1>2. rows \in [Maps -> Row]
  BY DEF ServerInv, EditsInv, TypeOK
<1>3. \A m \in Maps : rows'[m].rev = rows[m].rev /\ rows'[m].org = rows[m].org
  <2>1. CASE UNCHANGED rows
    BY <2>1
  <2>2. ASSUME NEW o \in Orgs, NEW n \in Names, RenameOrganization(o, n)
        PROVE  \A m \in Maps : rows'[m].rev = rows[m].rev /\ rows'[m].org = rows[m].org
    BY <1>2, <2>2 DEF RenameOrganization, RowsRenamed, MapsOf
  <2> QED
    BY <2>1, <2>2 DEF AdminStep, AdminEnter, UpdateUser, DeleteOrganization, RemoveOrganizationAssignments, AdminLeave
<1> QED
  BY <1>1, <1>3, RestCapacity DEF Committed, Counted

LEMMA SendCapacity ==
  ASSUME ServerInv, CapacityInv, NEW w \in Requests, NEW o \in Ops, NEW m \in Maps, NEW u \in Users, Send(w, o, m, u)
  PROVE  CapacityInv'
<1>1. TypeOK
  BY DEF ServerInv, EditsInv
<1>2. pc[w] = "idle" /\ pc'[w] = "sent" /\ UNCHANGED <<rows, cur>>
  BY <1>1 DEF Send, Step, TypeOK
<1>3. \A v \in Requests \ {w} : /\ pc'[v] = pc[v] /\ op'[v] = op[v] /\ topo'[v] = topo[v]
                                /\ target'[v] = target[v] /\ exp'[v] = exp[v]
  BY <1>1 DEF Send, Step, TypeOK
<1>4. op'[w] = "replace" => target'[w] = rows[topo'[w]].org
  BY <1>1 DEF Send, TypeOK, Targets
<1>5. ReplacementsStay'
  BY <1>2, <1>3, <1>4 DEF CapacityInv, ReplacementsStay, Present
<1>6. \A p \in Maps : MovedIn(p) => MovedIn(p)'
  BY <1>2, <1>3 DEF MovedIn, Committed
<1>7. \A p \in Orgs : Home(p)' \subseteq Home(p)
  BY <1>2, <1>6 DEF Home, MapsOf, Present
<1>8. \A v \in Requests : Counted(v)' => Counted(v) /\ NextOrg(v)' = NextOrg(v)
  BY <1>2, <1>3 DEF Counted, NextOrg
<1> QED
  BY <1>5, <1>7, <1>8, Shrink

LEMMA DeleteCapacity ==
  ASSUME ServerInv, CapacityInv, NEW w \in Requests, Delete(w)
  PROVE  CapacityInv'
<1>1. /\ topo[w] \in Maps /\ pc[w] = "authorized" /\ pc'[w] = "committed" /\ op[w] = "delete"
      /\ \A v \in Requests \ {w} : pc'[v] = pc[v]
      /\ UNCHANGED <<op, topo, target, exp, cur>>
      /\ rows' = [rows EXCEPT ![topo[w]] = NoRow] /\ rows \in [Maps -> Row]
  BY StepsApart DEF Delete, ServerInv, EditsInv, TypeOK
<1>2. \A m \in Maps : MovedIn(m) /\ m # topo[w] => MovedIn(m)'
  BY <1>1 DEF MovedIn, Committed
<1>3. \A o \in Orgs : Home(o)' \subseteq Home(o)
  BY <1>1, <1>2 DEF Home, MapsOf, Present, NoRow
<1>4. ReplacementsStay'
  BY <1>1 DEF CapacityInv, ReplacementsStay, Present, NoRow
<1>5. \A v \in Requests : Counted(v)' => Counted(v) /\ NextOrg(v)' = NextOrg(v)
  BY <1>1 DEF Counted, NextOrg, Creations
<1> QED
  BY <1>3, <1>4, <1>5, Shrink

\* A move leaves its organization and is not at home in the other; every other
\* mutation writes the organization it read.
LEMMA CommitCapacity ==
  ASSUME ServerInv, CapacityInv, NEW w \in Requests, Commit(w)
  PROVE  CapacityInv'
<1>1. /\ TypeOK /\ BodyFresh /\ UNCHANGED <<exp, topo, op, target, cur>>
  BY CommitWrites DEF Commit, ServerInv, EditsInv
<1>2. op[w] = "replace" => target[w] = rows[topo[w]].org
  <2>1. op[w] = "replace" => exp[w] = rows[topo[w]].rev
    BY <1>1, CommitWrites DEF BodyFresh, InTx, Replacements, Transactions, Mutations
  <2> QED
    BY <2>1, CommitWrites DEF CapacityInv, ReplacementsStay
<1>3. op[w] # "move" => rows'[topo[w]].org = rows[topo[w]].org
  BY <1>2, CommitWrites DEF NextOrg, Replacements, Mutations
<1>4. op[w] = "move" => MovedIn(topo[w])'
  BY <1>1, CommitWrites DEF MovedIn, Committed, NextOrg, Replacements
<1>5. \A m \in Maps : MovedIn(m) /\ rows'[m].org = rows[m].org => MovedIn(m)'
  BY <1>1, CommitWrites DEF MovedIn, Committed
<1>6. \A o \in Orgs : Home(o)' \subseteq Home(o)
  BY <1>3, <1>4, <1>5, CommitWrites DEF Home, MapsOf, Present
<1>7. ReplacementsStay'
  <2>1. \A v \in Requests : exp[v] \in Nat /\ topo[v] \in Maps /\ rows[topo[v]].rev \in Nat
    BY <1>1 DEF TypeOK, Row
  <2>2. ASSUME NEW v \in Requests, pc'[v] # "idle", op[v] = "replace", exp[v] = rows'[topo[v]].rev
        PROVE  topo[v] # topo[w]
    <3>1. pc[v] # "idle" /\ (Present(topo[v]) => exp[v] <= rows[topo[v]].rev)
      BY <1>1, <2>2, CommitWrites DEF BodyFresh, Replacements
    <3> QED
      BY <2>1, <2>2, <3>1, CommitWrites
  <2> QED
    BY <1>1, <2>1, <2>2, CommitWrites DEF CapacityInv, ReplacementsStay, Present
<1>8. \A v \in Requests : Counted(v)' => Counted(v) /\ NextOrg(v)' = NextOrg(v)
  BY <1>1, CommitWrites DEF Counted, NextOrg
<1> QED
  BY <1>6, <1>7, <1>8, Shrink

\* Under createMu nobody else has counted.
LEMMA CountCapacity ==
  ASSUME ServerInv, CapacityInv, NEW w \in Requests, Count(w)
  PROVE  CapacityInv'
<1>1. /\ pc[w] = "authorized" /\ pc'[w] = "counted" /\ createMu = Nobody
      /\ \A v \in Requests \ {w} : pc'[v] = pc[v]
      /\ UNCHANGED <<op, topo, target, exp, cur, rows>>
      /\ Cardinality(MapsOf(NextOrg(w))) < Capacity
  BY StepsApart DEF Count, CreateMuFree, ServerInv, EditsInv
<1>2. \A v \in Requests : ~Counted(v)
  BY <1>1, RequestAssumption DEF ServerInv, AccessInv, Current, Counted
<1>3. UNCHANGED <<ReplacementsStay, CapacityBound>> /\ \A o : Home(o)' = Home(o)
  <2>1. \A m \in Maps : MovedIn(m)' <=> MovedIn(m)
    BY <1>1 DEF MovedIn, Committed
  <2>2. \A o : MapsOf(o)' = MapsOf(o)
    BY <1>1 DEF MapsOf, Present
  <2>3. \A o : MapsOf(o) \subseteq Maps
    BY DEF MapsOf
  <2>4. \A o : Home(o)' = Home(o)
    BY <2>1, <2>2, <2>3 DEF Home
  <2>5. UNCHANGED CapacityBound
    BY <2>4 DEF CapacityBound, Home
  <2>6. UNCHANGED ReplacementsStay
    BY <1>1 DEF ReplacementsStay, Present
  <2> QED
    BY <2>4, <2>5, <2>6
<1>4. ASSUME NEW v \in Requests, Counted(v)' PROVE (Cardinality(Home(NextOrg(v))) < Capacity)'
  <2>1. v = w
    BY <1>1, <1>2, <1>4 DEF Counted
  <2>2. PICK o : o = NextOrg(w)
    OBVIOUS
  <2>3. NextOrg(v)' = o
    BY <1>1, <2>1, <2>2 DEF NextOrg
  <2>4. Cardinality(Home(o)') < Capacity
    BY <1>1, <1>3, <2>2, HomeFinite, BoundsAssumption
  <2> QED
    BY <2>3, <2>4 DEF Home, MapsOf, MovedIn
<1> QED
  BY <1>3, <1>4 DEF CapacityInv

\* The insertion fills the place that was counted.
LEMMA InsertCapacity ==
  ASSUME ServerInv, CapacityInv, NEW w \in Requests, NEW m \in Maps, Insert(w, m)
  PROVE  CapacityInv'
<1>1. /\ pc[w] = "named" /\ pc'[w] = "committed" /\ op[w] \in Creations
      /\ \A v \in Requests \ {w} : pc'[v] = pc[v] /\ topo'[v] = topo[v]
      /\ UNCHANGED <<op, target, exp, cur>> /\ topo'[w] = m /\ m \notin minted
      /\ rows'[m].org = NextOrg(w) /\ \A p \in Maps \ {m} : rows'[p] = rows[p]
  BY StepsApart DEF Insert, ServerInv, EditsInv, TypeOK
<1>2. \A v \in Requests : ~Counted(v)'
  <2>1. Counted(w) /\ createMu = w
    BY <1>1, Kinds DEF Counted, ServerInv, AccessInv, Current
  <2> QED
    BY <1>1, <2>1 DEF ServerInv, AccessInv, Current, Counted
<1>3. ~Present(m) /\ \A v \in Requests \ {w} : pc[v] # "idle" /\ op[v] \in Replacements => topo[v] # m
  BY <1>1 DEF ServerInv, EditsInv, IdsMinted, Replacements
<1>4. \A p \in Maps \ {m} : MovedIn(p) => MovedIn(p)'
  BY <1>1 DEF MovedIn, Committed, Creations
<1>5. \A o \in Orgs : Home(o)' \subseteq Home(o) \cup (IF o = NextOrg(w) THEN {m} ELSE {})
  BY <1>1, <1>4 DEF Home, MapsOf, Present
<1>6. \A o \in Orgs : Cardinality(Home(o)) \in Nat /\ Cardinality(Home(o)) <= Capacity
  BY HomeFinite DEF CapacityInv, CapacityBound, Home
<1>7. ASSUME NEW o \in Orgs PROVE Cardinality(Home(o)') <= Capacity
  <2>1. CASE o = NextOrg(w)
    <3>1. Cardinality(Home(o)) < Capacity
      BY <1>1, <2>1 DEF CapacityInv, Counted
    <3>2. IsFiniteSet(Home(o) \cup {m})
          /\ (Cardinality(Home(o) \cup {m}) = Cardinality(Home(o)) \/ Cardinality(Home(o) \cup {m}) = Cardinality(Home(o)) + 1)
      BY HomeFinite, FS_AddElement
    <3>3. Home(o)' \subseteq Home(o) \cup {m}
      BY <1>5, <2>1
    <3>4. Cardinality(Home(o)') \in Nat /\ Cardinality(Home(o)') <= Cardinality(Home(o) \cup {m})
      BY <3>2, <3>3, FS_Subset, FS_CardinalityType
    <3> QED
      BY <1>6, <3>1, <3>2, <3>4, BoundsAssumption
  <2>2. CASE o # NextOrg(w)
    <3>1. Home(o)' \subseteq Home(o)
      BY <1>5, <2>2
    <3> QED
      BY <1>6, <3>1, HomeFinite, FS_Subset, FS_CardinalityType, BoundsAssumption
  <2> QED
    BY <2>1, <2>2
<1>8. CapacityBound'
  BY <1>7 DEF CapacityBound, Home
<1>9. ReplacementsStay'
  <2>1. \A v \in Requests : pc'[v] # "idle" /\ op[v] = "replace" => v # w /\ pc[v] # "idle" /\ topo[v] # m /\ topo[v] \in Maps
    BY <1>1, <1>3 DEF Creations, Replacements, ServerInv, EditsInv, TypeOK
  <2> QED
    BY <1>1, <2>1 DEF CapacityInv, ReplacementsStay, Present
<1> QED
  BY <1>2, <1>8, <1>9 DEF CapacityInv

LEMMA InitCapacity == Init => CapacityInv
<1> SUFFICES ASSUME Init PROVE CapacityInv
  OBVIOUS
<1>1. \A w \in Requests : pc[w] = "idle"
  BY DEF Init
<1>2. \A o \in Orgs : Cardinality(MapsOf(o)) <= Capacity
  BY DEF Init
<1>3. CapacityBound
  BY <1>2, HomeFinite, BoundsAssumption DEF CapacityBound, Home
<1> QED
  BY <1>1, <1>3 DEF CapacityInv, Counted, ReplacementsStay

LEMMA NextCapacity == ServerInv /\ CapacityInv /\ [Next]_vars => CapacityInv'
<1> SUFFICES ASSUME ServerInv, CapacityInv, [Next]_vars PROVE CapacityInv'
  OBVIOUS
<1>1. CASE UNCHANGED vars
  BY <1>1, RestCapacity DEF Committed, Counted
<1> QED
  BY <1>1, SendCapacity, HandlersRest, CommitCapacity, DeleteCapacity, CountCapacity, InsertCapacity, AdminCapacity
     DEF Next, Handle, Finished

\* Only maps that were moved in are beyond an organization's bound (createMu held from
\* organizationHasCapacity to the insertion, in createTopology and duplicateTopology).
THEOREM CapacityIsKept == Spec => []CapacityBound
<1>1. CapacityInv => CapacityBound
  BY DEF CapacityInv
<1> QED
  BY <1>1, InitServer, InitCapacity, NextCapacity, ServerInvariant, PTL DEF Spec
=============================================================================
