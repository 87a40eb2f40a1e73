-------------------------- MODULE DirectoryProofs --------------------------
(***************************************************************************)
(* Organizations and accounts stay together through lost answers, failed   *)
(* saves and restarts: the invariants of Directory, for any number of      *)
(* organizations, names, accounts and failures.                            *)
(*                                                                         *)
(* The registry decides who exists; memory and the saved accounts follow   *)
(* it.  Each part below says what one copy owes to another at every stage  *)
(* of a handler and of a start, failures included.                         *)
(***************************************************************************)
EXTENDS Directory, TLAPS

\* The registry: names are distinct, and an id that was used stays used.
RegistryInv ==
    /\ \A o, p \in Orgs : orgName[o] = orgName[p] /\ orgName[o] # NoName => o = p
    /\ \A o \in Orgs : orgName[o] # NoName => o \in minted
    /\ stage # "out" => phase = "up"
    /\ stage = "register" => orgName[subject] # NoName
    /\ stage \in {"cleanup", "done"} => orgName[subject] = NoName /\ subject \in minted

\* A process that is not up has no sessions, and a session has the access its
\* account has.
SessionsInv ==
    /\ phase # "up" => sessions = NoSessions
    /\ SessionsCurrent

\* Whatever is bound to Guest, or may be at the next start, was there before
\* administrators could create it.
GuestInv ==
    /\ made \subseteq minted
    /\ {guestOrg, mem.guest, saved.guest} \subseteq (minted \ made) \cup {NoOrg}
    /\ \A o \in Orgs : orgName[o] = GuestName => o \notin made

\* Memory is the saved state unless a save took effect without an answer, and
\* neither gives an account more than it was answered.
AccountsInv ==
    /\ phase # "up" \/ "accounts" \notin doubts => mem = saved
    /\ phase = "up" => \A u \in Users : mem.grants[u] \subseteq answered[u]
    /\ "accounts" \notin doubts => \A u \in Users : saved.grants[u] \subseteq answered[u]

\* The catalog is the registry, except for the organization a handler is
\* working on.
CatalogInv ==
    phase = "up" /\ "catalog" \notin doubts =>
        \A o \in Orgs : o # subject \/ stage \in {"out", "in", "done"} => catalog[o] = orgName[o]

\* What memory must not know of a deleted organization.
Forgotten(o) ==
    /\ catalog[o] = NoName /\ guestOrg # o
    /\ \A u \in Users : o \notin mem.grants[u]

\* A deletion is answered only when memory has forgotten, and the id is never
\* registered again.
RemovedInv ==
    /\ \A o \in removed : orgName[o] = NoName /\ o \in minted
    /\ phase = "up" => \A o \in removed : Forgotten(o)
    /\ stage = "done" => Forgotten(subject)

DirectoryInv ==
    /\ TypeOK
    /\ RegistryInv
    /\ SessionsInv
    /\ GuestInv
    /\ AccountsInv
    /\ CatalogInv
    /\ RemovedInv

-----------------------------------------------------------------------------
(* What the operators on accounts return.                                   *)

LEMMA MigratedIs ==
    ASSUME TypeOK
    PROVE  /\ Migrated \in Accounts
           /\ \A u \in Users : Migrated.grants[u] = {o \in saved.grants[u] : Registered(o)}
           /\ \/ Migrated.guest = NoOrg
              \/ Migrated.guest = saved.guest /\ Registered(saved.guest)
              \/ Migrated.guest \in Orgs /\ orgName[Migrated.guest] = GuestName
<1>1. [u \in Users |-> {o \in saved.grants[u] : Registered(o)}] \in [Users -> SUBSET Orgs]
  BY DEF TypeOK, Accounts
<1>2. CASE saved.guest # NoOrg /\ Registered(saved.guest)
  <2>1. Migrated = [grants |-> [u \in Users |-> {o \in saved.grants[u] : Registered(o)}],
                    guest |-> saved.guest]
    BY <1>2 DEF Migrated
  <2> QED BY <1>1, <1>2, <2>1 DEF TypeOK, Accounts
<1>3. CASE ~(saved.guest # NoOrg /\ Registered(saved.guest)) /\ \E o \in Orgs : orgName[o] = GuestName
  <2> DEFINE g == CHOOSE o \in Orgs : orgName[o] = GuestName
  <2>1. g \in Orgs /\ orgName[g] = GuestName
    BY <1>3
  <2>2. Migrated = [grants |-> [u \in Users |-> {o \in saved.grants[u] : Registered(o)}], guest |-> g]
    BY <1>3 DEF Migrated
  <2> HIDE DEF g
  <2> QED BY <1>1, <2>1, <2>2 DEF Accounts
<1>4. CASE ~(saved.guest # NoOrg /\ Registered(saved.guest)) /\ ~\E o \in Orgs : orgName[o] = GuestName
  <2>1. Migrated = [grants |-> [u \in Users |-> {o \in saved.grants[u] : Registered(o)}], guest |-> NoOrg]
    BY <1>4 DEF Migrated
  <2> QED BY <1>1, <2>1 DEF Accounts
<1> QED BY <1>2, <1>3, <1>4

LEMMA WithoutIs ==
    ASSUME TypeOK, NEW o \in Orgs
    PROVE  /\ Without(o) \in Accounts
           /\ \A u \in Users : Without(o).grants[u] = mem.grants[u] \ {o}
           /\ Without(o).guest \in {mem.guest, NoOrg} \ {o}
BY OrgsAssumption DEF Without, TypeOK, Accounts

LEMMA GrantedIs ==
    ASSUME TypeOK, NEW u \in Users, NEW os \in SUBSET Orgs
    PROVE  /\ Granted(u, os) \in Accounts
           /\ Granted(u, os).grants = [mem.grants EXCEPT ![u] = os]
           /\ Granted(u, os).guest = mem.guest
BY DEF Granted, TypeOK, Accounts

-----------------------------------------------------------------------------
LEMMA InitDirectory == Init => DirectoryInv
<1> SUFFICES ASSUME Init PROVE DirectoryInv
  OBVIOUS
<1> USE OrgsAssumption, NamesAssumption, FaultsAssumption DEF Init
<1>1. TypeOK
  <2>1. orgName \in [Orgs -> Names \cup {NoName}] /\ minted \subseteq Orgs
    OBVIOUS
  <2>2. saved \in Accounts /\ mem \in Accounts
    BY DEF Accounts
  <2>3. catalog \in [Orgs -> Names \cup {NoName}] /\ \A o \in Orgs : catalog[o] = NoName
    BY DEF NoCatalog
  <2>4. sessions \in [Users -> SUBSET SUBSET Orgs] /\ answered \in [Users -> SUBSET Orgs]
    BY DEF NoSessions
  <2>5. faults \in 0..MaxFaults
    OBVIOUS
  <2> QED BY <2>1, <2>2, <2>3, <2>4, <2>5 DEF TypeOK
<1>2. RegistryInv
  BY DEF RegistryInv
<1>3. SessionsInv
  BY DEF SessionsInv, SessionsCurrent, NoSessions
<1>4. GuestInv
  BY DEF GuestInv
<1>5. AccountsInv
  BY DEF AccountsInv
<1>6. CatalogInv
  BY DEF CatalogInv
<1>7. RemovedInv
  BY DEF RemovedInv
<1> QED BY <1>1, <1>2, <1>3, <1>4, <1>5, <1>6, <1>7 DEF DirectoryInv

\* Failures count up to their bound.
LEMMA FaultCounts ==
    ASSUME TypeOK, NEW f, Fault(f)
    PROVE  faults' \in 0..MaxFaults
BY FaultsAssumption DEF Fault, TypeOK

\* The two ends of a registry transaction.
LEMMA AnswerIs ==
    ASSUME TypeOK, NEW o \in Orgs, NEW next, Answer(o, next)
    PROVE  /\ faults' \in 0..MaxFaults /\ doubts' \subseteq {"catalog", "accounts"}
           /\ subject' \in Orgs
           /\ "accounts" \in doubts' <=> "accounts" \in doubts
           /\ \/ stage' = next /\ subject' = o /\ doubts' = doubts
              \/ stage' = "out" /\ "catalog" \in doubts'
BY FaultCounts DEF Answer, TypeOK

\* The two ends of a failed save.
LEMMA SaveFailedIs ==
    ASSUME TypeOK, NEW next \in Accounts, NEW places \in SUBSET {"catalog"}, SaveFailed(next, places)
    PROVE  /\ mem' = mem
           /\ faults' \in 0..MaxFaults /\ doubts' \subseteq {"catalog", "accounts"}
           /\ places \cup doubts \subseteq doubts'
           /\ saved' \in {saved, next}
           /\ "accounts" \notin doubts' => "accounts" \notin doubts /\ saved' = saved
<1>1. CASE Fault("save") /\ UNCHANGED saved /\ doubts' = doubts \cup places
  BY <1>1, FaultCounts DEF SaveFailed, KeptInMemory, TypeOK
<1>2. CASE Fault("savereply") /\ saved' = next /\ doubts' = doubts \cup places \cup {"accounts"}
  BY <1>2, FaultCounts DEF SaveFailed, KeptInMemory, TypeOK
<1> QED BY <1>1, <1>2 DEF SaveFailed

-----------------------------------------------------------------------------
(* Every step keeps the types and the registry.                             *)

LEMMA RegistryStep ==
    ASSUME TypeOK, RegistryInv, [Next]_vars
    PROVE  TypeOK' /\ RegistryInv'
<1> USE DEF TypeOK, RegistryInv
<1> USE OrgsAssumption, NamesAssumption
<1>1. ASSUME NEW on \in BOOLEAN, EnsureOrganizations(on) PROVE TypeOK' /\ RegistryInv'
  <2> USE <1>1 DEF EnsureOrganizations, manager, handler, history
  <2>1. CASE GuestMissing(on)
    <3>1. PICK o \in Orgs \ minted : orgName' = [orgName EXCEPT ![o] = GuestName] /\ minted' = minted \cup {o}
      BY <2>1
    <3>2. \A p \in Orgs : orgName[p] # GuestName
      BY <2>1 DEF GuestMissing
    <3> QED BY <3>1, <3>2
  <2>2. CASE ~GuestMissing(on)
    BY <2>2
  <2> QED BY <2>1, <2>2
<1>2. CASE NewManager
  <2>1. Migrated \in Accounts /\ Migrated.guest \in Orgs \cup {NoOrg} /\ Migrated.grants \in [Users -> SUBSET Orgs]
    BY MigratedIs DEF Accounts
  <2> QED BY <1>2, <2>1 DEF NewManager, handler
<1>3. CASE Crash
  BY <1>3 DEF Crash, tables, history, NoCatalog, NoSessions
<1>4. CASE Enter \/ Leave
  BY <1>4 DEF Enter, Leave, Inside, tables, process, manager, history
<1>5. ASSUME NEW o \in Orgs, NEW n \in Names, CreateOrganization(o, n) PROVE TypeOK' /\ RegistryInv'
  <2> USE <1>5 DEF CreateOrganization, process, manager, NameFree
  <2>1. Answer(o, "register")
    OBVIOUS
  <2> QED BY <2>1, AnswerIs
<1>6. ASSUME NEW o \in Orgs, NEW n \in Names, RenameOrganization(o, n) PROVE TypeOK' /\ RegistryInv'
  <2> USE <1>6 DEF RenameOrganization, process, manager, history, NameFree, Registered
  <2>1. Answer(o, "register")
    OBVIOUS
  <2> QED BY <2>1, AnswerIs
<1>7. ASSUME NEW o \in Orgs, DeleteOrganization(o) PROVE TypeOK' /\ RegistryInv'
  <2> USE <1>7 DEF DeleteOrganization, process, manager, history, AfterDeletion
  <2>1. Answer(o, "cleanup")
    OBVIOUS
  <2> QED BY <2>1, AnswerIs
<1>8. CASE RegisterOrganization
  BY <1>8 DEF RegisterOrganization, Registrable, tables, process, history
<1>9. CASE RemoveOrganizationAssignments
  <2> USE <1>9 DEF RemoveOrganizationAssignments, process, history, CatalogWithout, Revoked, Saved
  <2>1. Without(subject) \in Accounts
    BY WithoutIs
  <2> QED BY <2>1
<1>10. CASE RemovalFails
  <2> USE <1>10 DEF RemovalFails, process, history
  <2>1. Without(subject) \in Accounts
    BY WithoutIs
  <2>2. SaveFailed(Without(subject), {"catalog"})
    OBVIOUS
  <2> QED BY <2>1, <2>2, SaveFailedIs
<1>11. CASE AnswerDeletion
  BY <1>11 DEF AnswerDeletion, tables, process, manager
<1>12. ASSUME NEW u \in Users, NEW os \in SUBSET Orgs, UpdateUser(u, os) PROVE TypeOK' /\ RegistryInv'
  <2> USE <1>12 DEF UpdateUser, Inside, process, Saved
  <2>1. Granted(u, os) \in Accounts
    BY GrantedIs
  <2> QED BY <2>1
<1>13. ASSUME NEW u \in Users, NEW os \in SUBSET Orgs, UpdateFails(u, os) PROVE TypeOK' /\ RegistryInv'
  <2> USE <1>13 DEF UpdateFails, Inside, process, history
  <2>1. Granted(u, os) \in Accounts
    BY GrantedIs
  <2>2. SaveFailed(Granted(u, os), {})
    OBVIOUS
  <2> QED BY <2>1, <2>2, SaveFailedIs
<1>14. ASSUME NEW u \in Users, Login(u) PROVE TypeOK' /\ RegistryInv'
  <2>1. mem.grants[u] \in SUBSET Orgs
    BY DEF Accounts
  <2> QED BY <1>14, <2>1 DEF Login, tables, process, handler, history
<1>15. CASE UNCHANGED vars
  BY <1>15 DEF vars, tables, process, manager, handler, history
<1> QED BY <1>1, <1>2, <1>3, <1>4, <1>5, <1>6, <1>7, <1>8, <1>9, <1>10, <1>11, <1>12, <1>13, <1>14, <1>15 DEF Next

-----------------------------------------------------------------------------
(* Every step keeps the sessions, the binding of Guest, the accounts, the    *)
(* catalog and what was removed.                                            *)

LEMMA SessionsStep ==
    ASSUME TypeOK, RegistryInv, SessionsInv, [Next]_vars
    PROVE  SessionsInv'
<1> USE DEF SessionsInv, SessionsCurrent
<1>1. ASSUME NEW on \in BOOLEAN, EnsureOrganizations(on) PROVE SessionsInv'
  BY <1>1 DEF EnsureOrganizations, manager, NoSessions
<1>2. CASE NewManager
  BY <1>2 DEF NewManager, NoSessions
<1>3. CASE Crash
  BY <1>3 DEF Crash, NoSessions
<1>4. CASE Enter \/ Leave \/ RegisterOrganization \/ AnswerDeletion
  BY <1>4 DEF Enter, Leave, RegisterOrganization, AnswerDeletion, process, manager, NoSessions
<1>5a. ASSUME NEW o \in Orgs, NEW n \in Names,
              CreateOrganization(o, n) \/ RenameOrganization(o, n)
       PROVE  SessionsInv'
  BY <1>5a DEF CreateOrganization, RenameOrganization, process, manager, NoSessions
<1>5b. ASSUME NEW o \in Orgs, DeleteOrganization(o) PROVE SessionsInv'
  BY <1>5b DEF DeleteOrganization, process, manager, NoSessions
<1>6. CASE RemoveOrganizationAssignments
  <2> USE <1>6 DEF RemoveOrganizationAssignments, Revoked, Saved, process
  <2>1. phase = "up" /\ phase' = phase
    BY DEF RegistryInv
  <2>2. /\ Without(subject) \in Accounts
        /\ \A u \in Users : Without(subject).grants[u] = mem.grants[u] \ {subject}
        /\ \A u \in Users : mem.grants[u] \subseteq Orgs
    BY WithoutIs DEF TypeOK, Accounts
  <2>3. mem' = Without(subject)
    OBVIOUS
  <2>4. ASSUME NEW u \in Users PROVE sessions'[u] \subseteq {mem'.grants[u]}
    <3>1. CASE subject \in mem.grants[u]
      BY <3>1
    <3>2. CASE subject \notin mem.grants[u]
      <4>0. mem.grants[u] \ {subject} = mem.grants[u]
        BY ONLY <3>2
      <4>1. mem'.grants[u] = mem.grants[u]
        BY ONLY <2>2, <2>3, <4>0
      <4>2. sessions'[u] = sessions[u]
        BY <3>2
      <4> QED BY <4>1, <4>2
    <3> QED BY <3>1, <3>2
  <2> QED BY <2>1, <2>4
<1>7. CASE RemovalFails
  <2>1. mem' = mem /\ sessions' = sessions /\ phase' = phase
    BY <1>7 DEF RemovalFails, SaveFailed, KeptInMemory, process
  <2> QED BY <2>1 DEF NoSessions
<1>8. ASSUME NEW u \in Users, NEW os \in SUBSET Orgs, UpdateUser(u, os) PROVE SessionsInv'
  <2> USE <1>8 DEF UpdateUser, Inside, Saved, process
  <2>1. CASE mem.grants[u] = os
    BY <2>1
  <2>2. CASE mem.grants[u] # os
    <3>1. mem' = Granted(u, os) /\ sessions' = [sessions EXCEPT ![u] = {}] /\ phase' = "up"
      BY <2>2
    <3>0. mem.grants \in [Users -> SUBSET Orgs] /\ mem'.grants = [mem.grants EXCEPT ![u] = os]
      BY <3>1, GrantedIs DEF TypeOK, Accounts
    <3>2. \A v \in Users \ {u} : mem'.grants[v] = mem.grants[v] /\ sessions'[v] = sessions[v]
      BY ONLY <3>0, <3>1, TypeOK DEF TypeOK
    <3>3. sessions'[u] = {}
      BY <3>1 DEF TypeOK
    <3> QED BY <3>1, <3>2, <3>3
  <2> QED BY <2>1, <2>2
<1>9. ASSUME NEW u \in Users, NEW os \in SUBSET Orgs, UpdateFails(u, os) PROVE SessionsInv'
  <2>1. mem' = mem /\ sessions' = sessions /\ phase' = phase
    BY <1>9 DEF UpdateFails, SaveFailed, KeptInMemory, process
  <2> QED BY <2>1 DEF NoSessions
<1>10. ASSUME NEW u \in Users, Login(u) PROVE SessionsInv'
  <2>1. /\ phase = "up" /\ phase' = phase /\ mem' = mem
        /\ sessions' = [sessions EXCEPT ![u] = sessions[u] \cup {mem.grants[u]}]
    BY <1>10 DEF Login, process
  <2>2. \A v \in Users : sessions'[v] = IF v = u THEN sessions[u] \cup {mem.grants[u]} ELSE sessions[v]
    BY ONLY <2>1, TypeOK DEF TypeOK
  <2> QED BY ONLY <2>1, <2>2, SessionsInv DEF SessionsInv, SessionsCurrent
<1>11. CASE UNCHANGED vars
  BY <1>11 DEF vars, process, manager, NoSessions
<1> QED BY <1>1, <1>2, <1>3, <1>4, <1>5a, <1>5b, <1>6, <1>7, <1>8, <1>9, <1>10, <1>11 DEF Next

LEMMA GuestStep ==
    ASSUME TypeOK, RegistryInv, GuestInv, [Next]_vars
    PROVE  GuestInv'
<1> USE DEF GuestInv
<1> USE OrgsAssumption, NamesAssumption
<1>0. {guestOrg, mem.guest, saved.guest} \subseteq Orgs \cup {NoOrg}
  BY DEF TypeOK, Accounts
<1>1. ASSUME NEW on \in BOOLEAN, EnsureOrganizations(on) PROVE GuestInv'
  BY <1>1 DEF EnsureOrganizations, manager, history, TypeOK
<1>2. CASE NewManager
  <2>1. /\ mem' = Migrated /\ saved' = Migrated /\ guestOrg' = Migrated.guest
        /\ orgName' = orgName /\ minted' = minted /\ made' = made
    BY <1>2 DEF NewManager
  <2>2. Migrated.guest \in (minted \ made) \cup {NoOrg}
    BY MigratedIs DEF RegistryInv
  <2> QED BY <2>1, <2>2
<1>3. CASE Crash
  BY <1>3 DEF Crash, tables, history
<1>4. CASE Enter \/ Leave \/ RegisterOrganization \/ AnswerDeletion
  BY <1>4 DEF Enter, Leave, RegisterOrganization, AnswerDeletion, tables, manager, history
<1>5. ASSUME NEW o \in Orgs, NEW n \in Names, CreateOrganization(o, n) PROVE GuestInv'
  <2>1. n # GuestName
    BY <1>5 DEF CreateOrganization, Reserved
  <2> QED BY <1>0, <1>5, <2>1 DEF CreateOrganization, manager, TypeOK, RegistryInv
<1>6. ASSUME NEW o \in Orgs, NEW n \in Names, RenameOrganization(o, n) PROVE GuestInv'
  BY <1>6 DEF RenameOrganization, Reserved, manager, history, TypeOK
<1>7. ASSUME NEW o \in Orgs, DeleteOrganization(o) PROVE GuestInv'
  BY <1>7 DEF DeleteOrganization, manager, history, TypeOK
<1>8. CASE RemoveOrganizationAssignments
  <2>1. Without(subject).guest \in {mem.guest, NoOrg}
    BY WithoutIs DEF TypeOK
  <2> QED BY <1>8, <2>1 DEF RemoveOrganizationAssignments, Saved, history
<1>9. CASE RemovalFails
  <2>1. Without(subject).guest \in {mem.guest, NoOrg} /\ Without(subject) \in Accounts
    BY WithoutIs DEF TypeOK
  <2>2. SaveFailed(Without(subject), {"catalog"})
    BY <1>9 DEF RemovalFails
  <2>3. mem' = mem /\ saved' \in {saved, Without(subject)}
    BY <2>1, <2>2, SaveFailedIs
  <2> QED BY <1>9, <2>1, <2>3 DEF RemovalFails, history
<1>10. ASSUME NEW u \in Users, NEW os \in SUBSET Orgs, UpdateUser(u, os) PROVE GuestInv'
  <2>1. Granted(u, os).guest = mem.guest
    BY GrantedIs
  <2> QED BY <1>10, <2>1 DEF UpdateUser, Saved
<1>11. ASSUME NEW u \in Users, NEW os \in SUBSET Orgs, UpdateFails(u, os) PROVE GuestInv'
  <2>1. Granted(u, os).guest = mem.guest /\ Granted(u, os) \in Accounts
    BY GrantedIs
  <2>2. SaveFailed(Granted(u, os), {})
    BY <1>11 DEF UpdateFails
  <2>3. mem' = mem /\ saved' \in {saved, Granted(u, os)}
    BY <2>1, <2>2, SaveFailedIs
  <2> QED BY <1>11, <2>1, <2>3 DEF UpdateFails, history
<1>12. ASSUME NEW u \in Users, Login(u) PROVE GuestInv'
  BY <1>12 DEF Login, tables, history
<1>13. CASE UNCHANGED vars
  BY <1>13 DEF vars, tables, manager, history
<1> QED BY <1>1, <1>2, <1>3, <1>4, <1>5, <1>6, <1>7, <1>8, <1>9, <1>10, <1>11, <1>12, <1>13 DEF Next

LEMMA AccountsStep ==
    ASSUME TypeOK, RegistryInv, AccountsInv, [Next]_vars
    PROVE  AccountsInv'
<1> USE DEF AccountsInv
<1>1. ASSUME NEW on \in BOOLEAN, EnsureOrganizations(on) PROVE AccountsInv'
  BY <1>1 DEF EnsureOrganizations, manager, history
<1>2. CASE NewManager
  <2>1. /\ mem' = Migrated /\ saved' = Migrated /\ mem = saved
        /\ answered' = IF "accounts" \in doubts THEN Migrated.grants ELSE answered
    BY <1>2 DEF NewManager
  <2>2. \A u \in Users : Migrated.grants[u] \subseteq saved.grants[u]
    BY MigratedIs
  <2>3. \A u \in Users : Migrated.grants[u] \subseteq answered'[u]
    BY <2>1, <2>2
  <2> QED BY <2>1, <2>3
<1>3. CASE Crash
  BY <1>3 DEF Crash, tables, history
<1>4. CASE Enter \/ Leave \/ RegisterOrganization \/ AnswerDeletion
  BY <1>4 DEF Enter, Leave, RegisterOrganization, AnswerDeletion, tables, process, manager, history
<1>5. ASSUME NEW o \in Orgs, NEW n \in Names,
             CreateOrganization(o, n) \/ RenameOrganization(o, n)
      PROVE  AccountsInv'
  <2>1. Answer(o, "register") /\ UNCHANGED <<saved, mem, phase, answered>>
    BY <1>5 DEF CreateOrganization, RenameOrganization, process, manager, history
  <2> QED BY <2>1, AnswerIs
<1>6. ASSUME NEW o \in Orgs, DeleteOrganization(o) PROVE AccountsInv'
  <2>1. Answer(o, "cleanup") /\ UNCHANGED <<saved, mem, phase, answered>>
    BY <1>6 DEF DeleteOrganization, AfterDeletion, process, manager, history
  <2> QED BY <2>1, AnswerIs
<1>7. CASE RemoveOrganizationAssignments
  <2>1. phase = "up" /\ UNCHANGED <<phase, answered>>
    BY <1>7 DEF RemoveOrganizationAssignments, RegistryInv, process, history
  <2>2. CASE UNCHANGED <<saved, mem, doubts>>
    BY <2>1, <2>2
  <2>3. CASE Saved(Without(subject))
    <3>1. \A u \in Users : Without(subject).grants[u] \subseteq answered[u]
      BY <2>1, WithoutIs DEF TypeOK
    <3> QED BY <2>1, <2>3, <3>1 DEF Saved
  <2> QED BY <1>7, <2>2, <2>3 DEF RemoveOrganizationAssignments
<1>8. CASE RemovalFails
  <2>1. phase = "up" /\ UNCHANGED <<phase, answered>>
    BY <1>8 DEF RemovalFails, RegistryInv, process, history
  <2>2. Without(subject) \in Accounts /\ SaveFailed(Without(subject), {"catalog"})
    BY <1>8, WithoutIs DEF RemovalFails, TypeOK
  <2> QED BY <2>1, <2>2, SaveFailedIs
<1>9. ASSUME NEW u \in Users, NEW os \in SUBSET Orgs, UpdateUser(u, os) PROVE AccountsInv'
  <2>1. phase = "up" /\ phase' = phase /\ answered' = [answered EXCEPT ![u] = os]
    BY <1>9 DEF UpdateUser, Inside, process
  <2>2. \A v \in Users : answered'[v] = IF v = u THEN os ELSE answered[v]
    BY <2>1 DEF TypeOK
  <2>3. CASE mem.grants[u] = os /\ UNCHANGED <<saved, mem, doubts>>
    BY <2>1, <2>2, <2>3
  <2>4. CASE Saved(Granted(u, os))
    <3>1. mem.grants \in [Users -> SUBSET Orgs] /\ Granted(u, os).grants = [mem.grants EXCEPT ![u] = os]
      BY GrantedIs DEF TypeOK, Accounts
    <3>2. \A v \in Users : Granted(u, os).grants[v] = IF v = u THEN os ELSE mem.grants[v]
      BY ONLY <3>1
    <3>3. \A v \in Users : Granted(u, os).grants[v] \subseteq answered'[v]
      BY <2>1, <2>2, <3>2
    <3> QED BY <2>1, <2>4, <3>3 DEF Saved
  <2> QED BY <1>9, <2>3, <2>4 DEF UpdateUser
<1>10. ASSUME NEW u \in Users, NEW os \in SUBSET Orgs, UpdateFails(u, os) PROVE AccountsInv'
  <2>1. phase = "up" /\ UNCHANGED <<phase, answered>>
    BY <1>10 DEF UpdateFails, Inside, process, history
  <2>2. Granted(u, os) \in Accounts /\ SaveFailed(Granted(u, os), {})
    BY <1>10, GrantedIs DEF UpdateFails
  <2> QED BY <2>1, <2>2, SaveFailedIs
<1>11. ASSUME NEW u \in Users, Login(u) PROVE AccountsInv'
  BY <1>11 DEF Login, tables, process, history
<1>12. CASE UNCHANGED vars
  BY <1>12 DEF vars, tables, process, manager, history
<1> QED BY <1>1, <1>2, <1>3, <1>4, <1>5, <1>6, <1>7, <1>8, <1>9, <1>10, <1>11, <1>12 DEF Next

LEMMA CatalogStep ==
    ASSUME TypeOK, RegistryInv, CatalogInv, [Next]_vars
    PROVE  CatalogInv'
<1> USE DEF CatalogInv
<1>1. ASSUME NEW on \in BOOLEAN, EnsureOrganizations(on) PROVE CatalogInv'
  BY <1>1 DEF EnsureOrganizations
<1>2. CASE NewManager
  BY <1>2 DEF NewManager
<1>3. CASE Crash
  BY <1>3 DEF Crash
<1>4. CASE Enter \/ Leave \/ AnswerDeletion
  BY <1>4 DEF Enter, Leave, Inside, AnswerDeletion, tables, process, manager
<1>5. ASSUME NEW o \in Orgs, NEW n \in Names,
             CreateOrganization(o, n) \/ RenameOrganization(o, n)
      PROVE  CatalogInv'
  <2>1. /\ Answer(o, "register") /\ phase = "up" /\ stage = "in"
        /\ UNCHANGED <<phase, catalog>> /\ orgName' = [orgName EXCEPT ![o] = n]
    BY <1>5 DEF CreateOrganization, RenameOrganization, process, manager
  <2>2. \A p \in Orgs \ {o} : orgName'[p] = orgName[p]
    BY <2>1 DEF TypeOK
  <2> QED BY <2>1, <2>2, AnswerIs
<1>6. ASSUME NEW o \in Orgs, DeleteOrganization(o) PROVE CatalogInv'
  <2>1. /\ Answer(o, "cleanup") /\ phase = "up" /\ stage = "in"
        /\ UNCHANGED <<phase, catalog>> /\ orgName' = [orgName EXCEPT ![o] = NoName]
    BY <1>6 DEF DeleteOrganization, AfterDeletion, process, manager
  <2>2. \A p \in Orgs \ {o} : orgName'[p] = orgName[p]
    BY <2>1 DEF TypeOK
  <2> QED BY <2>1, <2>2, AnswerIs
<1>7. CASE RegisterOrganization
  <2>1. SUFFICES ASSUME "catalog" \notin doubts, NEW o \in Orgs
                 PROVE  catalog'[o] = orgName[o]
    BY <1>7 DEF RegisterOrganization, tables
  <2>2. phase = "up" /\ stage = "register" /\ orgName[subject] # NoName /\ subject \in Orgs
    BY <1>7 DEF RegisterOrganization, RegistryInv, TypeOK
  <2>3. \A p \in Orgs \ {subject} : catalog[p] = orgName[p]
    BY <2>1, <2>2
  <2>4. Registrable(subject)
    BY <2>2, <2>3 DEF Registrable, RegistryInv
  <2> QED BY <1>7, <2>2, <2>3, <2>4 DEF RegisterOrganization, TypeOK
<1>8. CASE RemoveOrganizationAssignments
  <2>1. /\ phase = "up" /\ orgName[subject] = NoName
        /\ UNCHANGED <<phase, subject, orgName>> /\ catalog' = [catalog EXCEPT ![subject] = NoName]
    BY <1>8 DEF RemoveOrganizationAssignments, CatalogWithout, RegistryInv, process
  <2>2. "catalog" \in doubts <=> "catalog" \in doubts'
    BY <1>8 DEF RemoveOrganizationAssignments, Saved
  <2>3. \A o \in Orgs : catalog'[o] = IF o = subject THEN NoName ELSE catalog[o]
    BY <2>1 DEF TypeOK
  <2> QED BY <2>1, <2>2, <2>3
<1>9. CASE RemovalFails
  <2>1. Without(subject) \in Accounts /\ SaveFailed(Without(subject), {"catalog"})
    BY <1>9, WithoutIs DEF RemovalFails, TypeOK
  <2> QED BY <2>1, SaveFailedIs
<1>10. ASSUME NEW u \in Users, NEW os \in SUBSET Orgs, UpdateUser(u, os) PROVE CatalogInv'
  BY <1>10 DEF UpdateUser, Inside, Saved, process
<1>11. ASSUME NEW u \in Users, NEW os \in SUBSET Orgs, UpdateFails(u, os) PROVE CatalogInv'
  <2>1. Granted(u, os) \in Accounts /\ SaveFailed(Granted(u, os), {})
    BY <1>11, GrantedIs DEF UpdateFails
  <2>2. doubts \subseteq doubts'
    BY <2>1, SaveFailedIs
  <2> QED BY <1>11, <2>2 DEF UpdateFails, Inside, process
<1>12. ASSUME NEW u \in Users, Login(u) PROVE CatalogInv'
  BY <1>12 DEF Login, tables, process, handler
<1>13. CASE UNCHANGED vars
  BY <1>13 DEF vars, tables, process, manager, handler
<1> QED BY <1>1, <1>2, <1>3, <1>4, <1>5, <1>6, <1>7, <1>8, <1>9, <1>10, <1>11, <1>12, <1>13 DEF Next

LEMMA RemovedStep ==
    ASSUME TypeOK, RegistryInv, RemovedInv, [Next]_vars
    PROVE  RemovedInv'
<1> USE OrgsAssumption, NamesAssumption DEF RemovedInv, Forgotten
<1>1. ASSUME NEW on \in BOOLEAN, EnsureOrganizations(on) PROVE RemovedInv'
  <2>1. phase' = "ensured" /\ stage' = "out" /\ removed' = removed
    BY <1>1 DEF EnsureOrganizations, RegistryInv, handler, history
  <2>2. \A o \in minted : orgName'[o] = orgName[o] /\ o \in minted'
    BY <1>1 DEF EnsureOrganizations, TypeOK
  <2> QED BY <2>1, <2>2 DEF TypeOK
<1>2. CASE NewManager
  <2>1. /\ mem' = Migrated /\ guestOrg' = Migrated.guest /\ catalog' = orgName
        /\ UNCHANGED <<orgName, minted, removed, stage>> /\ stage = "out"
    BY <1>2 DEF NewManager, RegistryInv, handler
  <2>2. ASSUME NEW o \in removed PROVE Forgotten(o)'
    <3>1. orgName[o] = NoName /\ o \in Orgs
      BY <2>2 DEF TypeOK
    <3>2. Migrated.guest # o
      BY <3>1, MigratedIs DEF Registered
    <3>3. \A u \in Users : o \notin Migrated.grants[u]
      BY <3>1, MigratedIs DEF Registered
    <3> QED BY <2>1, <3>1, <3>2, <3>3
  <2> QED BY <2>1, <2>2
<1>3. CASE Crash
  BY <1>3 DEF Crash, tables, history
<1>4. CASE Enter \/ Leave
  BY <1>4 DEF Enter, Leave, Inside, tables, process, manager, history
<1>5. ASSUME NEW o \in Orgs, NEW n \in Names, CreateOrganization(o, n) PROVE RemovedInv'
  <2>1. /\ Answer(o, "register") /\ UNCHANGED <<mem, catalog, guestOrg, removed, phase>>
        /\ o \notin minted /\ minted' = minted \cup {o} /\ orgName' = [orgName EXCEPT ![o] = n]
    BY <1>5 DEF CreateOrganization, process, manager
  <2>2. \A p \in removed : orgName'[p] = NoName
    BY <2>1 DEF TypeOK
  <2> QED BY <2>1, <2>2, AnswerIs
<1>6. ASSUME NEW o \in Orgs, NEW n \in Names, RenameOrganization(o, n) PROVE RemovedInv'
  <2>1. /\ Answer(o, "register") /\ UNCHANGED <<mem, catalog, guestOrg, removed, phase, minted>>
        /\ orgName[o] # NoName /\ orgName' = [orgName EXCEPT ![o] = n]
    BY <1>6 DEF RenameOrganization, Registered, process, manager, history
  <2>2. \A p \in removed : orgName'[p] = NoName
    BY <2>1 DEF TypeOK
  <2> QED BY <2>1, <2>2, AnswerIs
<1>7. ASSUME NEW o \in Orgs, DeleteOrganization(o) PROVE RemovedInv'
  <2>1. /\ Answer(o, "cleanup") /\ UNCHANGED <<mem, catalog, guestOrg, removed, phase, minted>>
        /\ orgName' = [orgName EXCEPT ![o] = NoName]
    BY <1>7 DEF DeleteOrganization, AfterDeletion, process, manager, history
  <2>2. \A p \in removed : orgName'[p] = NoName
    BY <2>1 DEF TypeOK
  <2> QED BY <2>1, <2>2, AnswerIs
<1>8. CASE RegisterOrganization
  <2>1. /\ stage' = "out" /\ orgName[subject] # NoName
        /\ UNCHANGED <<orgName, minted, mem, guestOrg, removed, phase>>
        /\ catalog' \in {catalog, [catalog EXCEPT ![subject] = orgName[subject]]}
    BY <1>8 DEF RegisterOrganization, RegistryInv, tables, process, history
  <2>2. \A o \in removed : catalog'[o] = catalog[o]
    BY <2>1 DEF TypeOK
  <2> QED BY <2>1, <2>2
<1>9. CASE RemoveOrganizationAssignments
  <2>1. /\ phase = "up" /\ UNCHANGED <<orgName, minted, removed, phase, subject>>
        /\ catalog' = [catalog EXCEPT ![subject] = NoName]
        /\ guestOrg' = IF guestOrg = subject THEN NoOrg ELSE guestOrg
        /\ mem' = Without(subject)
    BY <1>9 DEF RemoveOrganizationAssignments, CatalogWithout, Saved, RegistryInv, process, history
  <2>2. \A u \in Users : mem'.grants[u] = mem.grants[u] \ {subject}
    BY <2>1, WithoutIs DEF TypeOK
  <2>3. \A o \in Orgs : catalog'[o] = IF o = subject THEN NoName ELSE catalog[o]
    BY <2>1 DEF TypeOK
  <2>4. Forgotten(subject)'
    BY <2>1, <2>2, <2>3 DEF TypeOK
  <2>5. \A o \in removed : Forgotten(o)'
    BY <2>1, <2>2, <2>3 DEF TypeOK
  <2> QED BY <2>1, <2>4, <2>5
<1>10. CASE RemovalFails
  <2>1. /\ mem' = mem /\ stage' = "out"
        /\ UNCHANGED <<orgName, minted, catalog, guestOrg, removed, phase>>
    BY <1>10 DEF RemovalFails, SaveFailed, KeptInMemory, process, history
  <2> QED BY <2>1
<1>11. CASE AnswerDeletion
  <2>1. /\ stage = "done" /\ stage' = "out" /\ removed' = removed \cup {subject}
        /\ UNCHANGED <<orgName, minted, mem, catalog, guestOrg, phase>>
    BY <1>11 DEF AnswerDeletion, tables, process, manager
  <2> QED BY <2>1 DEF RegistryInv
<1>12. ASSUME NEW u \in Users, NEW os \in SUBSET Orgs, UpdateUser(u, os) PROVE RemovedInv'
  <2>1. /\ stage' = "out" /\ phase = "up"
        /\ UNCHANGED <<orgName, minted, catalog, guestOrg, removed, phase>>
        /\ mem' = mem \/ mem' = Granted(u, os)
    BY <1>12 DEF UpdateUser, Inside, Saved, process
  <2>2. \A o \in removed : o \notin os
    BY <1>12, <2>1 DEF UpdateUser, Grantable
  <2>3. mem.grants \in [Users -> SUBSET Orgs] /\ Granted(u, os).grants = [mem.grants EXCEPT ![u] = os]
    BY GrantedIs DEF TypeOK, Accounts
  <2>4. \A v \in Users : mem'.grants[v] = mem.grants[v] \/ mem'.grants[v] = os
    BY <2>1, <2>3
  <2> QED BY <2>1, <2>2, <2>4
<1>13. ASSUME NEW u \in Users, NEW os \in SUBSET Orgs, UpdateFails(u, os) PROVE RemovedInv'
  <2>1. /\ mem' = mem /\ stage' = "out"
        /\ UNCHANGED <<orgName, minted, catalog, guestOrg, removed, phase>>
    BY <1>13 DEF UpdateFails, Inside, SaveFailed, KeptInMemory, process, history
  <2> QED BY <2>1
<1>14. ASSUME NEW u \in Users, Login(u) PROVE RemovedInv'
  BY <1>14 DEF Login, tables, process, handler, history
<1>15. CASE UNCHANGED vars
  BY <1>15 DEF vars, tables, process, manager, handler, history
<1> QED BY <1>1, <1>2, <1>3, <1>4, <1>5, <1>6, <1>7, <1>8, <1>9, <1>10, <1>11, <1>12, <1>13, <1>14, <1>15 DEF Next

LEMMA NextDirectory == DirectoryInv /\ [Next]_vars => DirectoryInv'
BY RegistryStep, SessionsStep, GuestStep, AccountsStep, CatalogStep, RemovedStep DEF DirectoryInv

-----------------------------------------------------------------------------
(* The properties of Directory.                                             *)

\* Every variable keeps its type, and no two organizations of the in-memory
\* catalog share a name, whatever fails (organizationCatalog's two indexes).
THEOREM TypesCorrect == Spec => []TypeOK
<1>1. DirectoryInv => TypeOK
  BY DEF DirectoryInv
<1> QED BY InitDirectory, NextDirectory, <1>1, PTL DEF Spec

\* No session ever acts with an access its account no longer has: every save
\* that changes grants in memory ends the sessions it affects, and a failed
\* save changes neither (revokeUserSessionsLocked, commitLocked).
THEOREM SessionsFollowAccounts == Spec => []SessionsCurrent
<1>1. DirectoryInv => SessionsCurrent
  BY DEF DirectoryInv, SessionsInv
<1> QED BY InitDirectory, NextDirectory, <1>1, PTL DEF Spec

\* The Guest workspace is never an organization an administrator created,
\* across renames, deletions and restarts with Guest switched on and off
\* (isReservedGuestName, migrateGuestOrganization).
THEOREM GuestNeverMade == Spec => []GuestOnlyOwn
<1>1. DirectoryInv => GuestOnlyOwn
  <2>1. DirectoryInv => made \subseteq Orgs /\ guestOrg \in (minted \ made) \cup {NoOrg}
    BY DEF DirectoryInv, GuestInv, TypeOK
  <2> QED BY <2>1, OrgsAssumption DEF GuestOnlyOwn
<1> QED BY InitDirectory, NextDirectory, <1>1, PTL DEF Spec

\* Neither memory nor the next start gives an account more than its last
\* answered update, unless an unanswered save took effect (commitLocked,
\* migrateOrganizationAssignments).
THEOREM AnswersKept == Spec => []AnsweredKept
<1>1. DirectoryInv => AnsweredKept
  BY DEF DirectoryInv, AccountsInv, AnsweredKept
<1> QED BY InitDirectory, NextDirectory, <1>1, PTL DEF Spec

\* Between handlers the catalog is the registry, until a failure of this
\* process leaves one of them behind (register, remove, NewPostgres).
THEOREM CatalogFollows == Spec => []CatalogFaithful
<1>1. DirectoryInv => CatalogFaithful
  <2> SUFFICES ASSUME DirectoryInv, phase = "up", stage = "out", "catalog" \notin doubts
               PROVE  catalog = orgName
    BY DEF CatalogFaithful
  <2>1. \A o \in Orgs : catalog[o] = orgName[o]
    BY DEF DirectoryInv, CatalogInv
  <2> QED BY <2>1 DEF DirectoryInv, TypeOK
<1> QED BY InitDirectory, NextDirectory, <1>1, PTL DEF Spec

\* After a deletion is answered, catalog, accounts, Guest binding and open
\* sessions know nothing of the organization, for good
\* (RemoveOrganizationAssignments, and ids that are never used again).
THEOREM DeletedStaysGone == Spec => []DeletedGone
<1>1. DirectoryInv => DeletedGone
  <2> SUFFICES ASSUME DirectoryInv, phase = "up", NEW o \in removed
               PROVE  /\ Forgotten(o)
                      /\ \A u \in Users : \A s \in sessions[u] : o \notin s
    BY DEF DeletedGone, Forgotten
  <2>1. Forgotten(o)
    BY DEF DirectoryInv, RemovedInv
  <2>2. \A u \in Users : sessions[u] \subseteq {mem.grants[u]}
    BY DEF DirectoryInv, SessionsInv, SessionsCurrent
  <2> QED BY <2>1, <2>2 DEF Forgotten
<1> QED BY InitDirectory, NextDirectory, <1>1, PTL DEF Spec
=============================================================================
