----------------------------- MODULE Directory -----------------------------
(***************************************************************************)
(* The directory of organizations and accounts: the administrator's        *)
(* handlers of internal/handler, the registry of internal/store and the    *)
(* account state of internal/auth, with the restarts that load them again. *)
(*                                                                         *)
(* One fact lives in three places: the table organizations, the row        *)
(* auth_state, and the Manager's memory (accounts, organization catalog,   *)
(* sessions).  A handler writes one after the other; each write may fail,  *)
(* take effect without its answer, or be the last before a crash.          *)
(*                                                                         *)
(* Handlers exclude each other and every request through directoryMu, so   *)
(* there is at most one at a time.  Accounts are those with scoped access; *)
(* roles, disabled accounts and all-organization access are left out.      *)
(***************************************************************************)
EXTENDS Naturals

CONSTANTS
    Orgs,        \* organization ids
    DefaultOrg,  \* model.DefaultOrganizationID
    NoOrg,       \* no organization is bound to Guest
    Names,       \* organization names
    DefaultName, \* model.DefaultOrganizationName
    GuestName,   \* auth.GuestOrganizationName
    NoName,      \* no such organization
    Users,       \* accounts
    Faults,      \* what may fail: "reply", "save", "savereply", "crash"
    MaxFaults    \* bound: failures other than crashes in one behaviour

ASSUME OrgsAssumption == DefaultOrg \in Orgs /\ NoOrg \notin Orgs
ASSUME NamesAssumption ==
    DefaultName \in Names /\ GuestName \in Names \ {DefaultName} /\ NoName \notin Names
ASSUME FaultsAssumption ==
    Faults \subseteq {"reply", "save", "savereply", "crash"} /\ MaxFaults \in Nat

VARIABLES
    orgName,    \* table organizations: id -> name
    minted,     \* organization ids ever used
    saved,      \* row auth_state: grants of the accounts, organization bound to Guest
    phase,      \* the process: "down", "ensured" (half started) or "up"
    guestOn,    \* Config.GuestEnabled of this process
    mem,        \* Manager.state
    catalog,    \* Manager.organizations: id -> name
    guestOrg,   \* Manager.guestOrganization
    sessions,   \* Manager.sessions: the access each session was opened with
    stage,      \* the administrator's handler
    subject,    \* the organization it is about
    faults,     \* failures so far (for the bound)
    made,       \* organizations administrators have created
    removed,    \* organizations whose deletion was answered with success
    answered,   \* the access the last answered update gave each account
    doubts      \* where memory and database may differ since this process started

tables   == <<orgName, minted, saved>>
process  == <<phase, guestOn>>
manager  == <<mem, catalog, guestOrg, sessions>>
handler  == <<stage, subject>>
history  == <<made, removed, answered>>
vars == <<tables, process, manager, handler, faults, history, doubts>>

Accounts == [grants : [Users -> SUBSET Orgs], guest : Orgs \cup {NoOrg}]

Registered(o) == orgName[o] # NoName

NoCatalog == [o \in Orgs |-> NoName]
NoSessions == [u \in Users |-> {}]

\* A database in which Default is registered and no account has been made.
Init ==
    /\ orgName = [o \in Orgs |-> IF o = DefaultOrg THEN DefaultName ELSE NoName]
    /\ minted = {DefaultOrg}
    /\ saved = [grants |-> [u \in Users |-> {}], guest |-> NoOrg]
    /\ phase = "down" /\ guestOn = FALSE
    /\ mem = saved /\ catalog = NoCatalog /\ guestOrg = NoOrg /\ sessions = NoSessions
    /\ stage = "out" /\ subject = DefaultOrg
    /\ faults = 0
    /\ made = {} /\ removed = {} /\ answered = [u \in Users |-> {}]
    /\ doubts = {}

-----------------------------------------------------------------------------
(* Starting and stopping.                                                   *)

\* startupOrganizationNames asks for the Guest organization when Guest is
\* enabled and the bound one is missing; EnsureOrganizations creates it unless
\* an organization has that name already.
GuestMissing(on) ==
    /\ on
    /\ saved.guest = NoOrg \/ ~Registered(saved.guest)
    /\ \A o \in Orgs : orgName[o] # GuestName

EnsureOrganizations(on) ==
    /\ phase = "down" /\ phase' = "ensured"
    /\ guestOn' = on
    /\ IF GuestMissing(on)
       THEN \E o \in Orgs \ minted :
               /\ orgName' = [orgName EXCEPT ![o] = GuestName]
               /\ minted' = minted \cup {o}
       ELSE UNCHANGED <<orgName, minted>>
    /\ UNCHANGED <<saved, manager, handler, faults, history, doubts>>

\* migrateOrganizationAssignments drops the grants of missing organizations;
\* migrateGuestOrganization keeps the binding of a registered organization,
\* or binds the one that has the reserved name.
Migrated ==
    [grants |-> [u \in Users |-> {o \in saved.grants[u] : Registered(o)}],
     guest |-> IF saved.guest # NoOrg /\ Registered(saved.guest) THEN saved.guest
               ELSE IF \E o \in Orgs : orgName[o] = GuestName
                    THEN CHOOSE o \in Orgs : orgName[o] = GuestName
                    ELSE NoOrg]

\* auth.NewPostgres.  What a lost answer left behind is settled here: an
\* account has the access that was loaded.
NewManager ==
    /\ phase = "ensured" /\ phase' = "up"
    /\ mem' = Migrated /\ saved' = Migrated /\ guestOrg' = Migrated.guest
    /\ catalog' = orgName
    /\ answered' = IF "accounts" \in doubts THEN Migrated.grants ELSE answered
    /\ doubts' = {}
    /\ UNCHANGED <<orgName, minted, guestOn, sessions, handler, faults, made, removed>>

\* The process ends, at any point of a handler; its memory is gone.
Crash ==
    /\ "crash" \in Faults
    /\ phase # "down" /\ phase' = "down"
    /\ guestOn' = FALSE /\ mem' = saved /\ guestOrg' = NoOrg
    /\ catalog' = NoCatalog /\ sessions' = NoSessions
    /\ stage' = "out" /\ subject' = DefaultOrg
    /\ UNCHANGED <<tables, faults, history, doubts>>

-----------------------------------------------------------------------------
(* Failures.                                                                *)

Fault(f) == f \in Faults /\ faults < MaxFaults /\ faults' = faults + 1

\* A transaction of the registry ends: the handler goes on with o at the next
\* stage, or the commit took effect but its answer was lost and it gives up.
Answer(o, next) ==
    \/ stage' = next /\ subject' = o /\ UNCHANGED <<faults, doubts>>
    \/ /\ Fault("reply")
       /\ stage' = "out" /\ UNCHANGED subject
       /\ doubts' = doubts \cup {"catalog"}

\* variant: memory is changed before the save is known to have worked
KeptInMemoryEarly(next) == next

\* commitLocked: memory changes only after the save.
KeptInMemory(next) == mem

\* saveState returned no error.
Saved(next) ==
    /\ saved' = next /\ mem' = next
    /\ doubts' = doubts \ {"accounts"}
    /\ UNCHANGED faults

\* saveState returned an error, before or after it took effect; places names
\* what the handler leaves unfinished.
SaveFailed(next, places) ==
    /\ mem' = KeptInMemory(next)
    /\ \/ Fault("save") /\ UNCHANGED saved /\ doubts' = doubts \cup places
       \/ Fault("savereply") /\ saved' = next /\ doubts' = doubts \cup places \cup {"accounts"}

-----------------------------------------------------------------------------
(* The administrator's handlers.                                            *)

Inside(to) == phase = "up" /\ stage = "in" /\ stage' = to

Enter ==
    /\ phase = "up"
    /\ stage = "out" /\ stage' = "in"
    /\ UNCHANGED <<tables, process, manager, subject, faults, history, doubts>>

\* Refusals, and errors before anything is written.
Leave ==
    /\ Inside("out")
    /\ UNCHANGED <<tables, process, manager, subject, faults, history, doubts>>

\* The unique index on normalized_name.
NameFree(n) == \A o \in Orgs : orgName[o] # n

\* variant: no name is reserved
NoneReserved(o, n) == FALSE

\* isReservedGuestName: only the organization bound to Guest may carry it.
Reserved(o, n) == n = GuestName /\ o # guestOrg

CreateOrganization(o, n) ==
    /\ phase = "up" /\ stage = "in"
    /\ ~Reserved(o, n) /\ NameFree(n)
    /\ o \notin minted
    /\ orgName' = [orgName EXCEPT ![o] = n]
    /\ minted' = minted \cup {o} /\ made' = made \cup {o}
    /\ Answer(o, "register")
    /\ UNCHANGED <<saved, process, manager, removed, answered>>

RenameOrganization(o, n) ==
    /\ phase = "up" /\ stage = "in"
    /\ ~(guestOn /\ o = guestOrg) /\ ~Reserved(o, n)
    /\ Registered(o) /\ o # DefaultOrg
    /\ NameFree(n) \/ orgName[o] = n
    /\ orgName' = [orgName EXCEPT ![o] = n]
    /\ Answer(o, "register")
    /\ UNCHANGED <<minted, saved, process, manager, history>>

\* register: the name belongs to no other organization of the catalog.
Registrable(o) == \A p \in Orgs \ {o} : catalog[p] # orgName[o]

\* RegisterOrganization, or its ErrConflict.
RegisterOrganization ==
    /\ stage = "register" /\ stage' = "out"
    /\ catalog' = IF Registrable(subject)
                  THEN [catalog EXCEPT ![subject] = orgName[subject]]
                  ELSE catalog
    /\ UNCHANGED <<tables, process, mem, guestOrg, sessions, subject, faults, history, doubts>>

\* variant: an organization that is gone already needs no more work
AfterDeletionFound(o) == IF Registered(o) THEN "cleanup" ELSE "done"

\* ErrNotFound too goes on to the accounts.
AfterDeletion(o) == "cleanup"

\* DeleteOrganization; a second attempt finds no row.
DeleteOrganization(o) ==
    /\ phase = "up" /\ stage = "in"
    /\ o # DefaultOrg /\ o \in minted
    /\ ~(guestOn /\ o = guestOrg)
    /\ orgName' = [orgName EXCEPT ![o] = NoName]
    /\ Answer(o, AfterDeletion(o))
    /\ UNCHANGED <<minted, saved, process, manager, history>>

\* The accounts without the organization.
Without(o) ==
    [grants |-> [u \in Users |-> mem.grants[u] \ {o}],
     guest |-> IF mem.guest = o THEN NoOrg ELSE mem.guest]

\* variant: only an update of an account ends its sessions
RevokedNot(o) == sessions

\* revokeUserSessionsLocked, for the accounts that lose the organization.
Revoked(o) == [u \in Users |-> IF o \in mem.grants[u] THEN {} ELSE sessions[u]]

\* variant: an organization no account names is left in the catalog
CatalogKept(o) == IF Without(o) = mem THEN catalog ELSE [catalog EXCEPT ![o] = NoName]

\* organizationCatalog.remove.
CatalogWithout(o) == [catalog EXCEPT ![o] = NoName]

\* RemoveOrganizationAssignments saves only when an account or the binding
\* changes.
RemoveOrganizationAssignments ==
    LET o == subject IN
    /\ stage = "cleanup" /\ stage' = "done"
    /\ IF Without(o) = mem THEN UNCHANGED <<saved, mem, faults, doubts>> ELSE Saved(Without(o))
    /\ catalog' = CatalogWithout(o)
    /\ guestOrg' = IF guestOrg = o THEN NoOrg ELSE guestOrg
    /\ sessions' = Revoked(o)
    /\ UNCHANGED <<orgName, minted, process, subject, history>>

RemovalFails ==
    /\ stage = "cleanup" /\ stage' = "out"
    /\ Without(subject) # mem
    /\ SaveFailed(Without(subject), {"catalog"})
    /\ UNCHANGED <<orgName, minted, process, catalog, guestOrg, sessions, subject, history>>

\* 204 No Content.
AnswerDeletion ==
    /\ stage = "done" /\ stage' = "out"
    /\ removed' = removed \cup {subject}
    /\ UNCHANGED <<tables, process, manager, subject, faults, made, answered, doubts>>

\* canonicalAccess against the table, normalizeAccessLocked against memory.
Grantable(os) == os # {} /\ \A o \in os : Registered(o) /\ catalog[o] # NoName

Granted(u, os) == [grants |-> [mem.grants EXCEPT ![u] = os], guest |-> mem.guest]

\* UpdateUser, and CreateUser for an account without access.  An update that
\* changes nothing is answered without a save.
UpdateUser(u, os) ==
    /\ Inside("out") /\ Grantable(os)
    /\ IF mem.grants[u] = os
       THEN UNCHANGED <<saved, mem, sessions, faults, doubts>>
       ELSE Saved(Granted(u, os)) /\ sessions' = [sessions EXCEPT ![u] = {}]
    /\ answered' = [answered EXCEPT ![u] = os]
    /\ UNCHANGED <<orgName, minted, process, catalog, guestOrg, subject, made, removed>>

UpdateFails(u, os) ==
    /\ Inside("out") /\ Grantable(os)
    /\ mem.grants[u] # os
    /\ SaveFailed(Granted(u, os), {})
    /\ UNCHANGED <<orgName, minted, process, catalog, guestOrg, sessions, subject, history>>

\* newSessionLocked: a session keeps the access of the moment it was opened.
Login(u) ==
    /\ phase = "up"
    /\ sessions' = [sessions EXCEPT ![u] = @ \cup {mem.grants[u]}]
    /\ UNCHANGED <<tables, process, mem, catalog, guestOrg, handler, faults, history, doubts>>

Next ==
    \/ \E on \in BOOLEAN : EnsureOrganizations(on)
    \/ NewManager \/ Crash
    \/ Enter \/ Leave
    \/ \E o \in Orgs, n \in Names : CreateOrganization(o, n) \/ RenameOrganization(o, n)
    \/ \E o \in Orgs : DeleteOrganization(o)
    \/ RegisterOrganization \/ RemoveOrganizationAssignments \/ RemovalFails \/ AnswerDeletion
    \/ \E u \in Users, os \in SUBSET Orgs : UpdateUser(u, os) \/ UpdateFails(u, os)
    \/ \E u \in Users : Login(u)

Spec == Init /\ [][Next]_vars

-----------------------------------------------------------------------------
(* Properties.                                                              *)

\* The types of the variables; no two organizations of the catalog have the
\* same name, so its two indexes are inverse to each other.
TypeOK ==
    /\ orgName \in [Orgs -> Names \cup {NoName}]
    /\ minted \subseteq Orgs
    /\ saved \in Accounts /\ mem \in Accounts
    /\ phase \in {"down", "ensured", "up"} /\ guestOn \in BOOLEAN
    /\ catalog \in [Orgs -> Names \cup {NoName}]
    /\ \A o, p \in Orgs : catalog[o] = catalog[p] /\ catalog[o] # NoName => o = p
    /\ guestOrg \in Orgs \cup {NoOrg}
    /\ sessions \in [Users -> SUBSET SUBSET Orgs]
    /\ stage \in {"out", "in", "register", "cleanup", "done"} /\ subject \in Orgs
    /\ faults \in 0..MaxFaults
    /\ made \subseteq Orgs /\ removed \subseteq Orgs
    /\ answered \in [Users -> SUBSET Orgs]
    /\ doubts \subseteq {"catalog", "accounts"}

\* Between handlers the catalog is the registry, unless a failure since the
\* process started left one of them behind; whatever failed, a restart brings
\* them together again.
CatalogFaithful ==
    phase = "up" /\ stage = "out" /\ "catalog" \notin doubts => catalog = orgName

\* An account has no more access, in memory and after the next start, than
\* the last answered update gave it, whatever failed since: unless the failed
\* save was one that took effect.
AnsweredKept ==
    "accounts" \notin doubts =>
        \A u \in Users : saved.grants[u] \subseteq answered[u] /\ mem.grants[u] \subseteq answered[u]

\* "Any effective authorization change revokes the account's active
\* sessions": no session acts with an access its account no longer has.
SessionsCurrent == \A u \in Users : sessions[u] \subseteq {mem.grants[u]}

\* Once a deletion is answered, nothing in memory knows the organization, and
\* no later failure, retry or restart brings it back.
DeletedGone ==
    phase = "up" => \A o \in removed :
        /\ catalog[o] = NoName /\ guestOrg # o
        /\ \A u \in Users : o \notin mem.grants[u] /\ \A s \in sessions[u] : o \notin s

\* "Only the organization already bound to Guest may carry it, so no member
\* organization can become anonymously accessible" (isReservedGuestName): the
\* Guest workspace is never an organization an administrator created.
GuestOnlyOwn == guestOrg \notin made

=============================================================================
