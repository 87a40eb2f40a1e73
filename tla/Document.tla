------------------------------ MODULE Document ------------------------------
(***************************************************************************)
(* The document of one map and the handlers of internal/handler/server.go  *)
(* that change it, up to what internal/model/validation.go demands.        *)
(*                                                                         *)
(* A document is a web of references: racks stand in rooms, devices hang   *)
(* in racks, cables end at ports of devices, groups name cables, comments, *)
(* documentation and photos name anything.  A handler computes the next    *)
(* document; mutate prunes it and the store refuses it unless Validate     *)
(* accepts.  One handler is one step, since the row is locked meanwhile    *)
(* (module TopologyStore); here it is the sequences of steps that matter.  *)
(* A refused request changes nothing and is no step.                       *)
(*                                                                         *)
(* Names, colours, coordinates and other data no reference depends on are  *)
(* left out, with the handlers that change nothing else.  A device takes   *)
(* one unit of one rack face.  Switch systems and firewall clusters are    *)
(* one family of teams: they differ in the kind of their members.          *)
(***************************************************************************)
EXTENDS Integers, Functions

CONSTANTS
    Rooms, Racks, Devices, Ports, Links, Groups, Teams, Annotations, Notes,
               \* ids
    Kinds,     \* device categories
    TeamKinds, \* those that form teams
    Panel,     \* DeviceCategoryPatchPanel
    Physical,  \* ports of physical-only types (a port keeps its type)
    Vlans,     \* VLAN ids
    MaxHeight, \* units of the highest rack
    Whole,     \* the map or its canvas, as the target of a note
    None,      \* no room, no rack, no primary cable
    Starts,    \* documents to start from
    RackInputs, DeviceInputs, PortSets, SettingInputs, LinkInputs, Batches, GroupInputs,
    TeamInputs, NoteInputs,
               \* bounds: what requests carry
    MaxEdits   \* bound: edits in one behaviour

Unset == 0     \* no native VLAN, no rack unit

ASSUME KindsAssumption == Panel \in Kinds /\ TeamKinds \subseteq Kinds \ {Panel}
ASSUME VlansAssumption == Vlans \subseteq Nat \ {Unset} /\ 1 \in Vlans
ASSUME BoundsAssumption == MaxHeight \in Nat /\ MaxEdits \in Nat
ASSUME NoneAssumption == None \notin Rooms \cup Racks \cup Devices \cup Links

VARIABLES
    doc,   \* the stored document
    held,  \* an earlier document a browser or a backup file holds
    used,  \* ids of notes the document ever had
    edits  \* edits so far (for the bound)
vars == <<doc, held, used, edits>>

-----------------------------------------------------------------------------
(* Documents.                                                               *)

NoteTypes == {"comment", "documentation", "photo"}

RackRecords == [room : Rooms \cup {None}, height : 1..MaxHeight]
DeviceRecords ==
    [kind : Kinds, room : Rooms \cup {None}, rack : Racks \cup {None}, unit : 0..MaxHeight]
Settings == [native : Vlans \cup {Unset}, tagged : SUBSET Vlans, up : BOOLEAN]
PortRecords == [device : Devices, set : Settings]
LinkRecords ==
    [source : Ports, target : Ports, rear : BOOLEAN,
     primary : Vlans \cup {Unset}, vlans : SUBSET Vlans]
GroupRecords == [members : SUBSET Links, primary : Links \cup {None}]
TeamRecords == [members : SUBSET Devices, active : Devices \cup {None}]
Things == {Whole} \cup Racks \cup Devices \cup Ports \cup Links \cup Annotations
NoteRecords == [type : NoteTypes, target : Things]

\* One entry of T for each existing id of S.
IsTable(f, S, T) == DOMAIN f \subseteq S /\ f \in [DOMAIN f -> T]

IsDocument(t) ==
    /\ t = [rooms |-> t.rooms, vlans |-> t.vlans, annotations |-> t.annotations,
            racks |-> t.racks, devices |-> t.devices, ports |-> t.ports, links |-> t.links,
            groups |-> t.groups, teams |-> t.teams, notes |-> t.notes]
    /\ t.rooms \subseteq Rooms /\ t.vlans \subseteq Vlans /\ t.annotations \subseteq Annotations
    /\ IsTable(t.racks, Racks, RackRecords) /\ IsTable(t.devices, Devices, DeviceRecords)
    /\ IsTable(t.ports, Ports, PortRecords) /\ IsTable(t.links, Links, LinkRecords)
    /\ IsTable(t.groups, Groups, GroupRecords) /\ IsTable(t.teams, Teams, TeamRecords)
    /\ IsTable(t.notes, Notes, NoteRecords)

Without(f, S) == Restrict(f, DOMAIN f \ S)
With(f, x, v) == [y \in DOMAIN f \cup {x} |-> IF y = x THEN v ELSE f[y]]

Several(S) == \E x, y \in S : x # y

Ends(link) == {link.source, link.target}
FrontEnds(links) == UNION {Ends(links[l]) : l \in {k \in DOMAIN links : ~links[k].rear}}

\* What a note of the type may be about.
Targets(t, type) ==
    {Whole} \cup DOMAIN t.devices \cup DOMAIN t.ports \cup DOMAIN t.links
    \cup (IF type = "comment" THEN {} ELSE DOMAIN t.racks)
    \cup (IF type = "photo" THEN t.annotations ELSE {})

-----------------------------------------------------------------------------
(* Topology.Validate.                                                       *)

PlacementsValid(t) ==
    /\ \A r \in DOMAIN t.racks : t.racks[r].room \in t.rooms \cup {None}
    /\ \A d \in DOMAIN t.devices :
        LET at == t.devices[d] IN
        /\ at.room \in t.rooms \cup {None}
        /\ \/ at.rack = None /\ at.unit = Unset
           \/ at.rack \in DOMAIN t.racks /\ at.unit \in 1..t.racks[at.rack].height
        /\ \A e \in DOMAIN t.devices \ {d} :
            t.devices[e].rack = at.rack /\ at.rack # None => t.devices[e].unit # at.unit

PortsValid(t) ==
    \A p \in DOMAIN t.ports :
        /\ t.ports[p].device \in DOMAIN t.devices
        /\ t.ports[p].set.native \in t.vlans \cup {Unset}
        /\ t.ports[p].set.tagged \subseteq t.vlans

LinkValid(t, k) ==
    /\ k.source # k.target /\ Ends(k) \subseteq DOMAIN t.ports
    /\ k.rear => \A p \in Ends(k) : t.devices[t.ports[p].device].kind = Panel
    /\ k.primary \in t.vlans \cup {Unset} /\ k.vlans \subseteq t.vlans

\* A port takes one cable in front and one behind.
LinksValid(t) ==
    /\ \A l \in DOMAIN t.links : LinkValid(t, t.links[l])
    /\ \A l, m \in DOMAIN t.links :
        l # m /\ t.links[l].rear = t.links[m].rear => Ends(t.links[l]) \cap Ends(t.links[m]) = {}

GroupValid(t, v) ==
    LET ends == UNION {Ends(t.links[l]) : l \in v.members} IN
    /\ v.members \subseteq DOMAIN t.links /\ Several(v.members)
    /\ v.primary \in v.members \cup {None}
    /\ ends \subseteq Physical \/ ends \cap Physical = {}

GroupsValid(t) ==
    /\ \A g \in DOMAIN t.groups : GroupValid(t, t.groups[g])
    /\ \A g, h \in DOMAIN t.groups : g # h => t.groups[g].members \cap t.groups[h].members = {}

TeamValid(t, v) ==
    /\ v.members \subseteq DOMAIN t.devices /\ Several(v.members)
    /\ \E kind \in TeamKinds : \A d \in v.members : t.devices[d].kind = kind
    /\ v.active \in v.members \cup {None}

TeamsValid(t) ==
    /\ \A g \in DOMAIN t.teams : TeamValid(t, t.teams[g])
    /\ \A g, h \in DOMAIN t.teams : g # h => t.teams[g].members \cap t.teams[h].members = {}

NotesValid(t) ==
    \A n \in DOMAIN t.notes : t.notes[n].target \in Targets(t, t.notes[n].type)

Validate(t) ==
    /\ PlacementsValid(t) /\ PortsValid(t) /\ LinksValid(t)
    /\ GroupsValid(t) /\ TeamsValid(t) /\ NotesValid(t)

\* variant: racks are not looked for
AttachedOffRacks(t, n) == t.notes[n].target \in Targets(t, "comment")

\* Whether a note's target is there.
Attached(t, n) == t.notes[n].target \in Targets(t, t.notes[n].type)

\* pruneAttachedPlanReferences.
Pruned(t) == [t EXCEPT !.notes = Restrict(t.notes, {n \in DOMAIN t.notes : Attached(t, n)})]

\* variant: a primary cable stays primary
PrimaryLeft(v, rest) == v.primary

\* A failover group that loses its primary cable takes another member.
PrimaryOf(v, rest) ==
    IF v.primary \in rest \cup {None} THEN v.primary ELSE CHOOSE l \in rest : TRUE

\* pruneLinkGroups: groups of fewer than two cables go.
PrunedGroups(t) ==
    LET Rest(g) == t.groups[g].members \cap DOMAIN t.links IN
    [t EXCEPT !.groups =
        [g \in {g \in DOMAIN t.groups : Several(Rest(g))} |->
            [members |-> Rest(g), primary |-> PrimaryOf(t.groups[g], Rest(g))]]]

\* pruneSwitchSystems, pruneFirewallClusters.
PrunedTeams(t) ==
    LET Rest(g) == t.teams[g].members \cap DOMAIN t.devices
        ActiveOf(v, rest) ==
            IF v.active \in rest \cup {None} THEN v.active ELSE CHOOSE d \in rest : TRUE
    IN
    [t EXCEPT !.teams =
        [g \in {g \in DOMAIN t.teams : Several(Rest(g))} |->
            [members |-> Rest(g), active |-> ActiveOf(t.teams[g], Rest(g))]]]

\* What requests carry, and what a document starts as.
ASSUME InputsAssumption ==
    /\ RackInputs \subseteq RackRecords /\ DeviceInputs \subseteq DeviceRecords
    /\ PortSets \subseteq SUBSET Ports /\ SettingInputs \subseteq Settings
    /\ LinkInputs \subseteq LinkRecords /\ Batches \subseteq SUBSET Links
    /\ GroupInputs \subseteq GroupRecords /\ TeamInputs \subseteq TeamRecords
    /\ NoteInputs \subseteq NoteRecords
    /\ \A t \in Starts : IsDocument(t) /\ Validate(t)

\* An id stands for a thing of one kind: a reference in the code names the kind
\* beside the id.
ASSUME IdsAssumption ==
    /\ Racks \cap (Devices \cup Ports \cup Links \cup Groups \cup Teams \cup Notes) = {}
    /\ Devices \cap (Ports \cup Links \cup Groups \cup Teams \cup Notes) = {}
    /\ Ports \cap (Links \cup Groups \cup Teams \cup Notes) = {}
    /\ Links \cap (Groups \cup Teams \cup Notes) = {}
    /\ Groups \cap (Teams \cup Notes) = {} /\ Teams \cap Notes = {}

-----------------------------------------------------------------------------
(* What the handlers make of a document.                                    *)

\* The ports of S go up, or down.
Switched(t, S, up) ==
    [t EXCEPT !.ports = [p \in DOMAIN t.ports |->
        IF p \in S THEN [t.ports[p] EXCEPT !.set.up = up] ELSE t.ports[p]]]

\* deactivateUnlinkedEndpointPorts: the ends of a front cable that is gone.
Unplugged(t, old) ==
    Switched(t, IF old.rear THEN {} ELSE Ends(old) \ FrontEnds(t.links), FALSE)

\* deleteRack: its devices stay in its room.
WithoutRack(t, r) ==
    [t EXCEPT !.racks = Without(t.racks, {r}),
              !.devices = [d \in DOMAIN t.devices |->
                  IF t.devices[d].rack = r
                  THEN [t.devices[d] EXCEPT !.rack = None, !.unit = Unset, !.room = t.racks[r].room]
                  ELSE t.devices[d]]]

PortsOf(t, d) == {p \in DOMAIN t.ports : t.ports[p].device = d}

\* deleteDevice: its ports, its cables and what named them.
WithoutDevice(t, d) ==
    PrunedTeams(PrunedGroups(
        [t EXCEPT !.devices = Without(t.devices, {d}),
                  !.ports = Without(t.ports, PortsOf(t, d)),
                  !.links = Without(t.links, {l \in DOMAIN t.links :
                                                 Ends(t.links[l]) \cap PortsOf(t, d) # {}})]))

\* deleteLink.
WithoutLink(t, l) ==
    PrunedGroups(Unplugged([t EXCEPT !.links = Without(t.links, {l})], t.links[l]))

\* deleteVLAN: what it was native on falls back to VLAN 1.
WithoutVlan(t, v) ==
    LET Native(w) == IF w = v THEN 1 ELSE w IN
    [t EXCEPT !.vlans = t.vlans \ {v},
              !.ports = [p \in DOMAIN t.ports |->
                  [t.ports[p] EXCEPT !.set.native = Native(t.ports[p].set.native),
                                     !.set.tagged = t.ports[p].set.tagged \ {v}]],
              !.links = [l \in DOMAIN t.links |->
                  [t.links[l] EXCEPT !.primary = Native(t.links[l].primary),
                                     !.vlans = t.links[l].vlans \ {v}]]]

\* applyLinkConfiguration reaches the whole group of the cable.
Grouped(t, l) ==
    LET of == {g \in DOMAIN t.groups : l \in t.groups[g].members}
    IN  {l} \cup UNION {t.groups[g].members : g \in of}

Configured(t, l, native, tagged) ==
    LET ends == UNION {Ends(t.links[k]) : k \in Grouped(t, l)} IN
    [t EXCEPT !.ports = [p \in DOMAIN t.ports |->
                  IF p \in ends
                  THEN [t.ports[p] EXCEPT !.set.native = native, !.set.tagged = tagged \ {native}]
                  ELSE t.ports[p]],
              !.links = [k \in DOMAIN t.links |->
                  IF k \in Grouped(t, l)
                  THEN [t.links[k] EXCEPT !.primary = native, !.vlans = tagged \cup {native}]
                  ELSE t.links[k]]]

Turned(link) == [link EXCEPT !.source = link.target, !.target = link.source]

\* setCableEndpoint, for the end that was at port p.
MovedEnd(link, p, q) ==
    IF link.source = p THEN [link EXCEPT !.source = q] ELSE [link EXCEPT !.target = q]

\* The cables that occupy a port on the plane of cable l.
Occupants(t, l, q) ==
    {m \in DOMAIN t.links : t.links[m].rear = t.links[l].rear /\ q \in Ends(t.links[m])}

\* applyLinkRepatch: the end of l at p moves to the free port q; or the ends
\* of l at p and of the cable at q are exchanged.
Repatched(t, l, p, q) ==
    LET at == Occupants(t, l, q)
        moved == [t EXCEPT !.links = [m \in DOMAIN t.links |->
                     IF m = l THEN MovedEnd(t.links[m], p, q)
                     ELSE IF m \in at THEN MovedEnd(t.links[m], q, p) ELSE t.links[m]]]
    IN  IF at # {} \/ t.links[l].rear THEN moved
        ELSE Unplugged(Switched(moved, {q}, TRUE), t.links[l])

-----------------------------------------------------------------------------
(* The handlers.                                                            *)

\* Server.mutate: prune, validate, store.
Accepted(t) == Validate(t)

Commit(t) ==
    /\ edits < MaxEdits /\ edits' = edits + 1
    /\ Accepted(Pruned(t))
    /\ doc' = Pruned(t)
    /\ used' = used \cup DOMAIN Pruned(t).notes
    /\ UNCHANGED held

CreateRack(r, v) == r \notin DOMAIN doc.racks /\ Commit([doc EXCEPT !.racks = With(@, r, v)])
UpdateRack(r, v) == r \in DOMAIN doc.racks /\ Commit([doc EXCEPT !.racks[r] = v])
DeleteRack(r) == r \in DOMAIN doc.racks /\ Commit(WithoutRack(doc, r))

\* A device comes with its ports, S, and the settings of those that are new;
\* a port belongs to one device.
PlacedDevice(d, v, S, set) ==
    [doc EXCEPT !.devices = With(@, d, v),
                !.ports = [p \in (DOMAIN doc.ports \ PortsOf(doc, d)) \cup S |->
                    IF p \in DOMAIN doc.ports THEN doc.ports[p] ELSE [device |-> d, set |-> set]]]

CreateDevice(d, v, S, set) ==
    /\ d \notin DOMAIN doc.devices /\ S \cap DOMAIN doc.ports = {}
    /\ Commit(PlacedDevice(d, v, S, set))

UpdateDevice(d, v, S, set) ==
    /\ d \in DOMAIN doc.devices /\ S \cap DOMAIN doc.ports \subseteq PortsOf(doc, d)
    /\ Commit(PlacedDevice(d, v, S, set))

DeleteDevice(d) == d \in DOMAIN doc.devices /\ Commit(WithoutDevice(doc, d))

UpdatePort(p, set) == p \in DOMAIN doc.ports /\ Commit([doc EXCEPT !.ports[p].set = set])

\* createLink is a batch of one.  The front ends of new cables go up.
CreateLinks(new) ==
    /\ DOMAIN new \cap DOMAIN doc.links = {}
    /\ Commit(Switched([doc EXCEPT !.links = [l \in DOMAIN @ \cup DOMAIN new |->
                                                 IF l \in DOMAIN new THEN new[l] ELSE @[l]]],
                       FrontEnds(new), TRUE))

ConfigureLink(l, native, tagged) ==
    /\ l \in DOMAIN doc.links /\ ~doc.links[l].rear
    /\ native \in doc.vlans /\ tagged \subseteq doc.vlans
    /\ Commit(Configured(doc, l, native, tagged))

SetLinkDirection(l) == l \in DOMAIN doc.links /\ Commit([doc EXCEPT !.links[l] = Turned(@)])

RepatchLink(l, p, q) ==
    /\ l \in DOMAIN doc.links /\ p \in Ends(doc.links[l])
    /\ q \in DOMAIN doc.ports \ Ends(doc.links[l])
    /\ Commit(Repatched(doc, l, p, q))

DeleteLink(l) == l \in DOMAIN doc.links /\ Commit(WithoutLink(doc, l))

CreateLinkGroup(g, v) == g \notin DOMAIN doc.groups /\ Commit([doc EXCEPT !.groups = With(@, g, v)])
UpdateLinkGroup(g, v) == g \in DOMAIN doc.groups /\ Commit([doc EXCEPT !.groups[g] = v])
DeleteLinkGroup(g) == g \in DOMAIN doc.groups /\ Commit([doc EXCEPT !.groups = Without(@, {g})])

CreateTeam(g, v) == g \notin DOMAIN doc.teams /\ Commit([doc EXCEPT !.teams = With(@, g, v)])
UpdateTeam(g, v) == g \in DOMAIN doc.teams /\ Commit([doc EXCEPT !.teams[g] = v])
DeleteTeam(g) == g \in DOMAIN doc.teams /\ Commit([doc EXCEPT !.teams = Without(@, {g})])

CreateVLAN(v) == v \notin doc.vlans /\ Commit([doc EXCEPT !.vlans = @ \cup {v}])
DeleteVLAN(v) == v \in doc.vlans \ {1} /\ Commit(WithoutVlan(doc, v))

\* createCommentThread, createDocumentationLink: a note about something that is
\* not there is pruned at once.  Documentation may bring its own id.
CreateNote(n, note) ==
    /\ note.type # "photo"
    /\ n \notin IF note.type = "documentation" THEN DOMAIN doc.notes ELSE used
    /\ Commit([doc EXCEPT !.notes = With(@, n, note)])

\* uploadPhotos, of one photo: its target is looked for.
UploadPhoto(n, note) ==
    /\ note.type = "photo" /\ n \notin used
    /\ note.target \in Targets(doc, "photo")
    /\ Commit([doc EXCEPT !.notes = With(@, n, note)])

WithoutNote(n) == [doc EXCEPT !.notes = Without(@, {n})]

\* deleteCommentThread, deleteDocumentationLink.
DeleteNote(n) == n \in DOMAIN doc.notes /\ doc.notes[n].type # "photo" /\ Commit(WithoutNote(n))
DeletePhoto(n) == n \in DOMAIN doc.notes /\ doc.notes[n].type = "photo" /\ Commit(WithoutNote(n))

\* variant: the notes are those of the request
NotesSent(sent) == sent.notes

\* replaceTopology keeps the stored comments and photos; documentation is the
\* request's.
NotesKept(sent) ==
    LET Docs(f) == {n \in DOMAIN f : f[n].type = "documentation"}
        stored == DOMAIN doc.notes \ Docs(doc.notes)
    IN  [n \in stored \cup Docs(sent.notes) |->
            IF n \in stored THEN doc.notes[n] ELSE sent.notes[n]]

ReplaceTopology(sent) == Commit([sent EXCEPT !.notes = NotesKept(sent)])

\* A browser remembers a document, for undo, or saves a backup of it.
Hold == held # doc /\ held' = doc /\ UNCHANGED <<doc, used, edits>>

\* bound: a replacement is an earlier document, or the present one with an edit
\* that has no handler of its own.
Sent ==
    {held} \cup {[doc EXCEPT !.rooms = R] : R \in SUBSET Rooms}
           \cup {[doc EXCEPT !.annotations = A] : A \in SUBSET Annotations}
           \cup {[doc EXCEPT !.vlans = V] : V \in SUBSET Vlans}

Init == doc \in Starts /\ held = doc /\ used = DOMAIN doc.notes /\ edits = 0

RackSteps == \E r \in Racks :
    \/ \E v \in RackInputs : CreateRack(r, v) \/ UpdateRack(r, v)
    \/ DeleteRack(r)

DeviceSteps == \E d \in Devices :
    \/ \E v \in DeviceInputs, S \in PortSets, set \in SettingInputs :
           CreateDevice(d, v, S, set) \/ UpdateDevice(d, v, S, set)
    \/ DeleteDevice(d)

PortSteps == \E p \in Ports, set \in SettingInputs : UpdatePort(p, set)

LinkSteps ==
    \/ \E S \in Batches : \E new \in [S -> LinkInputs] : CreateLinks(new)
    \/ \E l \in Links :
        \/ \E native \in Vlans, tagged \in SUBSET Vlans : ConfigureLink(l, native, tagged)
        \/ \E p, q \in Ports : RepatchLink(l, p, q)
        \/ SetLinkDirection(l) \/ DeleteLink(l)

GroupSteps ==
    \/ \E g \in Groups :
        \/ \E v \in GroupInputs : CreateLinkGroup(g, v) \/ UpdateLinkGroup(g, v)
        \/ DeleteLinkGroup(g)
    \/ \E g \in Teams :
        \/ \E v \in TeamInputs : CreateTeam(g, v) \/ UpdateTeam(g, v)
        \/ DeleteTeam(g)

OtherSteps ==
    \/ \E v \in Vlans : CreateVLAN(v) \/ DeleteVLAN(v)
    \/ \E n \in Notes :
        \/ \E note \in NoteInputs : CreateNote(n, note) \/ UploadPhoto(n, note)
        \/ DeleteNote(n) \/ DeletePhoto(n)

Replacements == \E sent \in Sent : ReplaceTopology(sent)

Next ==
    \/ RackSteps \/ DeviceSteps \/ PortSteps \/ LinkSteps \/ GroupSteps \/ OtherSteps
    \/ Replacements \/ Hold

Spec == Init /\ [][Next]_vars

-----------------------------------------------------------------------------
(* Properties.                                                              *)

\* The types of the variables; the stored document is one Topology.Validate
\* accepts, whatever a request contains.
TypeOK ==
    /\ IsDocument(doc) /\ Validate(doc)
    /\ IsDocument(held) /\ Validate(held)
    /\ DOMAIN doc.notes \subseteq used /\ used \subseteq Notes
    /\ edits \in 0..MaxEdits

\* "Validate checks the complete topology aggregate and all cross-references":
\* a handler that leaves one reference behind has its request refused.  What is
\* there can always be deleted, while VLAN 1 is there; and a document that was
\* stored once can be stored again, as undo and backups do, whatever was
\* commented or photographed since.
NeverRefused ==
    /\ \A r \in DOMAIN doc.racks : Validate(Pruned(WithoutRack(doc, r)))
    /\ \A d \in DOMAIN doc.devices : Validate(Pruned(WithoutDevice(doc, d)))
    /\ \A l \in DOMAIN doc.links : Validate(Pruned(WithoutLink(doc, l)))
    /\ 1 \in doc.vlans => \A v \in doc.vlans \ {1} : Validate(Pruned(WithoutVlan(doc, v)))
    /\ Validate(Pruned([held EXCEPT !.notes = NotesKept(held)]))

Ids(t) ==
    DOMAIN t.racks \cup DOMAIN t.devices \cup DOMAIN t.ports \cup DOMAIN t.links
    \cup DOMAIN t.groups \cup DOMAIN t.teams \cup DOMAIN t.notes

\* What has to go with the things of S: cables at their ports, groups and teams
\* with fewer than two members left, notes about them.
HangsOn(t, x, S) ==
    \/ x \in DOMAIN t.links /\ Ends(t.links[x]) \cap S # {}
    \/ x \in DOMAIN t.groups /\ ~Several(t.groups[x].members \ S)
    \/ x \in DOMAIN t.teams /\ ~Several(t.teams[x].members \ S)
    \/ x \in DOMAIN t.notes /\ t.notes[x].target \in S

\* deleteRack, deleteDevice, deleteLink and the prunings after every edit: an
\* edit other than a replacement removes one thing, or ports of one device, and
\* beyond that only what hangs on it.
OnlyDependentsGo ==
    [][LET lost == Ids(doc) \ Ids(doc') IN
       \/ Replacements
       \/ lost = {}
       \/ \E root \in Ids(doc) : \A x \in lost :
             \/ x = root
             \/ x \in DOMAIN doc.ports /\ doc.ports[x].device = root
             \/ HangsOn(doc, x, lost)]_vars

\* "Comment threads are likewise managed only by the comment endpoints": a
\* comment or a photo that was removed does not come back with an undo, a backup
\* or any other body, and none appears under an id that was in use.
GoneForGood ==
    [][\A n \in DOMAIN doc'.notes \ DOMAIN doc.notes :
          doc'.notes[n].type # "documentation" => n \notin used]_vars
=============================================================================
