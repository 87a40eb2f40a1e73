--------------------------- MODULE DocumentProofs ---------------------------
(***************************************************************************)
(* Proofs about the document of a map, its photos and its analysis, for any*)
(* number of racks, devices, ports, cables, groups, teams, notes, VLANs and*)
(* requests.                                                               *)
(*                                                                         *)
(* A handler either keeps all there is, or deletes one thing.  Each of the *)
(* deletions is shown to leave a document that Validate accepts once its   *)
(* notes are pruned (the lemmas ...Sound and ...Is), and to take only what *)
(* hangs on what it takes (the lemmas ...Orderly); each handler is shown   *)
(* to compute a document of the right type with notes of the stored one,   *)
(* documentation, or notes with new ids (the lemmas ...Fair).              *)
(*                                                                         *)
(* The analysis of a typed document with valid references is right: first  *)
(* what a breadth-first search comes to (SearchIsRight), then what follows *)
(* for components, trees and roles, for a cable taken away, for paths, and *)
(* for warnings (AnalysesAreRight).                                        *)
(***************************************************************************)
EXTENDS Analysis, Media, SequenceTheorems, FiniteSetTheorems, WellFoundedInduction, TLAPS

-----------------------------------------------------------------------------
(* Documents.                                                               *)

\* A document without its references.
IsRecord(t) ==
    t = [rooms |-> t.rooms, vlans |-> t.vlans, annotations |-> t.annotations,
         racks |-> t.racks, devices |-> t.devices, ports |-> t.ports, links |-> t.links,
         groups |-> t.groups, teams |-> t.teams, notes |-> t.notes]

\* What Validate demands of everything but the notes.
Sound(t) ==
    /\ PlacementsValid(t) /\ PortsValid(t) /\ LinksValid(t)
    /\ GroupsValid(t) /\ TeamsValid(t)

\* Two documents differ in the fields of F at most.
Fields ==
    {"rooms", "vlans", "annotations", "racks", "devices", "ports", "links", "groups", "teams",
     "notes"}
Same(t, u, F) == \A f \in Fields \ F : u[f] = t[f]

-----------------------------------------------------------------------------
(* Tables.                                                                  *)

\* An entry more, or another one; entries less.
LEMMA WithTable ==
    ASSUME NEW S, NEW T, NEW f, IsTable(f, S, T), NEW x \in S, NEW v \in T
    PROVE  /\ IsTable(With(f, x, v), S, T) /\ DOMAIN With(f, x, v) = DOMAIN f \cup {x}
           /\ With(f, x, v)[x] = v /\ \A y \in DOMAIN f : y # x => With(f, x, v)[y] = f[y]
BY DEF IsTable, With

LEMMA WithoutTable ==
    ASSUME NEW S, NEW T, NEW f, IsTable(f, S, T), NEW R
    PROVE  /\ IsTable(Without(f, R), S, T) /\ DOMAIN Without(f, R) = DOMAIN f \ R
           /\ \A y \in DOMAIN f \ R : Without(f, R)[y] = f[y]
BY DEF IsTable, Without, Restrict

LEMMA UpdateTable ==
    ASSUME NEW S, NEW T, NEW f, IsTable(f, S, T), NEW x \in DOMAIN f, NEW v \in T
    PROVE  /\ IsTable([f EXCEPT ![x] = v], S, T) /\ DOMAIN [f EXCEPT ![x] = v] = DOMAIN f
           /\ [f EXCEPT ![x] = v][x] = v /\ \A y \in DOMAIN f : y # x => [f EXCEPT ![x] = v][y] = f[y]
BY DEF IsTable

-----------------------------------------------------------------------------
(* Pruning the notes.                                                       *)

LEMMA PrunedIs ==
    ASSUME NEW t, IsRecord(t), IsTable(t.notes, Notes, NoteRecords)
    PROVE  /\ IsRecord(Pruned(t)) /\ Same(t, Pruned(t), {"notes"})
           /\ DOMAIN Pruned(t).notes = {n \in DOMAIN t.notes : Attached(t, n)}
           /\ \A n \in DOMAIN Pruned(t).notes : Pruned(t).notes[n] = t.notes[n]
           /\ IsTable(Pruned(t).notes, Notes, NoteRecords)
<1>1. PICK kept : kept = {n \in DOMAIN t.notes : Attached(t, n)}
  OBVIOUS
<1>2. Pruned(t) = [t EXCEPT !.notes = Restrict(t.notes, kept)]
  BY <1>1 DEF Pruned
<1>3. IsRecord(Pruned(t)) /\ Same(t, Pruned(t), {"notes"}) /\ Pruned(t).notes = Restrict(t.notes, kept)
  BY <1>2 DEF IsRecord, Same, Fields
<1>4. QED
  BY <1>1, <1>3 DEF Restrict, IsTable

\* What Validate demands of the rest does not depend on notes.
LEMMA SoundWithoutNotes ==
    ASSUME NEW t, NEW u, Same(t, u, {"notes"})
    PROVE  /\ Sound(t) => Sound(u)
           /\ \A type : Targets(u, type) = Targets(t, type)
<1>1. PlacementsValid(t) => PlacementsValid(u)
  BY DEF Same, Fields, PlacementsValid
<1>2. PortsValid(t) => PortsValid(u)
  BY DEF Same, Fields, PortsValid
<1>3. LinksValid(t) => LinksValid(u)
  BY DEF Same, Fields, LinksValid, LinkValid
<1>4. GroupsValid(t) => GroupsValid(u)
  BY DEF Same, Fields, GroupsValid, GroupValid
<1>5. TeamsValid(t) => TeamsValid(u)
  BY DEF Same, Fields, TeamsValid, TeamValid
<1>6. \A type : Targets(u, type) = Targets(t, type)
  BY DEF Same, Fields, Targets
<1>7. QED
  BY <1>1, <1>2, <1>3, <1>4, <1>5, <1>6 DEF Sound

\* Pruning leaves a valid document, when the rest is.
LEMMA PruningValidates ==
    ASSUME NEW t, IsDocument(t), Sound(t)
    PROVE  Validate(Pruned(t))
<1>1. /\ Same(t, Pruned(t), {"notes"})
      /\ DOMAIN Pruned(t).notes = {n \in DOMAIN t.notes : Attached(t, n)}
      /\ \A n \in DOMAIN Pruned(t).notes : Pruned(t).notes[n] = t.notes[n]
  BY PrunedIs DEF IsDocument, IsRecord
<1>2. Sound(Pruned(t)) /\ \A type : Targets(Pruned(t), type) = Targets(t, type)
  BY <1>1, SoundWithoutNotes
<1>3. NotesValid(Pruned(t))
  BY <1>1, <1>2 DEF NotesValid, Attached
<1>4. QED
  BY <1>2, <1>3 DEF Validate, Sound

LEMMA PruningTyped == ASSUME NEW t, IsDocument(t) PROVE IsDocument(Pruned(t))
BY PrunedIs DEF IsDocument, IsRecord, Same, Fields

-----------------------------------------------------------------------------
(* Pruning groups and teams.                                                *)

\* The groups of t that keep two cables, without the cables that went.
LEMMA PrunedGroupsAre ==
    ASSUME NEW t, IsRecord(t), IsTable(t.groups, Groups, GroupRecords)
    PROVE  /\ IsRecord(PrunedGroups(t))
           /\ Same(t, PrunedGroups(t), {"groups"})
           /\ IsTable(PrunedGroups(t).groups, Groups, GroupRecords)
           /\ \A g : g \in DOMAIN PrunedGroups(t).groups <=>
                        g \in DOMAIN t.groups /\ Several(t.groups[g].members \cap DOMAIN t.links)
           /\ \A g \in DOMAIN PrunedGroups(t).groups :
                 /\ PrunedGroups(t).groups[g].members = t.groups[g].members \cap DOMAIN t.links
                 /\ PrunedGroups(t).groups[g].primary \in PrunedGroups(t).groups[g].members \cup {None}
<1>0. PICK rest : rest = [g \in DOMAIN t.groups |-> t.groups[g].members \cap DOMAIN t.links]
  OBVIOUS
<1>1. PICK groups : groups = [g \in {g \in DOMAIN t.groups : Several(rest[g])} |->
                                 [members |-> rest[g], primary |-> PrimaryOf(t.groups[g], rest[g])]]
  OBVIOUS
<1>2. PrunedGroups(t) = [t EXCEPT !.groups = groups]
  <2>1. {g \in DOMAIN t.groups : Several(t.groups[g].members \cap DOMAIN t.links)}
        = {g \in DOMAIN t.groups : Several(rest[g])}
    BY <1>0
  <2>2. [g \in {g \in DOMAIN t.groups : Several(t.groups[g].members \cap DOMAIN t.links)} |->
            [members |-> t.groups[g].members \cap DOMAIN t.links,
             primary |-> PrimaryOf(t.groups[g], t.groups[g].members \cap DOMAIN t.links)]]
        = groups
    BY <1>0, <1>1, <2>1
  <2>3. QED
    BY <2>2 DEF PrunedGroups
<1>3. ASSUME NEW g \in DOMAIN t.groups, Several(rest[g])
      PROVE  /\ rest[g] \subseteq Links
             /\ PrimaryOf(t.groups[g], rest[g]) \in rest[g] \cup {None}
             /\ PrimaryOf(t.groups[g], rest[g]) \in Links \cup {None}
  <2>1. rest[g] \subseteq Links /\ t.groups[g] \in GroupRecords
    BY <1>0 DEF IsTable, GroupRecords
  <2>2. \E l \in rest[g] : TRUE
    BY <1>3 DEF Several
  <2>3. (CHOOSE l \in rest[g] : TRUE) \in rest[g]
    BY <2>2
  <2>4. QED
    BY <2>1, <2>3 DEF PrimaryOf
<1>4. PICK new : new = PrunedGroups(t)
  OBVIOUS
<1>5. /\ IsRecord(new) /\ new.groups = groups
      /\ Same(t, new, {"groups"})
  BY <1>2, <1>4 DEF IsRecord, Same, Fields
<1>6. /\ DOMAIN groups = {g \in DOMAIN t.groups : Several(rest[g])}
      /\ \A g \in DOMAIN groups : groups[g].members = rest[g] /\ groups[g].primary \in rest[g] \cup {None}
  BY <1>1, <1>3
<1>7. IsTable(groups, Groups, GroupRecords)
  <2>1. DOMAIN groups \subseteq Groups
    BY <1>6 DEF IsTable
  <2>2. \A g \in DOMAIN groups : groups[g] \in GroupRecords
    BY <1>1, <1>3 DEF GroupRecords
  <2>3. groups \in [DOMAIN groups -> GroupRecords]
    BY <1>1, <2>2
  <2>4. QED
    BY <2>1, <2>3 DEF IsTable
<1>8. QED
  BY <1>0, <1>4, <1>5, <1>6, <1>7

\* The teams of t that keep two members, without the devices that went.
LEMMA PrunedTeamsAre ==
    ASSUME NEW t, IsRecord(t), IsTable(t.teams, Teams, TeamRecords)
    PROVE  /\ IsRecord(PrunedTeams(t))
           /\ Same(t, PrunedTeams(t), {"teams"})
           /\ IsTable(PrunedTeams(t).teams, Teams, TeamRecords)
           /\ \A g : g \in DOMAIN PrunedTeams(t).teams <=>
                        g \in DOMAIN t.teams /\ Several(t.teams[g].members \cap DOMAIN t.devices)
           /\ \A g \in DOMAIN PrunedTeams(t).teams :
                 /\ PrunedTeams(t).teams[g].members = t.teams[g].members \cap DOMAIN t.devices
                 /\ PrunedTeams(t).teams[g].active \in PrunedTeams(t).teams[g].members \cup {None}
<1>0. PICK rest : rest = [g \in DOMAIN t.teams |-> t.teams[g].members \cap DOMAIN t.devices]
  OBVIOUS
<1> DEFINE ActiveOf(v, r) == IF v.active \in r \cup {None} THEN v.active ELSE CHOOSE d \in r : TRUE
<1>1. PICK teams : teams = [g \in {g \in DOMAIN t.teams : Several(rest[g])} |->
                                 [members |-> rest[g], active |-> ActiveOf(t.teams[g], rest[g])]]
  OBVIOUS
<1>2. PrunedTeams(t) = [t EXCEPT !.teams = teams]
  <2>1. {g \in DOMAIN t.teams : Several(t.teams[g].members \cap DOMAIN t.devices)}
        = {g \in DOMAIN t.teams : Several(rest[g])}
    BY <1>0
  <2>2. [g \in {g \in DOMAIN t.teams : Several(t.teams[g].members \cap DOMAIN t.devices)} |->
            [members |-> t.teams[g].members \cap DOMAIN t.devices,
             active |-> ActiveOf(t.teams[g], t.teams[g].members \cap DOMAIN t.devices)]]
        = teams
    BY <1>0, <1>1, <2>1
  <2>3. QED
    BY <2>2 DEF PrunedTeams
<1>3. ASSUME NEW g \in DOMAIN t.teams, Several(rest[g])
      PROVE  /\ rest[g] \subseteq Devices
             /\ ActiveOf(t.teams[g], rest[g]) \in rest[g] \cup {None}
             /\ ActiveOf(t.teams[g], rest[g]) \in Devices \cup {None}
  <2>1. rest[g] \subseteq Devices /\ t.teams[g] \in TeamRecords
    BY <1>0 DEF IsTable, TeamRecords
  <2>2. \E d \in rest[g] : TRUE
    BY <1>3 DEF Several
  <2>3. (CHOOSE d \in rest[g] : TRUE) \in rest[g]
    BY <2>2
  <2>4. QED
    BY <2>1, <2>3
<1>4. PICK new : new = PrunedTeams(t)
  OBVIOUS
<1>5. /\ IsRecord(new) /\ new.teams = teams
      /\ Same(t, new, {"teams"})
  BY <1>2, <1>4 DEF IsRecord, Same, Fields
<1>6. /\ DOMAIN teams = {g \in DOMAIN t.teams : Several(rest[g])}
      /\ \A g \in DOMAIN teams : teams[g].members = rest[g] /\ teams[g].active \in rest[g] \cup {None}
  BY <1>1, <1>3
<1>7. IsTable(teams, Teams, TeamRecords)
  <2>1. DOMAIN teams \subseteq Teams
    BY <1>6 DEF IsTable
  <2>2. \A g \in DOMAIN teams : teams[g] \in TeamRecords
    BY <1>1, <1>3 DEF TeamRecords
  <2>3. teams \in [DOMAIN teams -> TeamRecords]
    BY <1>1, <2>2
  <2>4. QED
    BY <2>1, <2>3 DEF IsTable
<1>8. QED
  BY <1>0, <1>4, <1>5, <1>6, <1>7

-----------------------------------------------------------------------------
(* Deletions.                                                               *)

\* The groups of a document that lost cables are valid again after pruning.
LEMMA GroupsPrune ==
    ASSUME NEW t, GroupsValid(t), IsTable(t.groups, Groups, GroupRecords),
           NEW u, u.groups = t.groups, DOMAIN u.links \subseteq DOMAIN t.links, IsRecord(u),
           \A l \in DOMAIN u.links : Ends(u.links[l]) = Ends(t.links[l])
    PROVE  GroupsValid(PrunedGroups(u))
<1>1. PICK new : new = PrunedGroups(u)
  OBVIOUS
<1>2. /\ new.links = u.links
      /\ \A g \in DOMAIN new.groups :
            /\ g \in DOMAIN t.groups /\ Several(t.groups[g].members \cap DOMAIN u.links)
            /\ new.groups[g].members = t.groups[g].members \cap DOMAIN u.links
            /\ new.groups[g].primary \in new.groups[g].members \cup {None}
  <2>1. IsTable(u.groups, Groups, GroupRecords)
    OBVIOUS
  <2>2. QED
    BY <1>1, <2>1, PrunedGroupsAre DEF Same, Fields
<1>3. ASSUME NEW g \in DOMAIN new.groups PROVE GroupValid(new, new.groups[g])
  <2>1. g \in DOMAIN t.groups /\ GroupValid(t, t.groups[g])
    BY <1>2 DEF GroupsValid
  <2>2. new.groups[g].members \subseteq DOMAIN new.links /\ Several(new.groups[g].members)
        /\ new.groups[g].primary \in new.groups[g].members \cup {None}
    BY <1>2
  <2>3. PICK before : before = UNION {Ends(t.links[l]) : l \in t.groups[g].members}
    OBVIOUS
  <2>4. PICK after : after = UNION {Ends(new.links[l]) : l \in new.groups[g].members}
    OBVIOUS
  <2>5. after \subseteq before
    BY <1>2, <2>1, <2>3, <2>4
  <2>6. before \subseteq Physical \/ before \cap Physical = {}
    BY <2>1, <2>3 DEF GroupValid
  <2>7. after \subseteq Physical \/ after \cap Physical = {}
    BY <2>5, <2>6
  <2>8. QED
    BY <2>2, <2>4, <2>7 DEF GroupValid
<1>4. ASSUME NEW g \in DOMAIN new.groups, NEW h \in DOMAIN new.groups, g # h
      PROVE  new.groups[g].members \cap new.groups[h].members = {}
  <2>1. t.groups[g].members \cap t.groups[h].members = {}
    BY <1>2, <1>4 DEF GroupsValid
  <2>2. QED
    BY <1>2, <2>1
<1>5. QED
  BY <1>1, <1>3, <1>4 DEF GroupsValid

\* And teams that lost devices.
LEMMA TeamsPrune ==
    ASSUME NEW t, TeamsValid(t), IsTable(t.teams, Teams, TeamRecords),
           NEW u, u.teams = t.teams, DOMAIN u.devices \subseteq DOMAIN t.devices, IsRecord(u),
           \A d \in DOMAIN u.devices : u.devices[d].kind = t.devices[d].kind
    PROVE  TeamsValid(PrunedTeams(u))
<1>1. PICK new : new = PrunedTeams(u)
  OBVIOUS
<1>2. /\ new.devices = u.devices
      /\ \A g \in DOMAIN new.teams :
            /\ g \in DOMAIN t.teams /\ Several(t.teams[g].members \cap DOMAIN u.devices)
            /\ new.teams[g].members = t.teams[g].members \cap DOMAIN u.devices
            /\ new.teams[g].active \in new.teams[g].members \cup {None}
  <2>1. IsTable(u.teams, Teams, TeamRecords)
    OBVIOUS
  <2>2. QED
    BY <1>1, <2>1, PrunedTeamsAre DEF Same, Fields
<1>3. ASSUME NEW g \in DOMAIN new.teams PROVE TeamValid(new, new.teams[g])
  <2>1. g \in DOMAIN t.teams /\ TeamValid(t, t.teams[g])
    BY <1>2 DEF TeamsValid
  <2>2. new.teams[g].members \subseteq DOMAIN new.devices /\ Several(new.teams[g].members)
        /\ new.teams[g].active \in new.teams[g].members \cup {None}
    BY <1>2
  <2>3. PICK kind \in TeamKinds : \A d \in t.teams[g].members : t.devices[d].kind = kind
    BY <2>1 DEF TeamValid
  <2>4. \A d \in new.teams[g].members : new.devices[d].kind = kind
    BY <1>2, <2>1, <2>3
  <2>5. QED
    BY <2>2, <2>4 DEF TeamValid
<1>4. ASSUME NEW g \in DOMAIN new.teams, NEW h \in DOMAIN new.teams, g # h
      PROVE  new.teams[g].members \cap new.teams[h].members = {}
  <2>1. t.teams[g].members \cap t.teams[h].members = {}
    BY <1>2, <1>4 DEF TeamsValid
  <2>2. QED
    BY <1>2, <2>1
<1>5. QED
  BY <1>1, <1>3, <1>4 DEF TeamsValid

\* deleteRack.
LEMMA WithoutRackIs ==
    ASSUME NEW t, IsDocument(t), NEW r \in DOMAIN t.racks
    PROVE  LET u == WithoutRack(t, r) IN
           /\ IsDocument(u)
           /\ Same(t, u, {"racks", "devices"})
           /\ DOMAIN u.racks = DOMAIN t.racks \ {r} /\ DOMAIN u.devices = DOMAIN t.devices
           /\ \A s \in DOMAIN u.racks : u.racks[s] = t.racks[s]
           /\ \A d \in DOMAIN u.devices :
                 /\ u.devices[d].kind = t.devices[d].kind
                 /\ t.devices[d].rack # r => u.devices[d] = t.devices[d]
                 /\ t.devices[d].rack = r =>
                       u.devices[d].rack = None /\ u.devices[d].unit = Unset /\ u.devices[d].room = t.racks[r].room
<1>1. PICK u : u = WithoutRack(t, r)
  OBVIOUS
<1>2. PICK devices : devices = [d \in DOMAIN t.devices |->
                  IF t.devices[d].rack = r
                  THEN [t.devices[d] EXCEPT !.rack = None, !.unit = Unset, !.room = t.racks[r].room]
                  ELSE t.devices[d]]
  OBVIOUS
<1>3. IsRecord(t)
  BY DEF IsDocument, IsRecord
<1>4. PICK racks : racks = Without(t.racks, {r})
  OBVIOUS
<1>5. /\ IsRecord(u) /\ u.racks = racks /\ u.devices = devices
      /\ Same(t, u, {"racks", "devices"})
  <2>1. u = [t EXCEPT !.racks = racks, !.devices = devices]
    BY <1>1, <1>2, <1>4 DEF WithoutRack
  <2>2. IsRecord(u)
    BY <1>3, <2>1 DEF IsRecord
  <2>3. u.racks = racks /\ u.devices = devices
    BY <1>3, <2>1 DEF IsRecord
  <2>4. /\ Same(t, u, {"racks", "devices"})
    BY <1>3, <2>1 DEF IsRecord, Same, Fields
  <2>5. QED
    BY <2>2, <2>3, <2>4
<1>6. /\ IsTable(u.racks, Racks, RackRecords) /\ DOMAIN u.racks = DOMAIN t.racks \ {r}
      /\ \A s \in DOMAIN u.racks : u.racks[s] = t.racks[s]
  <2>1. IsTable(t.racks, Racks, RackRecords)
    BY DEF IsDocument
  <2>2. QED
    BY <1>4, <1>5, <2>1, WithoutTable
<1>7. ASSUME NEW d \in DOMAIN t.devices
      PROVE  /\ devices[d] \in DeviceRecords /\ devices[d].kind = t.devices[d].kind
             /\ t.devices[d].rack # r => devices[d] = t.devices[d]
             /\ t.devices[d].rack = r =>
                   devices[d].rack = None /\ devices[d].unit = Unset /\ devices[d].room = t.racks[r].room
  <2>1. PICK old : old = t.devices[d]
    OBVIOUS
  <2>2. old \in DeviceRecords /\ t.racks[r].room \in Rooms \cup {None}
    BY <2>1 DEF IsDocument, IsTable, RackRecords
  <2>3. 0 \in 0..MaxHeight
    BY BoundsAssumption
  <2>4. CASE old.rack = r
    <3>1. devices[d] = [old EXCEPT !.rack = None, !.unit = Unset, !.room = t.racks[r].room]
      BY <1>2, <2>1, <2>4
    <3>2. QED
      BY <2>1, <2>2, <2>3, <2>4, <3>1 DEF DeviceRecords, Unset
  <2>5. CASE old.rack # r
    BY <1>2, <2>1, <2>2, <2>5
  <2>6. QED
    BY <2>4, <2>5
<1>8. IsTable(devices, Devices, DeviceRecords) /\ DOMAIN devices = DOMAIN t.devices
  BY <1>2, <1>7 DEF IsTable, IsDocument
<1>9. IsDocument(u)
  BY <1>5, <1>6, <1>8 DEF IsDocument, IsRecord, Same, Fields
<1>10. QED
  BY <1>1, <1>5, <1>6, <1>7, <1>8, <1>9

LEMMA WithoutRackSound ==
    ASSUME NEW t, IsDocument(t), Sound(t), NEW r \in DOMAIN t.racks
    PROVE  Sound(WithoutRack(t, r))
<1>1. PICK u : u = WithoutRack(t, r)
  OBVIOUS
<1>2. /\ Same(t, u, {"racks", "devices"})
      /\ DOMAIN u.racks = DOMAIN t.racks \ {r} /\ DOMAIN u.devices = DOMAIN t.devices
      /\ \A s \in DOMAIN u.racks : u.racks[s] = t.racks[s]
      /\ \A d \in DOMAIN u.devices :
            /\ u.devices[d].kind = t.devices[d].kind
            /\ t.devices[d].rack # r => u.devices[d] = t.devices[d]
            /\ t.devices[d].rack = r =>
                  u.devices[d].rack = None /\ u.devices[d].unit = Unset /\ u.devices[d].room = t.racks[r].room
  BY <1>1, WithoutRackIs
<1>3. PlacementsValid(u)
  <2>1. \A s \in DOMAIN u.racks : u.racks[s].room \in u.rooms \cup {None}
    BY <1>2 DEF Sound, PlacementsValid, Same, Fields
  <2>2. ASSUME NEW d \in DOMAIN u.devices
        PROVE  /\ u.devices[d].room \in u.rooms \cup {None}
               /\ \/ u.devices[d].rack = None /\ u.devices[d].unit = Unset
                  \/ u.devices[d].rack \in DOMAIN u.racks /\ u.devices[d].unit \in 1..u.racks[u.devices[d].rack].height
               /\ \A e \in DOMAIN u.devices \ {d} :
                     u.devices[e].rack = u.devices[d].rack /\ u.devices[d].rack # None
                     => u.devices[e].unit # u.devices[d].unit
    <3>1. CASE t.devices[d].rack = r
      BY <1>2, <3>1 DEF Sound, PlacementsValid, Same, Fields
    <3>2. CASE t.devices[d].rack # r
      <4>1. u.devices[d] = t.devices[d]
        BY <1>2, <3>2
      <4>2. \A e \in DOMAIN u.devices \ {d} :
               u.devices[e].rack = u.devices[d].rack /\ u.devices[d].rack # None
               => u.devices[e] = t.devices[e]
        BY <1>2, <4>1
      <4>3. QED
        BY <1>2, <3>2, <4>1, <4>2 DEF Sound, PlacementsValid, Same, Fields
    <3>3. QED
      BY <3>1, <3>2
  <2>3. QED
    BY <2>1, <2>2 DEF PlacementsValid
<1>4. PortsValid(u)
  BY <1>2 DEF Sound, PortsValid, Same, Fields
<1>5. LinksValid(u)
  <2>1. \A l \in DOMAIN t.links : LinkValid(t, t.links[l]) => LinkValid(u, t.links[l])
    BY <1>2 DEF LinkValid, Sound, PortsValid, Same, Fields
  <2>2. QED
    <3>1. u.links = t.links
      BY <1>2 DEF Same, Fields
    <3>2. QED
      BY <2>1, <3>1, <1>2 DEF LinksValid, Sound
<1>6. GroupsValid(u)
  BY <1>2 DEF Sound, GroupsValid, GroupValid, Same, Fields
<1>7. TeamsValid(u)
  <2>1. \A g \in DOMAIN t.teams : TeamValid(t, t.teams[g]) => TeamValid(u, t.teams[g])
    BY <1>2 DEF TeamValid
  <2>2. QED
    BY <1>2, <2>1 DEF Sound, TeamsValid, Same, Fields
<1>8. QED
  BY <1>1, <1>3, <1>4, <1>5, <1>6, <1>7 DEF Sound

\* Groups depend on links, teams on devices.
LEMMA GroupsSame ==
    ASSUME NEW t, NEW u, GroupsValid(t), u.groups = t.groups, u.links = t.links
    PROVE  GroupsValid(u)
BY DEF GroupsValid, GroupValid

LEMMA TeamsSame ==
    ASSUME NEW t, NEW u, TeamsValid(t), u.teams = t.teams, u.devices = t.devices
    PROVE  TeamsValid(u)
BY DEF TeamsValid, TeamValid

\* Fewer cables and ports, whose ends stay.
LEMMA FewerLinks ==
    ASSUME NEW t, IsDocument(t), LinksValid(t), NEW u,
           DOMAIN u.links \subseteq DOMAIN t.links,
           \A l \in DOMAIN u.links : u.links[l] = t.links[l] /\ Ends(t.links[l]) \subseteq DOMAIN u.ports,
           \A p \in DOMAIN u.ports :
              p \in DOMAIN t.ports /\ u.devices[u.ports[p].device].kind = t.devices[t.ports[p].device].kind,
           u.vlans = t.vlans
    PROVE  LinksValid(u)
<1>1. ASSUME NEW l \in DOMAIN u.links PROVE LinkValid(u, u.links[l])
  <2>1. LinkValid(t, t.links[l]) /\ u.links[l] = t.links[l] /\ Ends(t.links[l]) \subseteq DOMAIN u.ports
    BY DEF LinksValid
  <2>2. QED
    BY <2>1 DEF LinkValid
<1>2. ASSUME NEW l \in DOMAIN u.links, NEW m \in DOMAIN u.links, l # m, u.links[l].rear = u.links[m].rear
      PROVE  Ends(u.links[l]) \cap Ends(u.links[m]) = {}
  <2>1. u.links[l] = t.links[l] /\ u.links[m] = t.links[m] /\ l \in DOMAIN t.links /\ m \in DOMAIN t.links
    OBVIOUS
  <2>2. Ends(t.links[l]) \cap Ends(t.links[m]) = {}
    BY <1>2, <2>1 DEF LinksValid
  <2>3. QED
    BY <2>1, <2>2
<1>3. QED
  BY <1>1, <1>2 DEF LinksValid

\* deleteDevice.
LEMMA WithoutDeviceIs ==
    ASSUME NEW t, IsDocument(t), NEW d \in DOMAIN t.devices
    PROVE  LET u == WithoutDevice(t, d) IN
           /\ IsDocument(u)
           /\ Sound(t) => Sound(u)
           /\ Same(t, u, {"devices", "ports", "links", "groups", "teams"})
           /\ DOMAIN u.devices = DOMAIN t.devices \ {d}
           /\ DOMAIN u.ports = DOMAIN t.ports \ PortsOf(t, d)
           /\ \A l : l \in DOMAIN u.links <=> l \in DOMAIN t.links /\ Ends(t.links[l]) \cap PortsOf(t, d) = {}
           /\ \A g : g \in DOMAIN u.groups <=>
                        g \in DOMAIN t.groups /\ Several(t.groups[g].members \cap DOMAIN u.links)
           /\ \A g : g \in DOMAIN u.teams <=>
                        g \in DOMAIN t.teams /\ Several(t.teams[g].members \cap DOMAIN u.devices)
<1>1. PICK devices : devices = Without(t.devices, {d})
  OBVIOUS
<1>2. PICK ports : ports = Without(t.ports, PortsOf(t, d))
  OBVIOUS
<1>3. PICK cut : cut = {l \in DOMAIN t.links : Ends(t.links[l]) \cap PortsOf(t, d) # {}}
  OBVIOUS
<1>4. PICK links : links = Without(t.links, cut)
  OBVIOUS
<1>5. PICK u : u = [t EXCEPT !.devices = devices, !.ports = ports, !.links = links]
  OBVIOUS
<1>6. PICK v : v = PrunedGroups(u)
  OBVIOUS
<1>7. PICK w : w = PrunedTeams(v)
  OBVIOUS
<1>8. w = WithoutDevice(t, d)
  BY <1>1, <1>2, <1>3, <1>4, <1>5, <1>6, <1>7 DEF WithoutDevice
<1>9. IsRecord(u) /\ u.devices = devices /\ u.ports = ports /\ u.links = links
  BY <1>5 DEF IsDocument, IsRecord
<1>10. /\ Same(t, u, {"devices", "ports", "links"})
  BY <1>5 DEF IsDocument, IsRecord, Same, Fields
<1>11. /\ IsTable(t.devices, Devices, DeviceRecords) /\ IsTable(t.ports, Ports, PortRecords)
       /\ IsTable(t.links, Links, LinkRecords) /\ IsTable(t.groups, Groups, GroupRecords)
       /\ IsTable(t.teams, Teams, TeamRecords)
  BY DEF IsDocument
<1>12. /\ IsTable(devices, Devices, DeviceRecords) /\ DOMAIN devices = DOMAIN t.devices \ {d}
       /\ \A e \in DOMAIN devices : devices[e] = t.devices[e]
  <2>1. IsTable(t.devices, Devices, DeviceRecords)
    BY <1>11
  <2>2. IsTable(devices, Devices, DeviceRecords) /\ DOMAIN devices = DOMAIN t.devices \ {d}
    BY <1>1, <2>1, WithoutTable
  <2>3. \A e \in DOMAIN t.devices \ {d} : devices[e] = t.devices[e]
    BY <1>1 DEF Without, Restrict
  <2>4. QED
    BY <2>2, <2>3
<1>13. /\ IsTable(ports, Ports, PortRecords) /\ DOMAIN ports = DOMAIN t.ports \ PortsOf(t, d)
       /\ \A p \in DOMAIN ports : ports[p] = t.ports[p]
  <2>0. PICK own : own = PortsOf(t, d)
    OBVIOUS
  <2>1. IsTable(t.ports, Ports, PortRecords)
    BY <1>11
  <2>2. IsTable(ports, Ports, PortRecords) /\ DOMAIN ports = DOMAIN t.ports \ own
    BY <1>2, <2>0, <2>1 DEF Without, Restrict, IsTable
  <2>3. \A p \in DOMAIN t.ports \ own : ports[p] = t.ports[p]
    BY <1>2, <2>0 DEF Without, Restrict
  <2>4. QED
    BY <2>0, <2>2, <2>3
<1>14. /\ IsTable(links, Links, LinkRecords) /\ DOMAIN links = DOMAIN t.links \ cut
       /\ \A l \in DOMAIN links : links[l] = t.links[l]
  <2>1. IsTable(t.links, Links, LinkRecords)
    BY <1>11
  <2>2. IsTable(links, Links, LinkRecords) /\ DOMAIN links = DOMAIN t.links \ cut
    BY <1>4, <2>1 DEF Without, Restrict, IsTable
  <2>3. \A l \in DOMAIN t.links \ cut : links[l] = t.links[l]
    BY <1>4 DEF Without, Restrict
  <2>4. QED
    BY <2>2, <2>3
<1>15. \A l : l \in DOMAIN links <=> l \in DOMAIN t.links /\ Ends(t.links[l]) \cap PortsOf(t, d) = {}
  BY <1>3, <1>14
<1>16. /\ IsRecord(v) /\ Same(t, v, {"devices", "ports", "links", "groups"})
       /\ v.devices = devices /\ v.ports = ports /\ v.links = links
       /\ IsTable(v.groups, Groups, GroupRecords)
       /\ \A g : g \in DOMAIN v.groups <=>
                    g \in DOMAIN t.groups /\ Several(t.groups[g].members \cap DOMAIN links)
  <2>1. IsTable(u.groups, Groups, GroupRecords)
    BY <1>10, <1>11 DEF Same, Fields
  <2>2. QED
    <3>1. /\ IsRecord(v) /\ Same(u, v, {"groups"}) /\ IsTable(v.groups, Groups, GroupRecords)
          /\ \A g : g \in DOMAIN v.groups <=>
                       g \in DOMAIN u.groups /\ Several(u.groups[g].members \cap DOMAIN u.links)
      BY <1>6, <1>9, <2>1, PrunedGroupsAre
    <3>2. QED
      BY <1>9, <1>10, <3>1 DEF Same, Fields
<1>17. /\ IsRecord(w) /\ Same(t, w, {"devices", "ports", "links", "groups", "teams"})
       /\ w.devices = devices /\ w.ports = ports /\ w.links = links /\ w.groups = v.groups
       /\ IsTable(w.teams, Teams, TeamRecords)
       /\ \A g : g \in DOMAIN w.teams <=>
                    g \in DOMAIN t.teams /\ Several(t.teams[g].members \cap DOMAIN devices)
  <2>1. IsTable(v.teams, Teams, TeamRecords)
    BY <1>11, <1>16 DEF Same, Fields
  <2>2. QED
    <3>1. /\ IsRecord(w) /\ Same(v, w, {"teams"}) /\ IsTable(w.teams, Teams, TeamRecords)
          /\ \A g : g \in DOMAIN w.teams <=>
                       g \in DOMAIN v.teams /\ Several(v.teams[g].members \cap DOMAIN v.devices)
      BY <1>7, <1>16, <2>1, PrunedTeamsAre
    <3>2. QED
      BY <1>16, <3>1 DEF Same, Fields
<1>18. IsDocument(w)
  BY <1>12, <1>13, <1>14, <1>16, <1>17 DEF IsDocument, IsRecord, Same, Fields
<1>19. ASSUME Sound(t) PROVE Sound(w)
  <2>1. PlacementsValid(w)
    <3>1. \A r \in DOMAIN w.racks : w.racks[r].room \in w.rooms \cup {None}
      BY <1>17, <1>19 DEF Sound, PlacementsValid, Same, Fields
    <3>2. ASSUME NEW e \in DOMAIN w.devices
          PROVE  /\ w.devices[e].room \in w.rooms \cup {None}
                 /\ \/ w.devices[e].rack = None /\ w.devices[e].unit = Unset
                    \/ w.devices[e].rack \in DOMAIN w.racks /\ w.devices[e].unit \in 1..w.racks[w.devices[e].rack].height
                 /\ \A f \in DOMAIN w.devices \ {e} :
                       w.devices[f].rack = w.devices[e].rack /\ w.devices[e].rack # None
                       => w.devices[f].unit # w.devices[e].unit
      <4>1. /\ e \in DOMAIN t.devices /\ w.devices[e] = t.devices[e]
            /\ \A f \in DOMAIN w.devices : f \in DOMAIN t.devices /\ w.devices[f] = t.devices[f]
        BY <1>12, <1>17 DEF Same, Fields
      <4>2. QED
        BY <1>17, <1>19, <4>1 DEF Sound, PlacementsValid, Same, Fields
    <3>3. QED
      BY <3>1, <3>2 DEF PlacementsValid
  <2>2. PortsValid(w)
    <3>1. ASSUME NEW p \in DOMAIN w.ports
          PROVE  /\ w.ports[p].device \in DOMAIN w.devices
                 /\ w.ports[p].set.native \in w.vlans \cup {Unset} /\ w.ports[p].set.tagged \subseteq w.vlans
      <4>1. p \in DOMAIN t.ports /\ p \notin PortsOf(t, d) /\ w.ports[p] = t.ports[p]
        BY <1>13, <1>17 DEF Same, Fields
      <4>2. QED
        BY <1>12, <1>17, <1>19, <4>1 DEF Sound, PortsValid, PortsOf, Same, Fields
    <3>2. QED
      BY <3>1 DEF PortsValid
  <2>3. LinksValid(w)
    <3>1. \A l \in DOMAIN w.links : w.links[l] = t.links[l] /\ Ends(t.links[l]) \subseteq DOMAIN w.ports
      <4>1. \A l \in DOMAIN t.links : Ends(t.links[l]) \subseteq DOMAIN t.ports
        BY <1>19 DEF Sound, LinksValid, LinkValid
      <4>2. QED
        BY <1>13, <1>14, <1>15, <1>17, <4>1 DEF Same, Fields
    <3>2. \A p \in DOMAIN w.ports :
             p \in DOMAIN t.ports /\ w.devices[w.ports[p].device].kind = t.devices[t.ports[p].device].kind
      BY <1>12, <1>13, <1>17, <2>2 DEF PortsValid, Same, Fields
    <3>3. QED
      BY <1>14, <1>17, <1>19, <3>1, <3>2, FewerLinks DEF Sound, Same, Fields
  <2>4. GroupsValid(w)
    <3>1. GroupsValid(v)
      BY <1>6, <1>9, <1>10, <1>11, <1>14, <1>19, GroupsPrune DEF Sound, Same, Fields
    <3>2. QED
      BY <1>16, <1>17, <3>1, GroupsSame
  <2>5. TeamsValid(w)
    <3>1. DOMAIN v.devices \subseteq DOMAIN t.devices /\ \A e \in DOMAIN v.devices : v.devices[e].kind = t.devices[e].kind
      BY <1>12, <1>16 DEF Same, Fields
    <3>2. QED
      BY <1>7, <1>11, <1>16, <1>19, <3>1, TeamsPrune DEF Sound, Same, Fields
  <2>6. QED
    BY <2>1, <2>2, <2>3, <2>4, <2>5 DEF Sound
<1>20. QED
  BY <1>8, <1>12, <1>13, <1>15, <1>16, <1>17, <1>18, <1>19 DEF Same, Fields

\* The ports of some go up or down: nothing else changes.
LEMMA SwitchedIs ==
    ASSUME NEW t, IsDocument(t), NEW S, NEW on \in BOOLEAN, NEW u, u = Switched(t, S, on)
    PROVE  /\ IsDocument(u)
           /\ Same(t, u, {"ports"})
           /\ DOMAIN u.ports = DOMAIN t.ports
           /\ \A p \in DOMAIN t.ports :
                 /\ u.ports[p].device = t.ports[p].device
                 /\ u.ports[p].set.native = t.ports[p].set.native
                 /\ u.ports[p].set.tagged = t.ports[p].set.tagged
<1>1. PICK ports : ports = [p \in DOMAIN t.ports |->
                      IF p \in S THEN [t.ports[p] EXCEPT !.set.up = on] ELSE t.ports[p]]
  OBVIOUS
<1>3. u = [t EXCEPT !.ports = ports]
  BY <1>1 DEF Switched
<1>4. /\ IsRecord(u) /\ u.ports = ports
      /\ Same(t, u, {"ports"})
  BY <1>3 DEF IsDocument, IsRecord, Same, Fields
<1>5. ASSUME NEW p \in DOMAIN t.ports
      PROVE  /\ ports[p] \in PortRecords
             /\ ports[p].device = t.ports[p].device
             /\ ports[p].set.native = t.ports[p].set.native
             /\ ports[p].set.tagged = t.ports[p].set.tagged
  <2>1. PICK old : old = t.ports[p]
    OBVIOUS
  <2>2. old \in PortRecords
    BY <2>1 DEF IsDocument, IsTable
  <2>3. ports[p] = [old EXCEPT !.set.up = on] \/ ports[p] = old
    BY <1>1, <2>1
  <2>4. QED
    BY <2>1, <2>2, <2>3 DEF PortRecords, Settings
<1>6. IsTable(ports, Ports, PortRecords) /\ DOMAIN ports = DOMAIN t.ports
  BY <1>1, <1>5 DEF IsTable, IsDocument
<1>7. IsDocument(u)
  BY <1>4, <1>6 DEF IsDocument, IsRecord, Same, Fields
<1>8. QED
  BY <1>4, <1>5, <1>6, <1>7

\* A table entry less.
LEMMA LessLinks ==
    ASSUME NEW t, IsDocument(t), NEW R, NEW u, u = [t EXCEPT !.links = Without(t.links, R)]
    PROVE  /\ IsDocument(u)
           /\ Same(t, u, {"links"})
           /\ DOMAIN u.links = DOMAIN t.links \ R
           /\ \A l \in DOMAIN u.links : u.links[l] = t.links[l]
<1>1. PICK links : links = Without(t.links, R)
  OBVIOUS
<1>2. u = [t EXCEPT !.links = links]
  BY <1>1
<1>3. /\ IsRecord(u) /\ u.links = links
      /\ Same(t, u, {"links"})
  BY <1>2 DEF IsDocument, IsRecord, Same, Fields
<1>4. IsTable(t.links, Links, LinkRecords)
  BY DEF IsDocument
<1>5. /\ IsTable(links, Links, LinkRecords) /\ DOMAIN links = DOMAIN t.links \ R
      /\ \A l \in DOMAIN links : links[l] = t.links[l]
  BY <1>1, <1>4 DEF Without, Restrict, IsTable
<1>6. IsDocument(u)
  BY <1>3, <1>5 DEF IsDocument, IsRecord
<1>7. QED
  BY <1>3, <1>5, <1>6

\* deleteLink.
LEMMA WithoutLinkIs ==
    ASSUME NEW t, IsDocument(t), NEW l \in DOMAIN t.links
    PROVE  LET u == WithoutLink(t, l) IN
           /\ IsDocument(u)
           /\ Sound(t) => Sound(u)
           /\ Same(t, u, {"ports", "links", "groups"})
           /\ DOMAIN u.ports = DOMAIN t.ports /\ DOMAIN u.links = DOMAIN t.links \ {l}
           /\ \A g : g \in DOMAIN u.groups <=>
                        g \in DOMAIN t.groups /\ Several(t.groups[g].members \cap DOMAIN u.links)
<1>0. PICK R : R = {l}
  OBVIOUS
<1>1. PICK a : a = [t EXCEPT !.links = Without(t.links, R)]
  OBVIOUS
<1>2. PICK S : S = IF t.links[l].rear THEN {} ELSE Ends(t.links[l]) \ FrontEnds(a.links)
  OBVIOUS
<1>3. PICK b : b = Switched(a, S, FALSE)
  OBVIOUS
<1>4. PICK u : u = PrunedGroups(b)
  OBVIOUS
<1>5. u = WithoutLink(t, l)
  BY <1>0, <1>1, <1>2, <1>3, <1>4 DEF WithoutLink, Unplugged
<1>6. /\ IsDocument(a)
      /\ Same(t, a, {"links"})
      /\ DOMAIN a.links = DOMAIN t.links \ R
      /\ \A m \in DOMAIN a.links : a.links[m] = t.links[m]
  BY <1>1, LessLinks
<1>7. /\ IsDocument(b)
      /\ Same(a, b, {"ports"})
      /\ DOMAIN b.ports = DOMAIN a.ports
      /\ \A p \in DOMAIN a.ports :
            /\ b.ports[p].device = a.ports[p].device
            /\ b.ports[p].set.native = a.ports[p].set.native
            /\ b.ports[p].set.tagged = a.ports[p].set.tagged
  <2>1. \A on \in BOOLEAN : b = Switched(a, S, on) =>
      /\ IsDocument(b)
      /\ Same(a, b, {"ports"})
      /\ DOMAIN b.ports = DOMAIN a.ports
      /\ \A p \in DOMAIN a.ports :
            /\ b.ports[p].device = a.ports[p].device
            /\ b.ports[p].set.native = a.ports[p].set.native
            /\ b.ports[p].set.tagged = a.ports[p].set.tagged
    BY <1>6, SwitchedIs
  <2>2. FALSE \in BOOLEAN
    OBVIOUS
  <2>3. QED
    BY <1>3, <2>1, <2>2, Zenon
<1>8. /\ IsRecord(u)
      /\ Same(b, u, {"groups"})
      /\ IsTable(u.groups, Groups, GroupRecords)
      /\ \A g : g \in DOMAIN u.groups <=>
                   g \in DOMAIN b.groups /\ Several(b.groups[g].members \cap DOMAIN b.links)
  <2>1. IsRecord(b) /\ IsTable(b.groups, Groups, GroupRecords)
    BY <1>7 DEF IsDocument, IsRecord
  <2>2. QED
    BY <1>4, <2>1, PrunedGroupsAre
<1>9. IsDocument(u)
  BY <1>7, <1>8 DEF IsDocument, IsRecord, Same, Fields
<1>10. ASSUME Sound(t) PROVE Sound(u)
  <2>0. /\ u.rooms = t.rooms /\ u.vlans = t.vlans /\ u.racks = t.racks /\ u.devices = t.devices
        /\ u.teams = t.teams /\ u.links = a.links /\ DOMAIN u.ports = DOMAIN t.ports
        /\ \A p \in DOMAIN t.ports :
              /\ u.ports[p].device = t.ports[p].device
              /\ u.ports[p].set.native = t.ports[p].set.native
              /\ u.ports[p].set.tagged = t.ports[p].set.tagged
    BY <1>6, <1>7, <1>8 DEF Same, Fields
  <2>1. PlacementsValid(u)
    BY <1>10, <2>0 DEF Sound, PlacementsValid
  <2>2. PortsValid(u)
    BY <1>10, <2>0 DEF Sound, PortsValid
  <2>3. LinksValid(u)
    <3>1. \A m \in DOMAIN u.links : u.links[m] = t.links[m] /\ Ends(t.links[m]) \subseteq DOMAIN u.ports
      <4>1. \A m \in DOMAIN t.links : Ends(t.links[m]) \subseteq DOMAIN t.ports
        BY <1>10 DEF Sound, LinksValid, LinkValid
      <4>2. QED
        BY <1>6, <2>0, <4>1
    <3>2. \A p \in DOMAIN u.ports :
             p \in DOMAIN t.ports /\ u.devices[u.ports[p].device].kind = t.devices[t.ports[p].device].kind
      BY <2>0
    <3>3. DOMAIN u.links \subseteq DOMAIN t.links /\ u.vlans = t.vlans /\ LinksValid(t)
      BY <1>6, <1>10, <2>0 DEF Sound
    <3>4. QED
      BY <3>1, <3>2, <3>3, FewerLinks
  <2>4. GroupsValid(u)
    <3>1. IsTable(t.groups, Groups, GroupRecords) /\ IsRecord(b)
      BY <1>7 DEF IsDocument, IsRecord
    <3>2. b.groups = t.groups /\ DOMAIN b.links \subseteq DOMAIN t.links
      BY <1>6, <1>7 DEF Same, Fields
    <3>3. \A m \in DOMAIN b.links : Ends(b.links[m]) = Ends(t.links[m])
      BY <1>6, <1>7 DEF Same, Fields
    <3>4. QED
      BY <1>4, <1>10, <3>1, <3>2, <3>3, GroupsPrune DEF Sound
  <2>5. TeamsValid(u)
    BY <1>10, <2>0, TeamsSame DEF Sound
  <2>6. QED
    BY <2>1, <2>2, <2>3, <2>4, <2>5 DEF Sound
<1>11. QED
  BY <1>0, <1>5, <1>6, <1>7, <1>8, <1>9, <1>10 DEF Same, Fields

\* deleteVLAN.
LEMMA WithoutVlanIs ==
    ASSUME NEW t, IsDocument(t), NEW v \in t.vlans
    PROVE  LET u == WithoutVlan(t, v) IN
           /\ IsDocument(u)
           /\ Sound(t) /\ v # 1 /\ 1 \in t.vlans => Sound(u)
           /\ Same(t, u, {"vlans", "ports", "links"}) /\ u.vlans = t.vlans \ {v}
           /\ DOMAIN u.ports = DOMAIN t.ports /\ DOMAIN u.links = DOMAIN t.links
<1> DEFINE Native(w) == IF w = v THEN 1 ELSE w
<1>1. PICK ports : ports = [p \in DOMAIN t.ports |->
                  [t.ports[p] EXCEPT !.set.native = Native(t.ports[p].set.native),
                                     !.set.tagged = t.ports[p].set.tagged \ {v}]]
  OBVIOUS
<1>2. PICK links : links = [l \in DOMAIN t.links |->
                  [t.links[l] EXCEPT !.primary = Native(t.links[l].primary),
                                     !.vlans = t.links[l].vlans \ {v}]]
  OBVIOUS
<1>3. PICK vlans : vlans = t.vlans \ {v}
  OBVIOUS
<1>4. PICK u : u = WithoutVlan(t, v)
  OBVIOUS
<1>5. u = [t EXCEPT !.vlans = vlans, !.ports = ports, !.links = links]
  BY <1>1, <1>2, <1>3, <1>4 DEF WithoutVlan
<1>6. IsRecord(u) /\ u.vlans = vlans /\ u.ports = ports /\ u.links = links
  BY <1>5 DEF IsDocument, IsRecord
<1>7. /\ Same(t, u, {"vlans", "ports", "links"})
  BY <1>5 DEF IsDocument, IsRecord, Same, Fields
<1>8. ASSUME NEW p \in DOMAIN t.ports
      PROVE  /\ ports[p] \in PortRecords /\ ports[p].device = t.ports[p].device
             /\ ports[p].set.native = Native(t.ports[p].set.native)
             /\ ports[p].set.tagged = t.ports[p].set.tagged \ {v}
  <2>1. PICK old : old = t.ports[p]
    OBVIOUS
  <2>2. PICK native : native = Native(old.set.native)
    OBVIOUS
  <2>3. PICK tagged : tagged = old.set.tagged \ {v}
    OBVIOUS
  <2>4. ports[p] = [old EXCEPT !.set.native = native, !.set.tagged = tagged]
    BY <1>1, <2>1, <2>2, <2>3
  <2>5. old \in PortRecords
    BY <2>1 DEF IsDocument, IsTable
  <2>6. native \in Vlans \cup {Unset} /\ tagged \subseteq Vlans
    BY <2>2, <2>3, <2>5, VlansAssumption DEF PortRecords, Settings
  <2>7. ports[p] \in PortRecords
    BY <2>4, <2>5, <2>6 DEF PortRecords, Settings
  <2>8. ports[p].device = old.device /\ ports[p].set.native = native /\ ports[p].set.tagged = tagged
    BY <2>4, <2>5 DEF PortRecords, Settings
  <2>9. QED
    BY <2>1, <2>2, <2>3, <2>7, <2>8
<1>9. ASSUME NEW l \in DOMAIN t.links
      PROVE  /\ links[l] \in LinkRecords
             /\ links[l].source = t.links[l].source /\ links[l].target = t.links[l].target
             /\ links[l].rear = t.links[l].rear
             /\ links[l].primary = Native(t.links[l].primary)
             /\ links[l].vlans = t.links[l].vlans \ {v}
  <2>1. PICK old : old = t.links[l]
    OBVIOUS
  <2>2. PICK native : native = Native(old.primary)
    OBVIOUS
  <2>3. PICK tagged : tagged = old.vlans \ {v}
    OBVIOUS
  <2>4. links[l] = [old EXCEPT !.primary = native, !.vlans = tagged]
    BY <1>2, <2>1, <2>2, <2>3
  <2>5. old \in LinkRecords
    BY <2>1 DEF IsDocument, IsTable
  <2>6. native \in Vlans \cup {Unset} /\ tagged \subseteq Vlans
    BY <2>2, <2>3, <2>5, VlansAssumption DEF LinkRecords
  <2>7. links[l] \in LinkRecords
    BY <2>4, <2>5, <2>6 DEF LinkRecords
  <2>8. /\ links[l].source = old.source /\ links[l].target = old.target /\ links[l].rear = old.rear
        /\ links[l].primary = native /\ links[l].vlans = tagged
    BY <2>4, <2>5 DEF LinkRecords
  <2>9. QED
    BY <2>1, <2>2, <2>3, <2>7, <2>8
<1>10. IsTable(ports, Ports, PortRecords) /\ DOMAIN ports = DOMAIN t.ports
  BY <1>1, <1>8 DEF IsTable, IsDocument
<1>11. IsTable(links, Links, LinkRecords) /\ DOMAIN links = DOMAIN t.links
  BY <1>2, <1>9 DEF IsTable, IsDocument
<1>12. IsDocument(u)
  BY <1>3, <1>6, <1>7, <1>10, <1>11 DEF IsDocument, IsRecord, Same, Fields
<1>13. ASSUME Sound(t), v # 1, 1 \in t.vlans PROVE Sound(u)
  <2>0. \A w \in t.vlans \cup {Unset} : Native(w) \in vlans \cup {Unset}
    BY <1>3, <1>13
  <2>1. PlacementsValid(u)
    BY <1>7, <1>13 DEF Sound, PlacementsValid, Same, Fields
  <2>2. PortsValid(u)
    <3>1. ASSUME NEW p \in DOMAIN ports
          PROVE  /\ ports[p].device \in DOMAIN u.devices /\ ports[p].set.native \in vlans \cup {Unset}
                 /\ ports[p].set.tagged \subseteq vlans
      <4>1. /\ t.ports[p].device \in DOMAIN t.devices /\ t.ports[p].set.native \in t.vlans \cup {Unset}
            /\ t.ports[p].set.tagged \subseteq t.vlans
        BY <1>10, <1>13 DEF Sound, PortsValid
      <4>2. Native(t.ports[p].set.native) \in vlans \cup {Unset}
        BY <2>0, <4>1
      <4>3. QED
        BY <1>3, <1>7, <1>8, <1>10, <4>1, <4>2 DEF Same, Fields
    <3>2. QED
      BY <1>6, <3>1 DEF PortsValid
  <2>3. LinksValid(u)
    <3>1. ASSUME NEW l \in DOMAIN links PROVE LinkValid(u, links[l])
      <4>1. LinkValid(t, t.links[l])
        BY <1>11, <1>13 DEF Sound, LinksValid
      <4>2. Native(t.links[l].primary) \in vlans \cup {Unset}
        BY <2>0, <4>1 DEF LinkValid
      <4>3. Ends(links[l]) = Ends(t.links[l])
        BY <1>9, <1>11 DEF Ends
      <4>4. links[l].primary \in u.vlans \cup {Unset} /\ links[l].vlans \subseteq u.vlans
        BY <1>3, <1>6, <1>9, <1>11, <4>1, <4>2 DEF LinkValid
      <4>5. links[l].source # links[l].target /\ Ends(links[l]) \subseteq DOMAIN u.ports
        BY <1>6, <1>9, <1>10, <1>11, <4>1, <4>3 DEF LinkValid
      <4>6. links[l].rear => \A p \in Ends(links[l]) : u.devices[u.ports[p].device].kind = Panel
        BY <1>6, <1>7, <1>8, <1>9, <1>11, <4>1, <4>3 DEF LinkValid, Same, Fields
      <4>7. QED
        BY <4>4, <4>5, <4>6 DEF LinkValid
    <3>2. ASSUME NEW l \in DOMAIN links, NEW m \in DOMAIN links, l # m, links[l].rear = links[m].rear
          PROVE  Ends(links[l]) \cap Ends(links[m]) = {}
      <4>1. Ends(links[l]) = Ends(t.links[l]) /\ Ends(links[m]) = Ends(t.links[m])
        BY <1>9, <1>11 DEF Ends
      <4>2. QED
        BY <1>9, <1>11, <1>13, <3>2, <4>1 DEF Sound, LinksValid
    <3>3. QED
      BY <1>6, <3>1, <3>2 DEF LinksValid
  <2>4. GroupsValid(u)
    <3>1. ASSUME NEW g \in DOMAIN u.groups PROVE GroupValid(u, u.groups[g])
      <4>1. GroupValid(t, t.groups[g])
        BY <1>7, <1>13 DEF Sound, GroupsValid, Same, Fields
      <4>2. PICK before : before = UNION {Ends(t.links[l]) : l \in t.groups[g].members}
        OBVIOUS
      <4>3. PICK after : after = UNION {Ends(u.links[l]) : l \in t.groups[g].members}
        OBVIOUS
      <4>4. t.groups[g].members \subseteq DOMAIN t.links
        BY <4>1 DEF GroupValid
      <4>5. \A l \in t.groups[g].members : Ends(u.links[l]) = Ends(t.links[l])
        BY <1>6, <1>9, <4>4 DEF Ends
      <4>6. after \subseteq before
        BY <4>2, <4>3, <4>5
      <4>7. before \subseteq Physical \/ before \cap Physical = {}
        BY <4>1, <4>2 DEF GroupValid
      <4>8. after \subseteq Physical \/ after \cap Physical = {}
        BY <4>6, <4>7
      <4>9. QED
        BY <1>6, <1>7, <1>11, <4>1, <4>3, <4>8 DEF GroupValid, Same, Fields
    <3>2. QED
      BY <1>7, <1>13, <3>1 DEF Sound, GroupsValid, Same, Fields
  <2>5. TeamsValid(u)
    <3>1. u.teams = t.teams /\ u.devices = t.devices
      BY <1>7 DEF Same, Fields
    <3>2. QED
      BY <1>13, <3>1, TeamsSame DEF Sound
  <2>6. QED
    BY <2>1, <2>2, <2>3, <2>4, <2>5 DEF Sound
<1>14. QED
  BY <1>3, <1>4, <1>6, <1>7, <1>10, <1>11, <1>12, <1>13 DEF Same, Fields

-----------------------------------------------------------------------------
(* One table of a document replaced.                                        *)

LEMMA WithRacks ==
    ASSUME NEW t, IsDocument(t), NEW f, IsTable(f, Racks, RackRecords), NEW u, u = [t EXCEPT !.racks = f]
    PROVE  IsDocument(u) /\ u.racks = f /\ Same(t, u, {"racks"})
<1>1. IsRecord(u) /\ u.racks = f /\ Same(t, u, {"racks"})
  BY DEF IsDocument, IsRecord, Same, Fields
<1>2. QED
  BY <1>1 DEF IsDocument, IsRecord, Same, Fields

LEMMA WithPorts ==
    ASSUME NEW t, IsDocument(t), NEW f, IsTable(f, Ports, PortRecords), NEW u, u = [t EXCEPT !.ports = f]
    PROVE  IsDocument(u) /\ u.ports = f /\ Same(t, u, {"ports"})
<1>1. IsRecord(u) /\ u.ports = f /\ Same(t, u, {"ports"})
  BY DEF IsDocument, IsRecord, Same, Fields
<1>2. QED
  BY <1>1 DEF IsDocument, IsRecord, Same, Fields

LEMMA WithLinks ==
    ASSUME NEW t, IsDocument(t), NEW f, IsTable(f, Links, LinkRecords), NEW u, u = [t EXCEPT !.links = f]
    PROVE  IsDocument(u) /\ u.links = f /\ Same(t, u, {"links"})
<1>1. IsRecord(u) /\ u.links = f /\ Same(t, u, {"links"})
  BY DEF IsDocument, IsRecord, Same, Fields
<1>2. QED
  BY <1>1 DEF IsDocument, IsRecord, Same, Fields

LEMMA WithGroups ==
    ASSUME NEW t, IsDocument(t), NEW f, IsTable(f, Groups, GroupRecords), NEW u, u = [t EXCEPT !.groups = f]
    PROVE  IsDocument(u) /\ u.groups = f /\ Same(t, u, {"groups"})
<1>1. IsRecord(u) /\ u.groups = f /\ Same(t, u, {"groups"})
  BY DEF IsDocument, IsRecord, Same, Fields
<1>2. QED
  BY <1>1 DEF IsDocument, IsRecord, Same, Fields

LEMMA WithTeams ==
    ASSUME NEW t, IsDocument(t), NEW f, IsTable(f, Teams, TeamRecords), NEW u, u = [t EXCEPT !.teams = f]
    PROVE  IsDocument(u) /\ u.teams = f /\ Same(t, u, {"teams"})
<1>1. IsRecord(u) /\ u.teams = f /\ Same(t, u, {"teams"})
  BY DEF IsDocument, IsRecord, Same, Fields
<1>2. QED
  BY <1>1 DEF IsDocument, IsRecord, Same, Fields

LEMMA WithNotes ==
    ASSUME NEW t, IsDocument(t), NEW f, IsTable(f, Notes, NoteRecords), NEW u, u = [t EXCEPT !.notes = f]
    PROVE  IsDocument(u) /\ u.notes = f /\ Same(t, u, {"notes"})
<1>1. IsRecord(u) /\ u.notes = f /\ Same(t, u, {"notes"})
  BY DEF IsDocument, IsRecord, Same, Fields
<1>2. QED
  BY <1>1 DEF IsDocument, IsRecord, Same, Fields

LEMMA WithVlans ==
    ASSUME NEW t, IsDocument(t), NEW V, V \subseteq Vlans, NEW u, u = [t EXCEPT !.vlans = V]
    PROVE  IsDocument(u) /\ Same(t, u, {"vlans"})
<1>1. IsRecord(u) /\ u.vlans = V /\ Same(t, u, {"vlans"})
  BY DEF IsDocument, IsRecord, Same, Fields
<1>2. QED
  BY <1>1 DEF IsDocument, IsRecord, Same, Fields

LEMMA WithRooms ==
    ASSUME NEW t, IsDocument(t), NEW R, R \subseteq Rooms, NEW u, u = [t EXCEPT !.rooms = R]
    PROVE  IsDocument(u)
<1>1. IsRecord(u) /\ u.rooms = R /\ Same(t, u, {"rooms"})
  BY DEF IsDocument, IsRecord, Same, Fields
<1>2. QED
  BY <1>1 DEF IsDocument, IsRecord, Same, Fields

LEMMA WithAnnotations ==
    ASSUME NEW t, IsDocument(t), NEW A, A \subseteq Annotations, NEW u, u = [t EXCEPT !.annotations = A]
    PROVE  IsDocument(u)
<1>1. IsRecord(u) /\ u.annotations = A /\ Same(t, u, {"annotations"})
  BY DEF IsDocument, IsRecord, Same, Fields
<1>2. QED
  BY <1>1 DEF IsDocument, IsRecord, Same, Fields

-----------------------------------------------------------------------------
(* What is lost.                                                            *)

\* An id is of one kind.
LEMMA IdsApart ==
    ASSUME NEW u, IsDocument(u)
    PROVE  /\ \A x \in Racks : x \in Ids(u) <=> x \in DOMAIN u.racks
           /\ \A x \in Devices : x \in Ids(u) <=> x \in DOMAIN u.devices
           /\ \A x \in Ports : x \in Ids(u) <=> x \in DOMAIN u.ports
           /\ \A x \in Links : x \in Ids(u) <=> x \in DOMAIN u.links
           /\ \A x \in Groups : x \in Ids(u) <=> x \in DOMAIN u.groups
           /\ \A x \in Teams : x \in Ids(u) <=> x \in DOMAIN u.teams
           /\ \A x \in Notes : x \in Ids(u) <=> x \in DOMAIN u.notes
<1>1. /\ DOMAIN u.racks \subseteq Racks /\ DOMAIN u.devices \subseteq Devices
      /\ DOMAIN u.ports \subseteq Ports /\ DOMAIN u.links \subseteq Links
      /\ DOMAIN u.groups \subseteq Groups /\ DOMAIN u.teams \subseteq Teams
      /\ DOMAIN u.notes \subseteq Notes
  BY DEF IsDocument, IsTable
<1>2. \A x \in Racks : x \in Ids(u) <=> x \in DOMAIN u.racks
  BY <1>1, IdsAssumption DEF Ids
<1>3. \A x \in Devices : x \in Ids(u) <=> x \in DOMAIN u.devices
  BY <1>1, IdsAssumption DEF Ids
<1>4. \A x \in Ports : x \in Ids(u) <=> x \in DOMAIN u.ports
  BY <1>1, IdsAssumption DEF Ids
<1>5. \A x \in Links : x \in Ids(u) <=> x \in DOMAIN u.links
  BY <1>1, IdsAssumption DEF Ids
<1>6. \A x \in Groups : x \in Ids(u) <=> x \in DOMAIN u.groups
  BY <1>1, IdsAssumption DEF Ids
<1>7. \A x \in Teams : x \in Ids(u) <=> x \in DOMAIN u.teams
  BY <1>1, IdsAssumption DEF Ids
<1>8. \A x \in Notes : x \in Ids(u) <=> x \in DOMAIN u.notes
  BY <1>1, IdsAssumption DEF Ids
<1>9. QED
  BY <1>2, <1>3, <1>4, <1>5, <1>6, <1>7, <1>8

\* What goes, when t is what a handler makes of the document: nothing, or one
\* thing with what hangs on it.
Lost(t) == Ids(doc) \ Ids(Pruned(t))
GoesWith(x, root, gone) ==
    \/ x = root
    \/ x \in DOMAIN doc.ports /\ doc.ports[x].device = root
    \/ HangsOn(doc, x, gone)
Orderly(t) ==
    \/ Lost(t) = {}
    \/ \E root \in Ids(doc) : \A x \in Lost(t) : GoesWith(x, root, Lost(t))

\* The pruning takes the notes whose target goes.
LEMMA NotesHang ==
    ASSUME IsDocument(doc), Validate(doc), NEW t, IsDocument(t), doc.annotations \subseteq t.annotations,
           NEW n \in DOMAIN doc.notes, n \in DOMAIN t.notes, t.notes[n] = doc.notes[n],
           n \notin DOMAIN Pruned(t).notes
    PROVE  /\ doc.notes[n].target \in Lost(t)
           /\ \/ doc.notes[n].target \in DOMAIN doc.racks \ DOMAIN t.racks
              \/ doc.notes[n].target \in DOMAIN doc.devices \ DOMAIN t.devices
              \/ doc.notes[n].target \in DOMAIN doc.ports \ DOMAIN t.ports
              \/ doc.notes[n].target \in DOMAIN doc.links \ DOMAIN t.links
<1>1. PICK u : u = Pruned(t)
  OBVIOUS
<1>2. /\ IsDocument(u) /\ Same(t, u, {"notes"})
      /\ DOMAIN u.notes = {m \in DOMAIN t.notes : Attached(t, m)}
  <2>1. IsRecord(t) /\ IsTable(t.notes, Notes, NoteRecords)
    BY DEF IsDocument, IsRecord
  <2>2. QED
    BY <1>1, <2>1, PrunedIs, PruningTyped
<1>3. PICK x : x = doc.notes[n].target
  OBVIOUS
<1>4. PICK type : type = doc.notes[n].type
  OBVIOUS
<1>5. x \in Targets(doc, type) /\ x \notin Targets(t, type)
  BY <1>1, <1>2, <1>3, <1>4 DEF Validate, NotesValid, Attached
<1>6. \/ x \in DOMAIN doc.racks \ DOMAIN t.racks
      \/ x \in DOMAIN doc.devices \ DOMAIN t.devices
      \/ x \in DOMAIN doc.ports \ DOMAIN t.ports
      \/ x \in DOMAIN doc.links \ DOMAIN t.links
  BY <1>5 DEF Targets
<1>7. u.racks = t.racks /\ u.devices = t.devices /\ u.ports = t.ports /\ u.links = t.links
  BY <1>2 DEF Same, Fields
<1>8. /\ DOMAIN doc.racks \subseteq Racks /\ DOMAIN doc.devices \subseteq Devices
      /\ DOMAIN doc.ports \subseteq Ports /\ DOMAIN doc.links \subseteq Links
  BY DEF IsDocument, IsTable
<1>9. x \notin Ids(u)
  BY <1>2, <1>6, <1>7, <1>8, IdsApart
<1>10. x \in Ids(doc)
  BY <1>6 DEF Ids
<1>11. QED
  BY <1>1, <1>3, <1>6, <1>9, <1>10 DEF Lost

\* t holds all that the document holds.
Keeps(t) ==
    /\ DOMAIN doc.racks \subseteq DOMAIN t.racks /\ DOMAIN doc.devices \subseteq DOMAIN t.devices
    /\ DOMAIN doc.ports \subseteq DOMAIN t.ports /\ DOMAIN doc.links \subseteq DOMAIN t.links
    /\ DOMAIN doc.groups \subseteq DOMAIN t.groups /\ DOMAIN doc.teams \subseteq DOMAIN t.teams
    /\ doc.annotations \subseteq t.annotations
    /\ \A n \in DOMAIN doc.notes : n \in DOMAIN t.notes /\ t.notes[n] = doc.notes[n]

LEMMA KeepersLoseNothing ==
    ASSUME IsDocument(doc), Validate(doc), NEW t, IsDocument(t), Keeps(t)
    PROVE  Orderly(t)
<1>1. PICK u : u = Pruned(t)
  OBVIOUS
<1>2. Same(t, u, {"notes"})
  <2>1. IsRecord(t) /\ IsTable(t.notes, Notes, NoteRecords)
    BY DEF IsDocument, IsRecord
  <2>2. QED
    BY <1>1, <2>1, PrunedIs
<1>3. /\ u.racks = t.racks /\ u.devices = t.devices /\ u.ports = t.ports /\ u.links = t.links
      /\ u.groups = t.groups /\ u.teams = t.teams
  BY <1>2 DEF Same, Fields
<1>4. ASSUME NEW n \in DOMAIN doc.notes PROVE n \in DOMAIN u.notes
  BY <1>1, NotesHang DEF Keeps
<1>5. Ids(doc) \subseteq Ids(u)
  BY <1>3, <1>4 DEF Ids, Keeps
<1>6. QED
  BY <1>1, <1>5 DEF Orderly, Lost

\* A deletion is orderly when what goes beside the notes is the root, its ports
\* or hangs on what goes.
LEMMA DeletionOrderly ==
    ASSUME IsDocument(doc), Validate(doc), NEW t, IsDocument(t),
           t.annotations = doc.annotations, t.notes = doc.notes,
           NEW root \in Ids(doc),
           \A x \in Lost(t) : x \in DOMAIN doc.notes \/ GoesWith(x, root, Lost(t))
    PROVE  Orderly(t)
<1>1. ASSUME NEW x \in Lost(t), x \in DOMAIN doc.notes PROVE GoesWith(x, root, Lost(t))
  <2>1. IsDocument(Pruned(t)) /\ x \in Notes
    BY <1>1, PruningTyped DEF IsDocument, IsTable
  <2>2. x \notin DOMAIN Pruned(t).notes
    BY <2>1, IdsApart DEF Lost
  <2>3. doc.notes[x].target \in Lost(t)
    BY <1>1, <2>2, NotesHang
  <2>4. QED
    BY <1>1, <2>3 DEF GoesWith, HangsOn
<1>2. QED
  BY <1>1 DEF Orderly

\* The tables of what the handlers leave, but for the notes that are pruned.
LEMMA LostIs ==
    ASSUME IsDocument(doc), NEW t, IsDocument(t), NEW x \in Lost(t)
    PROVE  \/ x \in DOMAIN doc.racks \ DOMAIN t.racks
           \/ x \in DOMAIN doc.devices \ DOMAIN t.devices
           \/ x \in DOMAIN doc.ports \ DOMAIN t.ports
           \/ x \in DOMAIN doc.links \ DOMAIN t.links
           \/ x \in DOMAIN doc.groups \ DOMAIN t.groups
           \/ x \in DOMAIN doc.teams \ DOMAIN t.teams
           \/ x \in DOMAIN doc.notes
<1>1. PICK u : u = Pruned(t)
  OBVIOUS
<1>2. Same(t, u, {"notes"})
  <2>1. IsRecord(t) /\ IsTable(t.notes, Notes, NoteRecords)
    BY DEF IsDocument, IsRecord
  <2>2. QED
    BY <1>1, <2>1, PrunedIs
<1>3. x \in Ids(doc) /\ x \notin Ids(u)
  BY <1>1 DEF Lost
<1>4. QED
  BY <1>2, <1>3 DEF Ids, Same, Fields

\* And what is not in them is lost.
LEMMA GoneIsLost ==
    ASSUME IsDocument(doc), NEW t, IsDocument(t)
    PROVE  /\ \A x \in DOMAIN doc.devices : x \in DOMAIN t.devices <=> x \notin Lost(t)
           /\ \A x \in DOMAIN doc.ports : x \in DOMAIN t.ports <=> x \notin Lost(t)
           /\ \A x \in DOMAIN doc.links : x \in DOMAIN t.links <=> x \notin Lost(t)
<1>1. PICK u : u = Pruned(t)
  OBVIOUS
<1>2. IsDocument(u) /\ Same(t, u, {"notes"})
  <2>1. IsRecord(t) /\ IsTable(t.notes, Notes, NoteRecords)
    BY DEF IsDocument, IsRecord
  <2>2. QED
    BY <1>1, <2>1, PrunedIs, PruningTyped
<1>3. u.devices = t.devices /\ u.ports = t.ports /\ u.links = t.links
  BY <1>2 DEF Same, Fields
<1>4. /\ DOMAIN doc.devices \subseteq Devices /\ DOMAIN doc.ports \subseteq Ports
      /\ DOMAIN doc.links \subseteq Links
  BY DEF IsDocument, IsTable
<1>5. DOMAIN doc.devices \cup DOMAIN doc.ports \cup DOMAIN doc.links \subseteq Ids(doc)
  BY DEF Ids
<1>6. \A x : x \in Lost(t) <=> x \in Ids(doc) /\ x \notin Ids(u)
  BY <1>1 DEF Lost
<1>7. \A x \in Devices : x \in Ids(u) <=> x \in DOMAIN u.devices
  BY <1>2, IdsApart
<1>8. \A x \in Ports : x \in Ids(u) <=> x \in DOMAIN u.ports
  BY <1>2, IdsApart
<1>9. \A x \in Links : x \in Ids(u) <=> x \in DOMAIN u.links
  BY <1>2, IdsApart
<1>10. QED
  BY <1>3, <1>4, <1>5, <1>6, <1>7, <1>8, <1>9

\* Groups and teams that are pruned hang on the cables and devices that go.
LEMMA GroupsHang ==
    ASSUME IsDocument(doc), Validate(doc), NEW t, IsDocument(t), NEW g \in DOMAIN doc.groups,
           ~Several(doc.groups[g].members \cap DOMAIN t.links)
    PROVE  HangsOn(doc, g, Lost(t))
<1>1. doc.groups[g].members \subseteq DOMAIN doc.links
  BY DEF Validate, GroupsValid, GroupValid
<1>2. \A x \in DOMAIN doc.links : x \in DOMAIN t.links <=> x \notin Lost(t)
  BY GoneIsLost
<1>3. doc.groups[g].members \ Lost(t) \subseteq doc.groups[g].members \cap DOMAIN t.links
  BY <1>1, <1>2
<1>4. ~Several(doc.groups[g].members \ Lost(t))
  BY <1>3 DEF Several
<1>5. QED
  BY <1>4 DEF HangsOn

LEMMA TeamsHang ==
    ASSUME IsDocument(doc), Validate(doc), NEW t, IsDocument(t), NEW g \in DOMAIN doc.teams,
           ~Several(doc.teams[g].members \cap DOMAIN t.devices)
    PROVE  HangsOn(doc, g, Lost(t))
<1>1. doc.teams[g].members \subseteq DOMAIN doc.devices
  BY DEF Validate, TeamsValid, TeamValid
<1>2. \A x \in DOMAIN doc.devices : x \in DOMAIN t.devices <=> x \notin Lost(t)
  BY GoneIsLost
<1>3. doc.teams[g].members \ Lost(t) \subseteq doc.teams[g].members \cap DOMAIN t.devices
  BY <1>1, <1>2
<1>4. ~Several(doc.teams[g].members \ Lost(t))
  BY <1>3 DEF Several
<1>5. QED
  BY <1>4 DEF HangsOn

\* deleteRack, deleteDevice, deleteLink.
LEMMA RackOrderly ==
    ASSUME IsDocument(doc), Validate(doc), NEW r \in DOMAIN doc.racks
    PROVE  Orderly(WithoutRack(doc, r))
<1>1. PICK t : t = WithoutRack(doc, r)
  OBVIOUS
<1>2. /\ IsDocument(t) /\ Same(doc, t, {"racks", "devices"})
      /\ DOMAIN t.racks = DOMAIN doc.racks \ {r} /\ DOMAIN t.devices = DOMAIN doc.devices
  BY <1>1, WithoutRackIs
<1>3. /\ t.annotations = doc.annotations /\ t.notes = doc.notes /\ t.ports = doc.ports
      /\ t.links = doc.links /\ t.groups = doc.groups /\ t.teams = doc.teams
  BY <1>2 DEF Same, Fields
<1>4. ASSUME NEW x \in Lost(t) PROVE x \in DOMAIN doc.notes \/ GoesWith(x, r, Lost(t))
  BY <1>2, <1>3, LostIs DEF GoesWith
<1>5. r \in Ids(doc)
  BY DEF Ids
<1>6. QED
  BY <1>1, <1>2, <1>3, <1>4, <1>5, DeletionOrderly

LEMMA DeviceOrderly ==
    ASSUME IsDocument(doc), Validate(doc), NEW d \in DOMAIN doc.devices
    PROVE  Orderly(WithoutDevice(doc, d))
<1>1. PICK t : t = WithoutDevice(doc, d)
  OBVIOUS
<1>2. /\ IsDocument(t) /\ Same(doc, t, {"devices", "ports", "links", "groups", "teams"})
      /\ DOMAIN t.devices = DOMAIN doc.devices \ {d}
      /\ DOMAIN t.ports = DOMAIN doc.ports \ PortsOf(doc, d)
      /\ \A l : l \in DOMAIN t.links <=> l \in DOMAIN doc.links /\ Ends(doc.links[l]) \cap PortsOf(doc, d) = {}
      /\ \A g : g \in DOMAIN t.groups <=>
                   g \in DOMAIN doc.groups /\ Several(doc.groups[g].members \cap DOMAIN t.links)
      /\ \A g : g \in DOMAIN t.teams <=>
                   g \in DOMAIN doc.teams /\ Several(doc.teams[g].members \cap DOMAIN t.devices)
  BY <1>1, WithoutDeviceIs
<1>3. t.annotations = doc.annotations /\ t.notes = doc.notes /\ t.racks = doc.racks
  BY <1>2 DEF Same, Fields
<1>4. ASSUME NEW x \in Lost(t) PROVE x \in DOMAIN doc.notes \/ GoesWith(x, d, Lost(t))
  <2>1. CASE x \in DOMAIN doc.devices \ DOMAIN t.devices
    BY <1>2, <2>1 DEF GoesWith
  <2>2. CASE x \in DOMAIN doc.ports \ DOMAIN t.ports
    BY <1>2, <2>2 DEF GoesWith, PortsOf
  <2>3. CASE x \in DOMAIN doc.links \ DOMAIN t.links
    <3>1. Ends(doc.links[x]) \cap PortsOf(doc, d) # {}
      BY <1>2, <2>3
    <3>2. \A p \in DOMAIN doc.ports : p \in DOMAIN t.ports <=> p \notin Lost(t)
      BY <1>2, GoneIsLost
    <3>3. PortsOf(doc, d) \subseteq Lost(t)
      BY <1>2, <3>2 DEF PortsOf
    <3>4. QED
      BY <2>3, <3>1, <3>3 DEF GoesWith, HangsOn
  <2>4. CASE x \in DOMAIN doc.groups \ DOMAIN t.groups
    <3>1. ~Several(doc.groups[x].members \cap DOMAIN t.links)
      BY <1>2, <2>4
    <3>2. QED
      BY <1>2, <2>4, <3>1, GroupsHang DEF GoesWith
  <2>5. CASE x \in DOMAIN doc.teams \ DOMAIN t.teams
    <3>1. ~Several(doc.teams[x].members \cap DOMAIN t.devices)
      BY <1>2, <2>5
    <3>2. QED
      BY <1>2, <2>5, <3>1, TeamsHang DEF GoesWith
  <2>6. QED
    BY <1>2, <1>3, <2>1, <2>2, <2>3, <2>4, <2>5, LostIs
<1>5. d \in Ids(doc)
  BY DEF Ids
<1>6. QED
  BY <1>1, <1>2, <1>3, <1>4, <1>5, DeletionOrderly

LEMMA LinkOrderly ==
    ASSUME IsDocument(doc), Validate(doc), NEW l \in DOMAIN doc.links
    PROVE  Orderly(WithoutLink(doc, l))
<1>1. PICK t : t = WithoutLink(doc, l)
  OBVIOUS
<1>2. /\ IsDocument(t) /\ Same(doc, t, {"ports", "links", "groups"})
      /\ DOMAIN t.ports = DOMAIN doc.ports /\ DOMAIN t.links = DOMAIN doc.links \ {l}
      /\ \A g : g \in DOMAIN t.groups <=>
                   g \in DOMAIN doc.groups /\ Several(doc.groups[g].members \cap DOMAIN t.links)
  BY <1>1, WithoutLinkIs
<1>3. /\ t.annotations = doc.annotations /\ t.notes = doc.notes /\ t.racks = doc.racks
      /\ t.devices = doc.devices /\ t.teams = doc.teams
  BY <1>2 DEF Same, Fields
<1>4. ASSUME NEW x \in Lost(t) PROVE x \in DOMAIN doc.notes \/ GoesWith(x, l, Lost(t))
  <2>1. CASE x \in DOMAIN doc.links \ DOMAIN t.links
    BY <1>2, <2>1 DEF GoesWith
  <2>2. CASE x \in DOMAIN doc.groups \ DOMAIN t.groups
    <3>1. ~Several(doc.groups[x].members \cap DOMAIN t.links)
      BY <1>2, <2>2
    <3>2. QED
      BY <1>2, <2>2, <3>1, GroupsHang DEF GoesWith
  <2>3. QED
    BY <1>2, <1>3, <2>1, <2>2, LostIs
<1>5. l \in Ids(doc)
  BY DEF Ids
<1>6. QED
  BY <1>1, <1>2, <1>3, <1>4, <1>5, DeletionOrderly

\* One entry of groups, of teams or of notes goes; ports of a device go.
LEMMA OneOrderly ==
    ASSUME IsDocument(doc), Validate(doc), NEW t, IsDocument(t), t.annotations = doc.annotations,
           DOMAIN doc.racks \subseteq DOMAIN t.racks, DOMAIN doc.devices \subseteq DOMAIN t.devices,
           DOMAIN doc.links \subseteq DOMAIN t.links, DOMAIN doc.ports \subseteq DOMAIN t.ports,
           NEW root \in Ids(doc),
           DOMAIN doc.groups \ {root} \subseteq DOMAIN t.groups,
           DOMAIN doc.teams \ {root} \subseteq DOMAIN t.teams,
           \A n \in DOMAIN doc.notes \ {root} : n \in DOMAIN t.notes /\ t.notes[n] = doc.notes[n]
    PROVE  Orderly(t)
<1>1. ASSUME NEW x \in Lost(t) PROVE x = root
  <2>1. CASE x \in DOMAIN doc.notes /\ x # root
    <3>1. x \in DOMAIN Pruned(t).notes
      BY <2>1, NotesHang
    <3>2. QED
      BY <3>1 DEF Lost, Ids
  <2>2. QED
    BY <2>1, LostIs
<1>2. QED
  BY <1>1 DEF Orderly, GoesWith

LEMMA PortsOrderly ==
    ASSUME IsDocument(doc), Validate(doc), NEW t, IsDocument(t), NEW d \in DOMAIN doc.devices,
           Same(doc, t, {"devices", "ports"}), DOMAIN doc.devices \subseteq DOMAIN t.devices,
           DOMAIN doc.ports \ PortsOf(doc, d) \subseteq DOMAIN t.ports
    PROVE  Orderly(t)
<1>1. /\ t.annotations = doc.annotations /\ t.notes = doc.notes /\ t.racks = doc.racks
      /\ t.links = doc.links /\ t.groups = doc.groups /\ t.teams = doc.teams
  BY DEF Same, Fields
<1>2. ASSUME NEW x \in Lost(t) PROVE x \in DOMAIN doc.notes \/ GoesWith(x, d, Lost(t))
  BY <1>1, LostIs DEF GoesWith, PortsOf
<1>3. d \in Ids(doc)
  BY DEF Ids
<1>4. QED
  BY <1>1, <1>2, <1>3, DeletionOrderly

-----------------------------------------------------------------------------
(* What each handler makes of the document.                                 *)

\* The notes of t are those of the document, documentation, or have a new id.
NotesFrom(t) ==
    \A n \in DOMAIN t.notes :
        n \in DOMAIN doc.notes \/ t.notes[n].type = "documentation" \/ n \notin used

Fair(t) == IsDocument(t) /\ NotesFrom(t) /\ Orderly(t)
FairEdit == \E t : Commit(t) /\ Fair(t)

\* Handlers that keep what there is.
LEMMA KeeperFair ==
    ASSUME IsDocument(doc), Validate(doc), NEW t, IsDocument(t), Keeps(t), t.notes = doc.notes
    PROVE  Fair(t)
BY KeepersLoseNothing DEF Fair, NotesFrom

LEMMA RackStepsFair ==
    ASSUME IsDocument(doc), Validate(doc), NEW r \in Racks,
           \/ \E v \in RackInputs : CreateRack(r, v) \/ UpdateRack(r, v)
           \/ DeleteRack(r)
    PROVE  FairEdit
<1>1. IsTable(doc.racks, Racks, RackRecords)
  BY DEF IsDocument
<1>2. ASSUME NEW v \in RackInputs, CreateRack(r, v) PROVE FairEdit
  <2>1. PICK f : f = With(doc.racks, r, v)
    OBVIOUS
  <2>2. v \in RackRecords
    BY InputsAssumption
  <2>3. IsTable(f, Racks, RackRecords) /\ DOMAIN f = DOMAIN doc.racks \cup {r}
    BY <1>1, <2>1, <2>2, WithTable
  <2>4. PICK t : t = [doc EXCEPT !.racks = f]
    OBVIOUS
  <2>5. IsDocument(t) /\ t.racks = f /\ Same(doc, t, {"racks"})
    BY <2>3, <2>4, WithRacks
  <2>6. Keeps(t) /\ t.notes = doc.notes
    BY <2>3, <2>5 DEF Keeps, Same, Fields
  <2>7. Commit(t)
    BY <1>2, <2>1, <2>4 DEF CreateRack
  <2>8. QED
    BY <2>5, <2>6, <2>7, KeeperFair DEF FairEdit
<1>3. ASSUME NEW v \in RackInputs, UpdateRack(r, v) PROVE FairEdit
  <2>1. PICK f : f = [doc.racks EXCEPT ![r] = v]
    OBVIOUS
  <2>2. v \in RackRecords /\ r \in DOMAIN doc.racks
    BY <1>3, InputsAssumption DEF UpdateRack
  <2>3. IsTable(f, Racks, RackRecords) /\ DOMAIN f = DOMAIN doc.racks
    BY <1>1, <2>1, <2>2, UpdateTable
  <2>4. PICK t : t = [doc EXCEPT !.racks = f]
    OBVIOUS
  <2>5. IsDocument(t) /\ t.racks = f /\ Same(doc, t, {"racks"})
    BY <2>3, <2>4, WithRacks
  <2>6. Keeps(t) /\ t.notes = doc.notes
    BY <2>3, <2>5 DEF Keeps, Same, Fields
  <2>7. Commit(t)
    BY <1>3, <2>1, <2>4 DEF UpdateRack
  <2>8. QED
    BY <2>5, <2>6, <2>7, KeeperFair DEF FairEdit
<1>4. ASSUME DeleteRack(r) PROVE FairEdit
  <2>1. r \in DOMAIN doc.racks
    BY <1>4 DEF DeleteRack
  <2>2. PICK t : t = WithoutRack(doc, r)
    OBVIOUS
  <2>3. IsDocument(t) /\ Same(doc, t, {"racks", "devices"})
    BY <2>1, <2>2, WithoutRackIs
  <2>4. NotesFrom(t)
    BY <2>3 DEF NotesFrom, Same, Fields
  <2>5. Orderly(t)
    BY <2>1, <2>2, RackOrderly
  <2>6. Commit(t)
    BY <1>4, <2>2 DEF DeleteRack
  <2>7. QED
    BY <2>3, <2>4, <2>5, <2>6 DEF Fair, FairEdit
<1>5. QED
  BY <1>2, <1>3, <1>4

\* A device and its ports.
LEMMA PlacedDeviceIs ==
    ASSUME IsDocument(doc), NEW d \in Devices, NEW v \in DeviceInputs, NEW S \in PortSets,
           NEW set \in SettingInputs
    PROVE  LET t == PlacedDevice(d, v, S, set) IN
           /\ IsDocument(t) /\ Same(doc, t, {"devices", "ports"})
           /\ DOMAIN doc.devices \subseteq DOMAIN t.devices
           /\ DOMAIN doc.ports \ PortsOf(doc, d) \subseteq DOMAIN t.ports
<1>1. PICK devices : devices = With(doc.devices, d, v)
  OBVIOUS
<1>2. PICK there : there = (DOMAIN doc.ports \ PortsOf(doc, d)) \cup S
  OBVIOUS
<1>3. PICK ports : ports = [p \in there |->
                      IF p \in DOMAIN doc.ports THEN doc.ports[p] ELSE [device |-> d, set |-> set]]
  OBVIOUS
<1>4. PICK t : t = PlacedDevice(d, v, S, set)
  OBVIOUS
<1>5. t = [doc EXCEPT !.devices = devices, !.ports = ports]
  BY <1>1, <1>2, <1>3, <1>4 DEF PlacedDevice
<1>6. IsRecord(t) /\ t.devices = devices /\ t.ports = ports /\ Same(doc, t, {"devices", "ports"})
  BY <1>5 DEF IsDocument, IsRecord, Same, Fields
<1>7. v \in DeviceRecords /\ S \subseteq Ports /\ set \in Settings
  BY InputsAssumption
<1>8. IsTable(devices, Devices, DeviceRecords) /\ DOMAIN devices = DOMAIN doc.devices \cup {d}
  <2>1. IsTable(doc.devices, Devices, DeviceRecords)
    BY DEF IsDocument
  <2>2. v \in DeviceRecords
    BY <1>7
  <2>3. QED
    BY <1>1, <2>1, <2>2 DEF With, IsTable
<1>9. IsTable(ports, Ports, PortRecords) /\ DOMAIN ports = there
  <2>1. IsTable(doc.ports, Ports, PortRecords)
    BY DEF IsDocument
  <2>2. \A p \in there : ports[p] \in PortRecords
    <3>1. [device |-> d, set |-> set] \in PortRecords
      BY <1>7 DEF PortRecords
    <3>2. \A p \in DOMAIN doc.ports : doc.ports[p] \in PortRecords
      BY <2>1 DEF IsTable
    <3>3. QED
      BY <1>3, <3>1, <3>2
  <2>3. there \subseteq Ports
    BY <1>2, <1>7, <2>1 DEF IsTable
  <2>4. QED
    BY <1>3, <2>2, <2>3 DEF IsTable
<1>10. IsDocument(t)
  BY <1>6, <1>8, <1>9 DEF IsDocument, IsRecord, Same, Fields
<1>11. QED
  BY <1>2, <1>4, <1>6, <1>8, <1>9, <1>10

LEMMA DeviceStepsFair ==
    ASSUME IsDocument(doc), Validate(doc), NEW d \in Devices,
           \/ \E v \in DeviceInputs, S \in PortSets, set \in SettingInputs :
                 CreateDevice(d, v, S, set) \/ UpdateDevice(d, v, S, set)
           \/ DeleteDevice(d)
    PROVE  FairEdit
<1>1. ASSUME NEW v \in DeviceInputs, NEW S \in PortSets, NEW set \in SettingInputs,
             CreateDevice(d, v, S, set) \/ UpdateDevice(d, v, S, set)
      PROVE  FairEdit
  <2>1. PICK t : t = PlacedDevice(d, v, S, set)
    OBVIOUS
  <2>2. /\ IsDocument(t) /\ Same(doc, t, {"devices", "ports"})
        /\ DOMAIN doc.devices \subseteq DOMAIN t.devices
        /\ DOMAIN doc.ports \ PortsOf(doc, d) \subseteq DOMAIN t.ports
    BY <2>1, PlacedDeviceIs
  <2>3. Commit(t)
    BY <1>1, <2>1 DEF CreateDevice, UpdateDevice
  <2>4. NotesFrom(t)
    BY <2>2 DEF NotesFrom, Same, Fields
  <2>5. CASE CreateDevice(d, v, S, set)
    <3>1. PortsOf(doc, d) = {}
      BY <2>5 DEF CreateDevice, PortsOf, Validate, PortsValid
    <3>2. Keeps(t)
      BY <2>2, <3>1 DEF Keeps, Same, Fields
    <3>3. QED
      BY <2>2, <2>3, <2>4, <3>2, KeepersLoseNothing DEF Fair, FairEdit
  <2>6. CASE UpdateDevice(d, v, S, set)
    <3>1. d \in DOMAIN doc.devices
      BY <2>6 DEF UpdateDevice
    <3>2. Orderly(t)
      BY <2>2, <3>1, PortsOrderly
    <3>3. QED
      BY <2>2, <2>3, <2>4, <3>2 DEF Fair, FairEdit
  <2>7. QED
    BY <1>1, <2>5, <2>6
<1>2. ASSUME DeleteDevice(d) PROVE FairEdit
  <2>1. d \in DOMAIN doc.devices
    BY <1>2 DEF DeleteDevice
  <2>2. PICK t : t = WithoutDevice(doc, d)
    OBVIOUS
  <2>3. IsDocument(t) /\ Same(doc, t, {"devices", "ports", "links", "groups", "teams"})
    BY <2>1, <2>2, WithoutDeviceIs
  <2>4. NotesFrom(t)
    BY <2>3 DEF NotesFrom, Same, Fields
  <2>5. Orderly(t)
    BY <2>1, <2>2, DeviceOrderly
  <2>6. Commit(t)
    BY <1>2, <2>2 DEF DeleteDevice
  <2>7. QED
    BY <2>3, <2>4, <2>5, <2>6 DEF Fair, FairEdit
<1>3. QED
  BY <1>1, <1>2

LEMMA PortStepsFair ==
    ASSUME IsDocument(doc), Validate(doc), NEW p \in Ports, NEW set \in SettingInputs, UpdatePort(p, set)
    PROVE  FairEdit
<1>1. p \in DOMAIN doc.ports
  BY DEF UpdatePort
<1>2. PICK entry : entry = [doc.ports[p] EXCEPT !.set = set]
  OBVIOUS
<1>3. PICK f : f = [doc.ports EXCEPT ![p] = entry]
  OBVIOUS
<1>4. IsTable(f, Ports, PortRecords) /\ DOMAIN f = DOMAIN doc.ports
  <2>1. IsTable(doc.ports, Ports, PortRecords)
    BY DEF IsDocument
  <2>2. entry \in PortRecords
    BY <1>1, <1>2, <2>1, InputsAssumption DEF IsTable, PortRecords
  <2>3. QED
    BY <1>1, <1>3, <2>1, <2>2, UpdateTable
<1>5. PICK t : t = [doc EXCEPT !.ports = f]
  OBVIOUS
<1>6. IsDocument(t) /\ t.ports = f /\ Same(doc, t, {"ports"})
  BY <1>4, <1>5, WithPorts
<1>7. Keeps(t) /\ t.notes = doc.notes
  BY <1>4, <1>6 DEF Keeps, Same, Fields
<1>8. Commit(t)
  BY <1>2, <1>3, <1>5 DEF UpdatePort
<1>9. QED
  BY <1>6, <1>7, <1>8, KeeperFair DEF FairEdit

\* Ports that go up or down, in a document that keeps what there is.
LEMMA SwitchedKeeps ==
    ASSUME IsDocument(doc), NEW t, IsDocument(t), Keeps(t), t.notes = doc.notes,
           NEW S, NEW on \in BOOLEAN, NEW u, u = Switched(t, S, on)
    PROVE  IsDocument(u) /\ Keeps(u) /\ u.notes = doc.notes
<1>1. IsDocument(u) /\ Same(t, u, {"ports"}) /\ DOMAIN u.ports = DOMAIN t.ports
  BY SwitchedIs
<1>2. QED
  BY <1>1 DEF Keeps, Same, Fields

LEMMA UpKeeps ==
    ASSUME IsDocument(doc), NEW t, IsDocument(t), Keeps(t), t.notes = doc.notes,
           NEW S, NEW u, u = Switched(t, S, TRUE)
    PROVE  IsDocument(u) /\ Keeps(u) /\ u.notes = doc.notes
<1>1. \A on \in BOOLEAN : u = Switched(t, S, on) => IsDocument(u) /\ Keeps(u) /\ u.notes = doc.notes
  BY SwitchedKeeps
<1>2. TRUE \in BOOLEAN
  OBVIOUS
<1>3. QED
  BY <1>1, <1>2, Zenon

LEMMA DownKeeps ==
    ASSUME IsDocument(doc), NEW t, IsDocument(t), Keeps(t), t.notes = doc.notes,
           NEW S, NEW u, u = Switched(t, S, FALSE)
    PROVE  IsDocument(u) /\ Keeps(u) /\ u.notes = doc.notes
<1>1. \A on \in BOOLEAN : u = Switched(t, S, on) => IsDocument(u) /\ Keeps(u) /\ u.notes = doc.notes
  BY SwitchedKeeps
<1>2. FALSE \in BOOLEAN
  OBVIOUS
<1>3. QED
  BY <1>1, <1>2, Zenon

LEMMA CreateLinksFair ==
    ASSUME IsDocument(doc), Validate(doc), NEW S \in Batches, NEW new \in [S -> LinkInputs], CreateLinks(new)
    PROVE  FairEdit
<1>1. PICK f : f = [l \in DOMAIN doc.links \cup DOMAIN new |->
                       IF l \in DOMAIN new THEN new[l] ELSE doc.links[l]]
  OBVIOUS
<1>2. IsTable(f, Links, LinkRecords) /\ DOMAIN f = DOMAIN doc.links \cup S
  <2>1. S \subseteq Links /\ LinkInputs \subseteq LinkRecords
    BY InputsAssumption
  <2>2. QED
    BY <1>1, <2>1 DEF IsDocument, IsTable
<1>3. PICK t : t = [doc EXCEPT !.links = f]
  OBVIOUS
<1>4. IsDocument(t) /\ t.links = f /\ Same(doc, t, {"links"})
  BY <1>2, <1>3, WithLinks
<1>5. Keeps(t) /\ t.notes = doc.notes
  BY <1>2, <1>4 DEF Keeps, Same, Fields
<1>6. PICK u : u = Switched(t, FrontEnds(new), TRUE)
  OBVIOUS
<1>7. IsDocument(u) /\ Keeps(u) /\ u.notes = doc.notes
  BY <1>4, <1>5, <1>6, UpKeeps
<1>8. Commit(u)
  BY <1>1, <1>3, <1>6 DEF CreateLinks
<1>9. QED
  BY <1>7, <1>8, KeeperFair DEF FairEdit

LEMMA ConfigureFair ==
    ASSUME IsDocument(doc), Validate(doc), NEW l \in Links, NEW native \in Vlans, NEW tagged \in SUBSET Vlans,
           ConfigureLink(l, native, tagged)
    PROVE  FairEdit
<1>1. PICK ends : ends = UNION {Ends(doc.links[k]) : k \in Grouped(doc, l)}
  OBVIOUS
<1>2. PICK ports : ports = [p \in DOMAIN doc.ports |->
                  IF p \in ends
                  THEN [doc.ports[p] EXCEPT !.set.native = native, !.set.tagged = tagged \ {native}]
                  ELSE doc.ports[p]]
  OBVIOUS
<1>3. PICK links : links = [k \in DOMAIN doc.links |->
                  IF k \in Grouped(doc, l)
                  THEN [doc.links[k] EXCEPT !.primary = native, !.vlans = tagged \cup {native}]
                  ELSE doc.links[k]]
  OBVIOUS
<1>4. PICK t : t = Configured(doc, l, native, tagged)
  OBVIOUS
<1>5. t = [doc EXCEPT !.ports = ports, !.links = links]
  <2>1. ports = [p \in DOMAIN doc.ports |->
                    IF p \in UNION {Ends(doc.links[k]) : k \in Grouped(doc, l)}
                    THEN [doc.ports[p] EXCEPT !.set.native = native, !.set.tagged = tagged \ {native}]
                    ELSE doc.ports[p]]
    BY <1>1, <1>2
  <2>2. QED
    BY <1>3, <1>4, <2>1 DEF Configured
<1>6. IsRecord(t) /\ t.ports = ports /\ t.links = links /\ Same(doc, t, {"ports", "links"})
  <2>1. IsRecord(doc)
    BY DEF IsDocument, IsRecord
  <2>2. IsRecord(t) /\ t.ports = ports /\ t.links = links
    BY <1>5, <2>1 DEF IsRecord
  <2>3. Same(doc, t, {"ports", "links"})
    BY <1>5, <2>1 DEF IsRecord, Same, Fields
  <2>4. QED
    BY <2>2, <2>3
<1>7. ASSUME NEW p \in DOMAIN doc.ports PROVE ports[p] \in PortRecords
  <2>1. PICK old : old = doc.ports[p]
    OBVIOUS
  <2>2. PICK rest : rest = tagged \ {native}
    OBVIOUS
  <2>3. old \in PortRecords
    BY <2>1 DEF IsDocument, IsTable
  <2>4. rest \subseteq Vlans
    BY <2>2
  <2>5. CASE p \in ends
    <3>1. ports[p] = [old EXCEPT !.set.native = native, !.set.tagged = rest]
      BY <1>2, <2>1, <2>2, <2>5
    <3>2. QED
      BY <2>3, <2>4, <3>1 DEF PortRecords, Settings
  <2>6. CASE p \notin ends
    BY <1>2, <2>1, <2>3, <2>6
  <2>7. QED
    BY <2>5, <2>6
<1>8. ASSUME NEW k \in DOMAIN doc.links PROVE links[k] \in LinkRecords
  <2>1. PICK old : old = doc.links[k]
    OBVIOUS
  <2>2. PICK all : all = tagged \cup {native}
    OBVIOUS
  <2>3. old \in LinkRecords
    BY <2>1 DEF IsDocument, IsTable
  <2>4. all \subseteq Vlans
    BY <2>2
  <2>5. CASE k \in Grouped(doc, l)
    <3>1. links[k] = [old EXCEPT !.primary = native, !.vlans = all]
      BY <1>3, <2>1, <2>2, <2>5
    <3>2. QED
      BY <2>3, <2>4, <3>1 DEF LinkRecords
  <2>6. CASE k \notin Grouped(doc, l)
    BY <1>3, <2>1, <2>3, <2>6
  <2>7. QED
    BY <2>5, <2>6
<1>9. IsTable(ports, Ports, PortRecords) /\ DOMAIN ports = DOMAIN doc.ports
  BY <1>2, <1>7 DEF IsTable, IsDocument
<1>10. IsTable(links, Links, LinkRecords) /\ DOMAIN links = DOMAIN doc.links
  BY <1>3, <1>8 DEF IsTable, IsDocument
<1>11. IsDocument(t)
  BY <1>6, <1>9, <1>10 DEF IsDocument, IsRecord, Same, Fields
<1>12. Keeps(t) /\ t.notes = doc.notes
  BY <1>6, <1>9, <1>10 DEF Keeps, Same, Fields
<1>13. Commit(t)
  BY <1>4 DEF ConfigureLink
<1>14. QED
  BY <1>11, <1>12, <1>13, KeeperFair DEF FairEdit

LEMMA MovedEndTyped ==
    ASSUME NEW k \in LinkRecords, NEW p, NEW q \in Ports
    PROVE  MovedEnd(k, p, q) \in LinkRecords
BY DEF MovedEnd, LinkRecords

LEMMA RepatchFair ==
    ASSUME IsDocument(doc), Validate(doc), NEW l \in Links, NEW p \in Ports, NEW q \in Ports, RepatchLink(l, p, q)
    PROVE  FairEdit
<1>1. PICK at : at = Occupants(doc, l, q)
  OBVIOUS
<1>2. PICK f : f = [m \in DOMAIN doc.links |->
                     IF m = l THEN MovedEnd(doc.links[m], p, q)
                     ELSE IF m \in at THEN MovedEnd(doc.links[m], q, p) ELSE doc.links[m]]
  OBVIOUS
<1>3. IsTable(f, Links, LinkRecords) /\ DOMAIN f = DOMAIN doc.links
  <2>1. DOMAIN doc.links \subseteq Links /\ \A m \in DOMAIN doc.links : doc.links[m] \in LinkRecords
    BY DEF IsDocument, IsTable
  <2>2. ASSUME NEW m \in DOMAIN doc.links PROVE f[m] \in LinkRecords
    <3>1. doc.links[m] \in LinkRecords
      BY <2>1
    <3>2. MovedEnd(doc.links[m], p, q) \in LinkRecords
      BY <3>1, MovedEndTyped
    <3>3. MovedEnd(doc.links[m], q, p) \in LinkRecords
      BY <3>1, MovedEndTyped
    <3>4. QED
      BY <1>2, <3>1, <3>2, <3>3
  <2>3. QED
    BY <1>2, <2>1, <2>2 DEF IsTable
<1>4. PICK t : t = [doc EXCEPT !.links = f]
  OBVIOUS
<1>5. IsDocument(t) /\ t.links = f /\ Same(doc, t, {"links"})
  BY <1>3, <1>4, WithLinks
<1>6. Keeps(t) /\ t.notes = doc.notes
  BY <1>3, <1>5 DEF Keeps, Same, Fields
<1>7. PICK lit : lit = Switched(t, {q}, TRUE)
  OBVIOUS
<1>8. IsDocument(lit) /\ Keeps(lit) /\ lit.notes = doc.notes
  BY <1>5, <1>6, <1>7, UpKeeps
<1>9. PICK S : S = IF doc.links[l].rear THEN {} ELSE Ends(doc.links[l]) \ FrontEnds(lit.links)
  OBVIOUS
<1>10. PICK down : down = Switched(lit, S, FALSE)
  OBVIOUS
<1>11. IsDocument(down) /\ Keeps(down) /\ down.notes = doc.notes
  BY <1>8, <1>10, DownKeeps
<1>12. Commit(Repatched(doc, l, p, q))
  BY DEF RepatchLink
<1>13. Repatched(doc, l, p, q) = t \/ Repatched(doc, l, p, q) = down
  <2>1. down = Unplugged(Switched(t, {q}, TRUE), doc.links[l])
    BY <1>7, <1>9, <1>10 DEF Unplugged
  <2>2. QED
    BY <1>1, <1>2, <1>4, <2>1 DEF Repatched
<1>14. CASE Repatched(doc, l, p, q) = t
  BY <1>5, <1>6, <1>12, <1>14, KeeperFair DEF FairEdit
<1>15. CASE Repatched(doc, l, p, q) = down
  BY <1>11, <1>12, <1>15, KeeperFair DEF FairEdit
<1>16. QED
  BY <1>13, <1>14, <1>15

LEMMA TurnFair ==
    ASSUME IsDocument(doc), Validate(doc), NEW l \in Links, SetLinkDirection(l)
    PROVE  FairEdit
<1>1. l \in DOMAIN doc.links
  BY DEF SetLinkDirection
<1>2. PICK turned : turned = Turned(doc.links[l])
  OBVIOUS
<1>3. PICK f : f = [doc.links EXCEPT ![l] = turned]
  OBVIOUS
<1>4. IsTable(f, Links, LinkRecords) /\ DOMAIN f = DOMAIN doc.links
  <2>1. IsTable(doc.links, Links, LinkRecords)
    BY DEF IsDocument
  <2>2. turned \in LinkRecords
    BY <1>1, <1>2, <2>1 DEF IsTable, LinkRecords, Turned
  <2>3. QED
    BY <1>1, <1>3, <2>1, <2>2, UpdateTable
<1>5. PICK t : t = [doc EXCEPT !.links = f]
  OBVIOUS
<1>6. IsDocument(t) /\ t.links = f /\ Same(doc, t, {"links"})
  BY <1>4, <1>5, WithLinks
<1>7. Keeps(t) /\ t.notes = doc.notes
  BY <1>4, <1>6 DEF Keeps, Same, Fields
<1>8. Commit(t)
  BY <1>2, <1>3, <1>5 DEF SetLinkDirection
<1>9. QED
  BY <1>6, <1>7, <1>8, KeeperFair DEF FairEdit

LEMMA DeleteLinkFair ==
    ASSUME IsDocument(doc), Validate(doc), NEW l \in Links, DeleteLink(l)
    PROVE  FairEdit
<1>1. l \in DOMAIN doc.links
  BY DEF DeleteLink
<1>2. PICK t : t = WithoutLink(doc, l)
  OBVIOUS
<1>3. IsDocument(t) /\ Same(doc, t, {"ports", "links", "groups"})
  BY <1>1, <1>2, WithoutLinkIs
<1>4. NotesFrom(t)
  BY <1>3 DEF NotesFrom, Same, Fields
<1>5. Orderly(t)
  BY <1>1, <1>2, LinkOrderly
<1>6. Commit(t)
  BY <1>2 DEF DeleteLink
<1>7. QED
  BY <1>3, <1>4, <1>5, <1>6 DEF Fair, FairEdit

\* Groups of cables.
LEMMA GroupsFair ==
    ASSUME IsDocument(doc), Validate(doc), NEW g \in Groups,
           \/ \E v \in GroupInputs : CreateLinkGroup(g, v) \/ UpdateLinkGroup(g, v)
           \/ DeleteLinkGroup(g)
    PROVE  FairEdit
<1>1. IsTable(doc.groups, Groups, GroupRecords)
  BY DEF IsDocument
<1>2. ASSUME NEW v \in GroupInputs, CreateLinkGroup(g, v) PROVE FairEdit
  <2>1. PICK f : f = With(doc.groups, g, v)
    OBVIOUS
  <2>2. v \in GroupRecords
    BY InputsAssumption
  <2>3. IsTable(f, Groups, GroupRecords) /\ DOMAIN f = DOMAIN doc.groups \cup {g}
    BY <1>1, <2>1, <2>2 DEF With, IsTable
  <2>4. PICK t : t = [doc EXCEPT !.groups = f]
    OBVIOUS
  <2>5. IsDocument(t) /\ t.groups = f /\ Same(doc, t, {"groups"})
    BY <2>3, <2>4, WithGroups
  <2>6. Keeps(t) /\ t.notes = doc.notes
    BY <2>3, <2>5 DEF Keeps, Same, Fields
  <2>7. Commit(t)
    BY <1>2, <2>1, <2>4 DEF CreateLinkGroup
  <2>8. QED
    BY <2>5, <2>6, <2>7, KeeperFair DEF FairEdit
<1>3. ASSUME NEW v \in GroupInputs, UpdateLinkGroup(g, v) PROVE FairEdit
  <2>1. PICK f : f = [doc.groups EXCEPT ![g] = v]
    OBVIOUS
  <2>2. v \in GroupRecords /\ g \in DOMAIN doc.groups
    BY <1>3, InputsAssumption DEF UpdateLinkGroup
  <2>3. IsTable(f, Groups, GroupRecords) /\ DOMAIN f = DOMAIN doc.groups
    BY <1>1, <2>1, <2>2, UpdateTable
  <2>4. PICK t : t = [doc EXCEPT !.groups = f]
    OBVIOUS
  <2>5. IsDocument(t) /\ t.groups = f /\ Same(doc, t, {"groups"})
    BY <2>3, <2>4, WithGroups
  <2>6. Keeps(t) /\ t.notes = doc.notes
    BY <2>3, <2>5 DEF Keeps, Same, Fields
  <2>7. Commit(t)
    BY <1>3, <2>1, <2>4 DEF UpdateLinkGroup
  <2>8. QED
    BY <2>5, <2>6, <2>7, KeeperFair DEF FairEdit
<1>4. ASSUME DeleteLinkGroup(g) PROVE FairEdit
  <2>1. g \in DOMAIN doc.groups
    BY <1>4 DEF DeleteLinkGroup
  <2>2. PICK f : f = Without(doc.groups, {g})
    OBVIOUS
  <2>3. IsTable(f, Groups, GroupRecords) /\ DOMAIN f = DOMAIN doc.groups \ {g}
    BY <1>1, <2>2 DEF Without, Restrict, IsTable
  <2>4. PICK t : t = [doc EXCEPT !.groups = f]
    OBVIOUS
  <2>5. IsDocument(t) /\ t.groups = f /\ Same(doc, t, {"groups"})
    BY <2>3, <2>4, WithGroups
  <2>6. /\ t.annotations = doc.annotations /\ t.notes = doc.notes /\ t.racks = doc.racks
        /\ t.devices = doc.devices /\ t.ports = doc.ports /\ t.links = doc.links
        /\ t.teams = doc.teams
    BY <2>5 DEF Same, Fields
  <2>7. g \in Ids(doc)
    BY <2>1 DEF Ids
  <2>8. Orderly(t)
    BY <2>3, <2>5, <2>6, <2>7, OneOrderly
  <2>9. Commit(t)
    BY <1>4, <2>2, <2>4 DEF DeleteLinkGroup
  <2>10. QED
    BY <2>5, <2>6, <2>8, <2>9 DEF Fair, FairEdit, NotesFrom
<1>5. QED
  BY <1>2, <1>3, <1>4

\* Teams of devices.
LEMMA TeamsFair ==
    ASSUME IsDocument(doc), Validate(doc), NEW g \in Teams,
           \/ \E v \in TeamInputs : CreateTeam(g, v) \/ UpdateTeam(g, v)
           \/ DeleteTeam(g)
    PROVE  FairEdit
<1>1. IsTable(doc.teams, Teams, TeamRecords)
  BY DEF IsDocument
<1>2. ASSUME NEW v \in TeamInputs, CreateTeam(g, v) PROVE FairEdit
  <2>1. PICK f : f = With(doc.teams, g, v)
    OBVIOUS
  <2>2. v \in TeamRecords
    BY InputsAssumption
  <2>3. IsTable(f, Teams, TeamRecords) /\ DOMAIN f = DOMAIN doc.teams \cup {g}
    BY <1>1, <2>1, <2>2 DEF With, IsTable
  <2>4. PICK t : t = [doc EXCEPT !.teams = f]
    OBVIOUS
  <2>5. IsDocument(t) /\ t.teams = f /\ Same(doc, t, {"teams"})
    BY <2>3, <2>4, WithTeams
  <2>6. Keeps(t) /\ t.notes = doc.notes
    BY <2>3, <2>5 DEF Keeps, Same, Fields
  <2>7. Commit(t)
    BY <1>2, <2>1, <2>4 DEF CreateTeam
  <2>8. QED
    BY <2>5, <2>6, <2>7, KeeperFair DEF FairEdit
<1>3. ASSUME NEW v \in TeamInputs, UpdateTeam(g, v) PROVE FairEdit
  <2>1. PICK f : f = [doc.teams EXCEPT ![g] = v]
    OBVIOUS
  <2>2. v \in TeamRecords /\ g \in DOMAIN doc.teams
    BY <1>3, InputsAssumption DEF UpdateTeam
  <2>3. IsTable(f, Teams, TeamRecords) /\ DOMAIN f = DOMAIN doc.teams
    BY <1>1, <2>1, <2>2, UpdateTable
  <2>4. PICK t : t = [doc EXCEPT !.teams = f]
    OBVIOUS
  <2>5. IsDocument(t) /\ t.teams = f /\ Same(doc, t, {"teams"})
    BY <2>3, <2>4, WithTeams
  <2>6. Keeps(t) /\ t.notes = doc.notes
    BY <2>3, <2>5 DEF Keeps, Same, Fields
  <2>7. Commit(t)
    BY <1>3, <2>1, <2>4 DEF UpdateTeam
  <2>8. QED
    BY <2>5, <2>6, <2>7, KeeperFair DEF FairEdit
<1>4. ASSUME DeleteTeam(g) PROVE FairEdit
  <2>1. g \in DOMAIN doc.teams
    BY <1>4 DEF DeleteTeam
  <2>2. PICK f : f = Without(doc.teams, {g})
    OBVIOUS
  <2>3. IsTable(f, Teams, TeamRecords) /\ DOMAIN f = DOMAIN doc.teams \ {g}
    BY <1>1, <2>2 DEF Without, Restrict, IsTable
  <2>4. PICK t : t = [doc EXCEPT !.teams = f]
    OBVIOUS
  <2>5. IsDocument(t) /\ t.teams = f /\ Same(doc, t, {"teams"})
    BY <2>3, <2>4, WithTeams
  <2>6. /\ t.annotations = doc.annotations /\ t.notes = doc.notes /\ t.racks = doc.racks
        /\ t.devices = doc.devices /\ t.ports = doc.ports /\ t.links = doc.links
        /\ t.groups = doc.groups
    BY <2>5 DEF Same, Fields
  <2>7. g \in Ids(doc)
    BY <2>1 DEF Ids
  <2>8. Orderly(t)
    BY <2>3, <2>5, <2>6, <2>7, OneOrderly
  <2>9. Commit(t)
    BY <1>4, <2>2, <2>4 DEF DeleteTeam
  <2>10. QED
    BY <2>5, <2>6, <2>8, <2>9 DEF Fair, FairEdit, NotesFrom
<1>5. QED
  BY <1>2, <1>3, <1>4

\* VLANs.
LEMMA VlansFair ==
    ASSUME IsDocument(doc), Validate(doc), NEW v \in Vlans, CreateVLAN(v) \/ DeleteVLAN(v)
    PROVE  FairEdit
<1>1. ASSUME CreateVLAN(v) PROVE FairEdit
  <2>1. PICK V : V = doc.vlans \cup {v}
    OBVIOUS
  <2>2. V \subseteq Vlans
    BY <2>1 DEF IsDocument
  <2>3. PICK t : t = [doc EXCEPT !.vlans = V]
    OBVIOUS
  <2>4. IsDocument(t) /\ Same(doc, t, {"vlans"})
    BY <2>2, <2>3, WithVlans
  <2>5. Keeps(t) /\ t.notes = doc.notes
    BY <2>4 DEF Keeps, Same, Fields
  <2>6. Commit(t)
    BY <1>1, <2>1, <2>3 DEF CreateVLAN
  <2>7. QED
    BY <2>4, <2>5, <2>6, KeeperFair DEF FairEdit
<1>2. ASSUME DeleteVLAN(v) PROVE FairEdit
  <2>1. v \in doc.vlans
    BY <1>2 DEF DeleteVLAN
  <2>2. PICK t : t = WithoutVlan(doc, v)
    OBVIOUS
  <2>3. /\ IsDocument(t) /\ Same(doc, t, {"vlans", "ports", "links"})
        /\ DOMAIN t.ports = DOMAIN doc.ports /\ DOMAIN t.links = DOMAIN doc.links
    BY <2>1, <2>2, WithoutVlanIs
  <2>4. Keeps(t) /\ t.notes = doc.notes
    BY <2>3 DEF Keeps, Same, Fields
  <2>5. Commit(t)
    BY <1>2, <2>2 DEF DeleteVLAN
  <2>6. QED
    BY <2>3, <2>4, <2>5, KeeperFair DEF FairEdit
<1>3. QED
  BY <1>1, <1>2

\* Comments, documentation and photos.
LEMMA NotesFair ==
    ASSUME IsDocument(doc), Validate(doc), DOMAIN doc.notes \subseteq used, NEW n \in Notes,
           \/ \E note \in NoteInputs : CreateNote(n, note) \/ UploadPhoto(n, note)
           \/ DeleteNote(n) \/ DeletePhoto(n)
    PROVE  FairEdit
<1>1. IsTable(doc.notes, Notes, NoteRecords)
  BY DEF IsDocument
<1>2. ASSUME NEW note \in NoteInputs, CreateNote(n, note) \/ UploadPhoto(n, note) PROVE FairEdit
  <2>1. PICK f : f = With(doc.notes, n, note)
    OBVIOUS
  <2>2. note \in NoteRecords
    BY InputsAssumption
  <2>3. /\ IsTable(f, Notes, NoteRecords) /\ DOMAIN f = DOMAIN doc.notes \cup {n}
        /\ f[n] = note /\ \A m \in DOMAIN doc.notes : m # n => f[m] = doc.notes[m]
    <3>1. IsTable(f, Notes, NoteRecords) /\ DOMAIN f = DOMAIN doc.notes \cup {n}
      BY <1>1, <2>1, <2>2 DEF With, IsTable
    <3>2. f[n] = note /\ \A m \in DOMAIN doc.notes : m # n => f[m] = doc.notes[m]
      BY <2>1 DEF With
    <3>3. QED
      BY <3>1, <3>2
  <2>4. n \notin DOMAIN doc.notes /\ (note.type = "documentation" \/ n \notin used)
    BY <1>2 DEF CreateNote, UploadPhoto
  <2>5. PICK t : t = [doc EXCEPT !.notes = f]
    OBVIOUS
  <2>6. IsDocument(t) /\ t.notes = f /\ Same(doc, t, {"notes"})
    BY <2>3, <2>5, WithNotes
  <2>7. Keeps(t)
    BY <2>3, <2>4, <2>6 DEF Keeps, Same, Fields
  <2>8. NotesFrom(t)
    BY <2>3, <2>4, <2>6 DEF NotesFrom
  <2>9. Commit(t)
    BY <1>2, <2>1, <2>5 DEF CreateNote, UploadPhoto
  <2>10. QED
    BY <2>6, <2>7, <2>8, <2>9, KeepersLoseNothing DEF Fair, FairEdit
<1>3. ASSUME DeleteNote(n) \/ DeletePhoto(n) PROVE FairEdit
  <2>1. PICK f : f = Without(doc.notes, {n})
    OBVIOUS
  <2>2. /\ IsTable(f, Notes, NoteRecords) /\ DOMAIN f = DOMAIN doc.notes \ {n}
        /\ \A m \in DOMAIN doc.notes \ {n} : f[m] = doc.notes[m]
    BY <1>1, <2>1 DEF Without, Restrict, IsTable
  <2>3. PICK t : t = [doc EXCEPT !.notes = f]
    OBVIOUS
  <2>4. IsDocument(t) /\ t.notes = f /\ Same(doc, t, {"notes"})
    BY <2>2, <2>3, WithNotes
  <2>5. /\ t.annotations = doc.annotations /\ t.groups = doc.groups /\ t.racks = doc.racks
        /\ t.devices = doc.devices /\ t.ports = doc.ports /\ t.links = doc.links
        /\ t.teams = doc.teams
    BY <2>4 DEF Same, Fields
  <2>6. n \in Ids(doc)
    BY <1>3 DEF Ids, DeleteNote, DeletePhoto
  <2>7. Orderly(t)
    BY <2>2, <2>4, <2>5, <2>6, OneOrderly
  <2>8. NotesFrom(t)
    BY <2>2, <2>4 DEF NotesFrom
  <2>9. Commit(t)
    BY <1>3, <2>1, <2>3 DEF DeleteNote, DeletePhoto, WithoutNote
  <2>10. QED
    BY <2>4, <2>7, <2>8, <2>9 DEF Fair, FairEdit
<1>4. QED
  BY <1>2, <1>3

\* replaceTopology.
LEMMA NotesKeptAre ==
    ASSUME IsDocument(doc), NEW sent, IsDocument(sent), NEW t, t = [sent EXCEPT !.notes = NotesKept(sent)]
    PROVE  IsDocument(t) /\ NotesFrom(t) /\ Same(sent, t, {"notes"})
<1> DEFINE Docs(f) == {n \in DOMAIN f : f[n].type = "documentation"}
<1>1. PICK stored : stored = DOMAIN doc.notes \ Docs(doc.notes)
  OBVIOUS
<1>2. PICK there : there = stored \cup Docs(sent.notes)
  OBVIOUS
<1>3. PICK f : f = [n \in there |-> IF n \in stored THEN doc.notes[n] ELSE sent.notes[n]]
  OBVIOUS
<1>4. f = NotesKept(sent)
  BY <1>1, <1>2, <1>3 DEF NotesKept
<1>5. IsTable(doc.notes, Notes, NoteRecords) /\ IsTable(sent.notes, Notes, NoteRecords)
  BY DEF IsDocument
<1>6. IsTable(f, Notes, NoteRecords) /\ DOMAIN f = there
  <2>1. \A n \in there : n \in Notes /\ f[n] \in NoteRecords
    BY <1>1, <1>2, <1>3, <1>5 DEF IsTable
  <2>2. QED
    BY <1>3, <2>1 DEF IsTable
<1>7. \A n \in DOMAIN f : n \in DOMAIN doc.notes \/ f[n].type = "documentation"
  BY <1>1, <1>2, <1>3
<1>8. IsDocument(t) /\ t.notes = f /\ Same(sent, t, {"notes"})
  BY <1>4, <1>6, WithNotes
<1>9. QED
  BY <1>7, <1>8 DEF NotesFrom

LEMMA SentTyped == ASSUME IsDocument(doc), IsDocument(held), NEW sent \in Sent PROVE IsDocument(sent)
<1>1. ASSUME NEW R \in SUBSET Rooms PROVE IsDocument([doc EXCEPT !.rooms = R])
  BY WithRooms
<1>2. ASSUME NEW A \in SUBSET Annotations PROVE IsDocument([doc EXCEPT !.annotations = A])
  BY WithAnnotations
<1>3. ASSUME NEW V \in SUBSET Vlans PROVE IsDocument([doc EXCEPT !.vlans = V])
  BY WithVlans
<1>4. QED
  BY <1>1, <1>2, <1>3 DEF Sent

-----------------------------------------------------------------------------
(* The theorems.                                                            *)

\* Every step is an edit of a fair kind, a replacement, or Hold.
LEMMA StepIs ==
    ASSUME TypeOK, Next
    PROVE  \/ FairEdit
           \/ Replacements /\ \E t : Commit(t) /\ IsDocument(t) /\ NotesFrom(t)
           \/ Hold
<1>1. IsDocument(doc) /\ Validate(doc) /\ IsDocument(held) /\ DOMAIN doc.notes \subseteq used
  BY DEF TypeOK
<1>2. CASE RackSteps
  BY <1>1, <1>2, RackStepsFair DEF RackSteps
<1>3. CASE DeviceSteps
  BY <1>1, <1>3, DeviceStepsFair DEF DeviceSteps
<1>4. CASE PortSteps
  BY <1>1, <1>4, PortStepsFair DEF PortSteps
<1>5. CASE LinkSteps
  <2>1. ASSUME NEW S \in Batches, NEW new \in [S -> LinkInputs], CreateLinks(new) PROVE FairEdit
    BY <1>1, <2>1, CreateLinksFair
  <2>2. ASSUME NEW l \in Links, NEW native \in Vlans, NEW tagged \in SUBSET Vlans, ConfigureLink(l, native, tagged)
        PROVE  FairEdit
    BY <1>1, <2>2, ConfigureFair
  <2>3. ASSUME NEW l \in Links, NEW p \in Ports, NEW q \in Ports, RepatchLink(l, p, q) PROVE FairEdit
    BY <1>1, <2>3, RepatchFair
  <2>4. ASSUME NEW l \in Links, SetLinkDirection(l) PROVE FairEdit
    BY <1>1, <2>4, TurnFair
  <2>5. ASSUME NEW l \in Links, DeleteLink(l) PROVE FairEdit
    BY <1>1, <2>5, DeleteLinkFair
  <2>6. QED
    BY <1>5, <2>1, <2>2, <2>3, <2>4, <2>5 DEF LinkSteps
<1>6. CASE GroupSteps
  BY <1>1, <1>6, GroupsFair, TeamsFair DEF GroupSteps
<1>7. CASE OtherSteps
  BY <1>1, <1>7, VlansFair, NotesFair DEF OtherSteps
<1>8. CASE Replacements
  <2>1. PICK sent \in Sent : ReplaceTopology(sent)
    BY <1>8 DEF Replacements
  <2>2. PICK t : t = [sent EXCEPT !.notes = NotesKept(sent)]
    OBVIOUS
  <2>3. IsDocument(sent)
    BY <1>1, SentTyped
  <2>4. IsDocument(t) /\ NotesFrom(t)
    BY <1>1, <2>2, <2>3, NotesKeptAre
  <2>5. Commit(t)
    BY <2>1, <2>2 DEF ReplaceTopology
  <2>6. QED
    BY <1>8, <2>4, <2>5
<1>9. QED
  BY <1>2, <1>3, <1>4, <1>5, <1>6, <1>7, <1>8 DEF Next

\* What a commit stores.
LEMMA CommitTyped ==
    ASSUME TypeOK, NEW t, IsDocument(t), Commit(t)
    PROVE  TypeOK'
<1>1. doc' = Pruned(t) /\ Validate(Pruned(t)) /\ IsDocument(Pruned(t))
  BY PruningTyped DEF Commit, Accepted
<1>2. IsDocument(doc)' /\ Validate(doc)'
  BY <1>1
<1>3. IsDocument(held)' /\ Validate(held)'
  BY DEF Commit, TypeOK
<1>4. DOMAIN doc'.notes \subseteq Notes
  BY <1>1 DEF IsDocument, IsTable
<1>5. DOMAIN doc'.notes \subseteq used' /\ used' \subseteq Notes
  BY <1>1, <1>4 DEF Commit, TypeOK
<1>6. edits' \in 0..MaxEdits
  BY BoundsAssumption DEF Commit, TypeOK
<1>7. QED
  BY <1>2, <1>3, <1>5, <1>6 DEF TypeOK

\* Every reachable document is typed and valid, and so is what browsers hold.
THEOREM DocumentTyped == Spec => []TypeOK
<1>1. ASSUME Init PROVE TypeOK
  <2>1. IsDocument(doc) /\ Validate(doc)
    BY <1>1, InputsAssumption DEF Init
  <2>2. DOMAIN doc.notes \subseteq Notes
    BY <2>1 DEF IsDocument, IsTable
  <2>3. QED
    BY <1>1, <2>1, <2>2, BoundsAssumption DEF Init, TypeOK
<1>2. ASSUME TypeOK, [Next]_vars PROVE TypeOK'
  <2>1. CASE FairEdit
    BY <1>2, <2>1, CommitTyped DEF FairEdit, Fair
  <2>2. CASE \E t : Commit(t) /\ IsDocument(t) /\ NotesFrom(t)
    BY <1>2, <2>2, CommitTyped
  <2>3. CASE Hold
    BY <1>2, <2>3 DEF Hold, TypeOK
  <2>4. CASE UNCHANGED vars
    BY <1>2, <2>4 DEF vars, TypeOK
  <2>5. QED
    BY <1>2, <2>1, <2>2, <2>3, <2>4, StepIs
<1>3. QED
  BY <1>1, <1>2, PTL DEF Spec

\* No deletion is refused for what it leaves behind, and what was stored can be
\* stored again.
THEOREM DeletionsAccepted == Spec => []NeverRefused
<1>1. ASSUME TypeOK PROVE NeverRefused
  <2>1. IsDocument(doc) /\ IsDocument(held) /\ Sound(doc) /\ Sound(held)
    BY <1>1 DEF TypeOK, Validate, Sound
  <2>2. ASSUME NEW r \in DOMAIN doc.racks PROVE Validate(Pruned(WithoutRack(doc, r)))
    <3>1. IsDocument(WithoutRack(doc, r))
      BY <2>1, WithoutRackIs
    <3>2. Sound(WithoutRack(doc, r))
      BY <2>1, WithoutRackSound
    <3>3. QED
      BY <3>1, <3>2, PruningValidates
  <2>3. ASSUME NEW d \in DOMAIN doc.devices PROVE Validate(Pruned(WithoutDevice(doc, d)))
    <3>1. IsDocument(WithoutDevice(doc, d)) /\ Sound(WithoutDevice(doc, d))
      BY <2>1, WithoutDeviceIs
    <3>2. QED
      BY <3>1, PruningValidates
  <2>4. ASSUME NEW l \in DOMAIN doc.links PROVE Validate(Pruned(WithoutLink(doc, l)))
    <3>1. IsDocument(WithoutLink(doc, l)) /\ Sound(WithoutLink(doc, l))
      BY <2>1, WithoutLinkIs
    <3>2. QED
      BY <3>1, PruningValidates
  <2>5. ASSUME 1 \in doc.vlans, NEW v \in doc.vlans \ {1} PROVE Validate(Pruned(WithoutVlan(doc, v)))
    <3>1. IsDocument(WithoutVlan(doc, v)) /\ Sound(WithoutVlan(doc, v))
      BY <2>1, <2>5, WithoutVlanIs
    <3>2. QED
      BY <3>1, PruningValidates
  <2>6. Validate(Pruned([held EXCEPT !.notes = NotesKept(held)]))
    <3>1. PICK t : t = [held EXCEPT !.notes = NotesKept(held)]
      OBVIOUS
    <3>2. IsDocument(t) /\ Same(held, t, {"notes"})
      BY <2>1, <3>1, NotesKeptAre
    <3>3. Sound(t)
      BY <2>1, <3>2, SoundWithoutNotes
    <3>4. QED
      BY <3>1, <3>2, <3>3, PruningValidates
  <2>7. QED
    BY <2>2, <2>3, <2>4, <2>5, <2>6 DEF NeverRefused
<1>2. QED
  BY <1>1, DocumentTyped, PTL

\* An edit takes one thing and what hangs on it.
THEOREM NothingElseGoes == Spec => OnlyDependentsGo
<1> DEFINE Goes ==
        LET gone == Ids(doc) \ Ids(doc') IN
        \/ Replacements
        \/ gone = {}
        \/ \E root \in Ids(doc) : \A x \in gone :
              \/ x = root
              \/ x \in DOMAIN doc.ports /\ doc.ports[x].device = root
              \/ HangsOn(doc, x, gone)
<1>1. ASSUME TypeOK, [Next]_vars PROVE [Goes]_vars
  <2>1. CASE FairEdit
    <3>1. PICK t : Commit(t) /\ Fair(t)
      BY <2>1 DEF FairEdit
    <3>2. Lost(t) = Ids(doc) \ Ids(doc')
      BY <3>1 DEF Commit, Lost
    <3>3. QED
      BY <3>1, <3>2 DEF Fair, Orderly, GoesWith
  <2>2. CASE Replacements
    BY <2>2
  <2>3. CASE Hold
    BY <2>3 DEF Hold
  <2>4. CASE UNCHANGED vars
    BY <2>4
  <2>5. QED
    BY <1>1, <2>1, <2>2, <2>3, <2>4, StepIs
<1>2. QED
  BY <1>1, DocumentTyped, PTL DEF Spec, OnlyDependentsGo

\* What was removed does not come back.
THEOREM GoneStaysGone == Spec => GoneForGood
<1> DEFINE New ==
        \A n \in DOMAIN doc'.notes \ DOMAIN doc.notes :
            doc'.notes[n].type # "documentation" => n \notin used
<1>1. ASSUME TypeOK, [Next]_vars PROVE [New]_vars
  <2>1. ASSUME NEW t, Commit(t), IsDocument(t), NotesFrom(t) PROVE New
    <3>1. IsRecord(t) /\ IsTable(t.notes, Notes, NoteRecords)
      BY <2>1 DEF IsDocument, IsRecord
    <3>2. /\ DOMAIN Pruned(t).notes = {n \in DOMAIN t.notes : Attached(t, n)}
          /\ \A n \in DOMAIN Pruned(t).notes : Pruned(t).notes[n] = t.notes[n]
      BY <3>1, PrunedIs
    <3>3. doc' = Pruned(t)
      BY <2>1 DEF Commit
    <3>4. QED
      BY <2>1, <3>2, <3>3 DEF NotesFrom
  <2>2. CASE FairEdit
    BY <2>1, <2>2 DEF FairEdit, Fair
  <2>3. CASE \E t : Commit(t) /\ IsDocument(t) /\ NotesFrom(t)
    BY <2>1, <2>3
  <2>4. CASE Hold
    BY <2>4 DEF Hold
  <2>5. CASE UNCHANGED vars
    BY <2>5
  <2>6. QED
    BY <1>1, <2>2, <2>3, <2>4, <2>5, StepIs
<1>2. QED
  BY <1>1, DocumentTyped, PTL DEF Spec, GoneForGood

-----------------------------------------------------------------------------
(* Photos: a photo a document names has its file, and at rest no other file *)
(* is left.  No lock orders a request's files and its commit with those of  *)
(* another.  What keeps them apart is that identities are drawn once: the   *)
(* photos a request is about to name are named by no document and removed   *)
(* by no other request, and a map whose directory is removed never returns. *)


Pairs == Maps \X Photos

\* The photos a request goes on to name, once it has written them.
Pending(r) == IF request[r].kind \in {"upload", "copy"} THEN request[r].names ELSE {}

\* The files a request answers for: those it has written, or is about to remove.
Claimed(r) ==
    IF request[r].kind \in {"upload", "copy"} THEN request[r].names \ request[r].todo
    ELSE IF request[r].kind = "remove" THEN request[r].todo
    ELSE IF request[r].kind = "discard" THEN request[r].map \X Photos
    ELSE {}

\* A map that is there, or that a copy is about to make.
Alive(m) == m \in maps \/ \E r \in Requests : request[r].kind = "copy" /\ m \in request[r].map

\* Every identity in use was drawn.
Drawn ==
    /\ maps \subseteq drawn
    /\ \A f \in named : f[1] \in maps /\ f[2] \in drawn
    /\ \A r \in Requests :
          /\ request[r].map \subseteq drawn
          /\ \A f \in request[r].names \cup request[r].todo : f[1] \in drawn /\ f[2] \in drawn

\* A request names photos of its own map, and while the server is down there is none.
Shaped ==
    /\ \A r \in Requests : request[r].kind \in {"upload", "copy"} =>
          /\ request[r].todo \subseteq request[r].names
          /\ \A f \in request[r].names : f[1] \in request[r].map
    /\ \A r \in Requests : request[r].kind = "copy" => request[r].from # {}
    /\ ~up => \A r \in Requests : request[r] = Idle

\* A copy makes a map that is not there, and no other copy makes it.
NewMaps ==
    \A r \in Requests : request[r].kind = "copy" =>
        \A m \in request[r].map :
            /\ m \notin maps
            /\ \A s \in Requests : s # r /\ request[s].kind = "copy" => m \notin request[s].map

\* What a request is about to name, nobody names and nobody else touches.
Apart ==
    \A r \in Requests : \A f \in Pending(r) :
        /\ f \notin named
        /\ \A s \in Requests :
              /\ s # r => f \notin Pending(s)
              /\ request[s].kind = "remove" => f \notin request[s].todo

\* What is removed is not named, or was committed without an answer; only a copy
\* discards a map that is there.
Removed ==
    \A r \in Requests :
        /\ request[r].kind = "remove" => \A f \in request[r].todo : f \in named => f \in lost
        /\ request[r].kind = "discard" =>
              \A m \in request[r].map : Alive(m) => m \in maps /\ request[r].from # {}

\* What a request has written is still there when its map is.
WrittenStays ==
    \A r \in Requests : request[r].kind \in {"upload", "copy"} =>
        \A f \in request[r].names \ request[r].todo : Alive(f[1]) => f \in files \cup lost

\* Every file is named or answered for, but for those a mishap left.
Answered == ~stray => \A f \in files : f \in named \/ \E r \in Requests : f \in Claimed(r)

MediaInv == /\ MediaTypeOK /\ Drawn /\ Shaped /\ NewMaps /\ Apart /\ Removed /\ WrittenStays
            /\ PhotosStored /\ Answered

\* All of it after a step, but for the types.
Preserved == /\ Drawn' /\ Shaped' /\ NewMaps' /\ Apart' /\ Removed' /\ WrittenStays'
             /\ PhotosStored' /\ Answered'

-----------------------------------------------------------------------------

LEMMA TypeStep ==
    ASSUME MediaTypeOK, [MediaNext]_mediaVars
    PROVE  MediaTypeOK'
<1> DEFINE Request == [kind : {"idle", "upload", "remove", "discard", "copy"}, map : SUBSET Maps,
                       from : SUBSET Maps, names : SUBSET Pairs, todo : SUBSET Pairs]
<1>1. Idle \in Request
  BY DEF Idle
<1>2. request \in [Requests -> Request]
  BY DEF MediaTypeOK, Pairs
<1>3. ASSUME NEW r \in Requests, NEW q \in Request, request' = [request EXCEPT ![r] = q]
      PROVE  request' \in [Requests -> Request]
  BY <1>2, <1>3
<1>4. ASSUME NEW q \in Request, NEW gone \in SUBSET Pairs PROVE Removing(q, gone) \in Request
  BY <1>1, <1>4 DEF Removing
<1>5. ASSUME NEW kind \in {"upload", "remove", "discard", "copy"}, NEW m \in Maps, NEW from \in SUBSET Maps,
             NEW todo \in SUBSET Pairs
      PROVE  Doing(kind, m, from, todo) \in Request
  BY <1>5 DEF Doing
<1>6. Calm \/ Mishap => left' \in Nat /\ stray' \in BOOLEAN
  <2>1. Calm \/ Mishap => left' \in Nat
    BY DEF Calm, Mishap, MediaTypeOK
  <2>2. Calm \/ Mishap => stray' \in BOOLEAN
    BY Zenon DEF Calm, Mishap, MediaTypeOK
  <2> QED
    BY <2>1, <2>2
<1> HIDE DEF Request
<1>7. ASSUME NEW r \in Requests, NEW m \in Maps, NEW ps \in SUBSET Photos, Upload(r, m, ps) PROVE MediaTypeOK'
  <2>1. Doing("upload", m, {}, {m} \X ps) \in Request
    BY <1>5 DEF Pairs
  <2>2. request' \in [Requests -> Request]
    BY <1>3, <1>7, <2>1 DEF Upload, Becomes
  <2> QED
    BY <1>6, <1>7, <2>2 DEF MediaTypeOK, Upload, Request, Pairs
<1>8. ASSUME NEW r \in Requests, NEW f \in Pairs, WriteFile(r, f) PROVE MediaTypeOK'
  <2>1. [request[r] EXCEPT !.todo = @ \ {f}] \in Request
    BY <1>2 DEF Request
  <2>2. Unsaved(request[r]) \in SUBSET Pairs
    BY <1>2 DEF Request, Unsaved
  <2>3. request' \in [Requests -> Request]
    BY <1>2, <1>3, <1>4, <1>8, <2>1, <2>2 DEF WriteFile, Becomes
  <2> QED
    BY <1>6, <1>8, <2>3 DEF MediaTypeOK, WriteFile, Request, Pairs
<1>9. ASSUME NEW r \in Requests, CommitUpload(r) PROVE MediaTypeOK'
  <2>1. request[r].names \in SUBSET Pairs /\ Unsaved(request[r]) \in SUBSET Pairs
    BY <1>2 DEF Request, Unsaved
  <2>2. request' \in [Requests -> Request]
    BY <1>1, <1>2, <1>3, <1>4, <1>9, <2>1 DEF CommitUpload, Becomes
  <2> QED
    BY <1>6, <1>9, <2>1, <2>2 DEF MediaTypeOK, CommitUpload, Request, Pairs
<1>10. ASSUME NEW r \in Requests, NEW m \in Maps, NEW gone \in SUBSET Of(m), Detach(r, m, gone) PROVE MediaTypeOK'
  <2>1. Doing("remove", m, {}, gone) \in Request
    BY <1>5 DEF Of, Pairs
  <2>2. request' \in [Requests -> Request]
    BY <1>2, <1>3, <1>10, <2>1 DEF Detach, Becomes
  <2> QED
    BY <1>6, <1>10, <2>2 DEF MediaTypeOK, Detach, Request, Pairs
<1>11. ASSUME NEW r \in Requests, NEW f \in Pairs, RemoveFile(r, f) PROVE MediaTypeOK'
  <2>1. request[r].todo \ {f} \in SUBSET Pairs
    BY <1>2 DEF Request
  <2>2. request' \in [Requests -> Request]
    BY <1>2, <1>3, <1>4, <1>11, <2>1 DEF RemoveFile, Becomes
  <2> QED
    BY <1>6, <1>11, <2>2 DEF MediaTypeOK, RemoveFile, Request, Pairs
<1>12. ASSUME NEW r \in Requests, NEW m \in Maps, DeleteMap(r, m) PROVE MediaTypeOK'
  <2>1. Doing("discard", m, {}, {}) \in Request
    BY <1>5
  <2>2. request' \in [Requests -> Request]
    BY <1>2, <1>3, <1>12, <2>1 DEF DeleteMap, Becomes
  <2> QED
    BY <1>6, <1>12, <2>2 DEF MediaTypeOK, DeleteMap, Request, Pairs
<1>13. ASSUME NEW r \in Requests, Discard(r) PROVE MediaTypeOK'
  <2>1. request' \in [Requests -> Request]
    BY <1>1, <1>3, <1>13 DEF Discard, Becomes
  <2>2. files' \subseteq files /\ lost' \subseteq lost \cup files
    BY <1>13 DEF Discard, LostWith
  <2> QED
    BY <1>6, <1>13, <2>1, <2>2 DEF MediaTypeOK, Discard, Request, Pairs
<1>14. ASSUME NEW r \in Requests, NEW m \in Maps, NEW n \in Maps, Copy(r, m, n) PROVE MediaTypeOK'
  <2>1. {n} \X {f[2] : f \in named \cap Of(m)} \in SUBSET Pairs
    BY DEF MediaTypeOK, Pairs
  <2>2. Doing("copy", n, {m}, {n} \X {f[2] : f \in named \cap Of(m)}) \in Request
    BY <1>5, <2>1
  <2>3. request' \in [Requests -> Request]
    BY <1>3, <1>14, <2>2 DEF Copy, Becomes
  <2> QED
    BY <1>6, <1>14, <2>3 DEF MediaTypeOK, Copy, Request, Pairs
<1>15. ASSUME NEW r \in Requests, NEW f \in Pairs, CopyFile(r, f) PROVE MediaTypeOK'
  <2>1. [request[r] EXCEPT !.todo = @ \ {f}] \in Request /\ Uncopied(request[r]) \in Request
    BY <1>2 DEF Request, Uncopied
  <2>2. request' \in [Requests -> Request]
    BY <1>3, <1>15, <2>1 DEF CopyFile, Becomes
  <2> QED
    BY <1>6, <1>15, <2>2 DEF MediaTypeOK, CopyFile, Request, Pairs
<1>16. ASSUME NEW r \in Requests, CreateCopy(r) PROVE MediaTypeOK'
  <2>1. Uncopied(request[r]) \in Request /\ request[r].names \subseteq Pairs /\ request[r].map \subseteq Maps
    BY <1>2 DEF Request, Uncopied
  <2>2. request' \in [Requests -> Request]
    BY <1>1, <1>3, <1>16, <2>1 DEF CreateCopy, Becomes
  <2> QED
    BY <1>6, <1>16, <2>1, <2>2 DEF MediaTypeOK, CreateCopy, Request, Pairs
<1>17. CASE Crash
  <2>1. request' \in [Requests -> Request]
    BY <1>1, <1>17 DEF Crash
  <2> QED
    BY <1>6, <1>17, <2>1 DEF MediaTypeOK, Crash, Request, Pairs
<1>18. CASE Start
  BY <1>18 DEF MediaTypeOK, Start
<1>19. CASE UNCHANGED mediaVars
  BY <1>19 DEF MediaTypeOK, mediaVars
<1> QED
  BY <1>7, <1>8, <1>9, <1>10, <1>11, <1>12, <1>13, <1>14, <1>15, <1>16, <1>17, <1>18, <1>19 DEF MediaNext, Pairs

-----------------------------------------------------------------------------
(* The invariant after each action.                                         *)

\* An upload draws its photos.
LEMMA UploadStep ==
    ASSUME MediaInv, NEW r \in Requests, NEW m \in Maps, NEW ps \in SUBSET Photos, Upload(r, m, ps)
    PROVE  Preserved
<1> DEFINE q == Doing("upload", m, {}, {m} \X ps)
<1>1. /\ q.kind = "upload" /\ q.map = {m} /\ q.names = {m} \X ps /\ q.todo = {m} \X ps
  BY DEF Doing
<1>2. request'[r] = q /\ \A s \in Requests : s # r => request'[s] = request[s]
  BY DEF Upload, Becomes, MediaInv, MediaTypeOK
<1>3. request[r].kind = "idle" /\ m \in drawn /\ ps \cap drawn = {} /\ drawn' = drawn \cup ps /\ up
  BY DEF Upload, Idle
<1>4. UNCHANGED <<maps, named, files, up, lost, stray>>
  BY DEF Upload, Calm
<1> HIDE DEF q
<1>5. \A x : Alive(x)' <=> Alive(x)
  BY <1>1, <1>2, <1>3, <1>4 DEF Alive
<1>6. Drawn'
  BY <1>1, <1>2, <1>3, <1>4 DEF MediaInv, Drawn
<1>7. Shaped'
  BY <1>1, <1>2, <1>3, <1>4 DEF MediaInv, Shaped
<1>8. NewMaps'
  BY <1>1, <1>2, <1>3, <1>4 DEF MediaInv, NewMaps
<1>9. Apart'
  BY <1>1, <1>2, <1>3, <1>4 DEF MediaInv, Apart, Drawn, Pending
<1>10. Removed'
  BY <1>1, <1>2, <1>3, <1>4, <1>5 DEF MediaInv, Removed
<1>11. WrittenStays'
  BY <1>1, <1>2, <1>3, <1>4, <1>5 DEF MediaInv, WrittenStays
<1>12. PhotosStored' /\ Answered'
  BY <1>1, <1>2, <1>3, <1>4 DEF MediaInv, PhotosStored, Answered, Claimed
<1> QED
  BY <1>6, <1>7, <1>8, <1>9, <1>10, <1>11, <1>12 DEF Preserved

LEMMA RemovingRequest ==
    ASSUME MediaTypeOK, NEW r \in Requests, NEW gone
    PROVE  LET q == Removing(request[r], gone) IN
           /\ q.todo = gone /\ q.kind = IF gone = {} THEN "idle" ELSE "remove"
           /\ q.map \subseteq request[r].map /\ q.names \subseteq request[r].names
<1>1. CASE gone = {}
  BY <1>1 DEF Removing, Idle
<1>2. CASE gone # {}
  <2>1. request[r] \in [kind : {"idle", "upload", "remove", "discard", "copy"}, map : SUBSET Maps,
                        from : SUBSET Maps, names : SUBSET Pairs, todo : SUBSET Pairs]
    BY DEF MediaTypeOK, Pairs
  <2> QED
    BY <1>2, <2>1 DEF Removing
<1> QED
  BY <1>1, <1>2

\* A request gives up: it removes what it has written, which nobody names or
\* was committed without an answer.
LEMMA GivesUp ==
    ASSUME MediaInv, NEW r \in Requests, request[r].kind = "upload", up,
           Becomes(r, Removing(request[r], Unsaved(request[r]))),
           UNCHANGED <<maps, drawn, up>>, files \subseteq files', named \subseteq named', lost \subseteq lost',
           stray' = TRUE \/ (stray' = stray /\ files' = files),
           named' \subseteq named \cup (request[r].names \cap lost'),
           request[r].names \cap named' # {} => request[r].map \subseteq maps
    PROVE  Preserved
<1> DEFINE q == Removing(request[r], Unsaved(request[r]))
<1>1. /\ q.todo = request[r].names \ request[r].todo /\ q.kind \in {"idle", "remove"}
      /\ q.kind = "idle" => q.todo = {}
      /\ q.map \subseteq request[r].map /\ q.names \subseteq request[r].names
  BY RemovingRequest DEF Unsaved, MediaInv
<1>2. request'[r] = q /\ \A s \in Requests : s # r => request'[s] = request[s]
  BY DEF Becomes, MediaInv, MediaTypeOK
<1> HIDE DEF q
<1>5. \A x : Alive(x)' <=> Alive(x)
  BY <1>1, <1>2 DEF Alive
<1>6. Drawn'
  BY <1>1, <1>2 DEF MediaInv, Drawn, Shaped
<1>7. Shaped'
  BY <1>1, <1>2 DEF MediaInv, Shaped
<1>8. NewMaps'
  BY <1>1, <1>2 DEF MediaInv, NewMaps
<1>9. Apart'
  BY <1>1, <1>2 DEF MediaInv, Apart, Pending
<1>10. Removed'
  BY <1>1, <1>2, <1>5 DEF MediaInv, Removed, Apart, Pending
<1>11. WrittenStays'
  BY <1>1, <1>2, <1>5 DEF MediaInv, WrittenStays
<1>12. PhotosStored'
  BY DEF MediaInv, PhotosStored
<1>13. Answered'
  BY <1>1, <1>2 DEF MediaInv, Answered, Claimed
<1> QED
  BY <1>6, <1>7, <1>8, <1>9, <1>10, <1>11, <1>12, <1>13 DEF Preserved

LEMMA WriteFileStep ==
    ASSUME MediaInv, NEW r \in Requests, NEW f \in Pairs, WriteFile(r, f)
    PROVE  Preserved
<1> DEFINE q == [request[r] EXCEPT !.todo = @ \ {f}]
<1>1. request[r].kind = "upload" /\ f \in request[r].todo /\ UNCHANGED <<maps, named, drawn, up, lost>>
  BY DEF WriteFile
<1>2. up
  BY <1>1 DEF MediaInv, Shaped, Idle
<1>3. CASE files' = files \cup {f} /\ Becomes(r, q) /\ Calm
  <2>1. q.kind = "upload" /\ q.map = request[r].map /\ q.names = request[r].names /\ q.todo = request[r].todo \ {f}
    BY <1>1 DEF MediaInv, MediaTypeOK
  <2>2. request'[r] = q /\ \A s \in Requests : s # r => request'[s] = request[s]
    BY <1>3 DEF Becomes, MediaInv, MediaTypeOK
  <2>3. stray' = stray /\ files' = files \cup {f}
    BY <1>3 DEF Calm
  <2> HIDE DEF q
  <2>4. \A x : Alive(x)' <=> Alive(x)
    BY <1>1, <2>1, <2>2 DEF Alive
  <2>5. Drawn' /\ NewMaps'
    BY <1>1, <2>1, <2>2 DEF MediaInv, Drawn, NewMaps
  <2>6. Shaped'
    BY <1>1, <1>2, <2>1, <2>2 DEF MediaInv, Shaped
  <2>7. Apart'
    BY <1>1, <2>1, <2>2 DEF MediaInv, Apart, Pending
  <2>8. Removed'
    BY <1>1, <2>1, <2>2, <2>4 DEF MediaInv, Removed
  <2>9. WrittenStays'
    BY <1>1, <2>1, <2>2, <2>3, <2>4 DEF MediaInv, WrittenStays
  <2>10. PhotosStored'
    BY <1>1, <2>3 DEF MediaInv, PhotosStored
  <2>11. Answered'
    BY <1>1, <2>1, <2>2, <2>3 DEF MediaInv, Answered, Claimed, Shaped
  <2> QED
    BY <2>5, <2>6, <2>7, <2>8, <2>9, <2>10, <2>11 DEF Preserved
<1>4. CASE /\ files \subseteq files' /\ Becomes(r, Removing(request[r], Unsaved(request[r])))
           /\ (files' = files /\ Calm) \/ Mishap
  <2>1. request[r].names \cap named' = {}
    BY <1>1 DEF MediaInv, Apart, Pending
  <2> QED
    BY <1>1, <1>2, <1>4, <2>1, GivesUp DEF Calm, Mishap
<1> QED
  BY <1>3, <1>4 DEF WriteFile

\* An upload is named whole, or gives up.
LEMMA CommitUploadStep ==
    ASSUME MediaInv, NEW r \in Requests, CommitUpload(r)
    PROVE  Preserved
<1>1. request[r].kind = "upload" /\ request[r].todo = {} /\ UNCHANGED <<maps, files, drawn, up>>
  BY DEF CommitUpload, Written
<1>2. up
  BY <1>1 DEF MediaInv, Shaped, Idle
<1>3. CASE /\ request[r].map \subseteq maps /\ named' = named \cup request[r].names
           /\ Becomes(r, Idle) /\ Calm /\ UNCHANGED lost
  <2>1. request'[r] = Idle /\ \A s \in Requests : s # r => request'[s] = request[s]
    BY <1>3 DEF Becomes, MediaInv, MediaTypeOK
  <2>2. Idle.kind = "idle" /\ Idle.map = {} /\ Idle.names = {} /\ Idle.todo = {}
    BY DEF Idle
  <2>3. stray' = stray
    BY <1>3 DEF Calm
  <2>4. \A x : Alive(x)' <=> Alive(x)
    BY <1>1, <2>1, <2>2 DEF Alive
  <2>5. Drawn' /\ NewMaps'
    BY <1>1, <1>3, <2>1, <2>2 DEF MediaInv, Drawn, NewMaps, Shaped
  <2>6. Shaped'
    BY <1>1, <1>2, <2>1, <2>2 DEF MediaInv, Shaped
  <2>7. Apart'
    BY <1>1, <1>3, <2>1, <2>2 DEF MediaInv, Apart, Pending
  <2>8. Removed'
    BY <1>1, <1>3, <2>1, <2>2, <2>4 DEF MediaInv, Removed, Apart, Pending
  <2>9. WrittenStays'
    BY <1>1, <1>3, <2>1, <2>2, <2>4 DEF MediaInv, WrittenStays
  <2>10. PhotosStored'
    BY <1>1, <1>3 DEF MediaInv, PhotosStored, WrittenStays, Shaped, Alive
  <2>11. Answered'
    BY <1>1, <1>3, <2>1, <2>2, <2>3 DEF MediaInv, Answered, Claimed
  <2> QED
    BY <2>5, <2>6, <2>7, <2>8, <2>9, <2>10, <2>11 DEF Preserved
<1>4. CASE UNCHANGED <<named, lost>> /\ Becomes(r, Removing(request[r], Unsaved(request[r]))) /\ Calm
  <2>1. request[r].names \cap named' = {}
    BY <1>1, <1>4 DEF MediaInv, Apart, Pending
  <2> QED
    BY <1>1, <1>2, <1>4, <2>1, GivesUp DEF Calm
<1>5. CASE /\ request[r].map \subseteq maps /\ named' = named \cup request[r].names
           /\ lost' = lost \cup request[r].names
           /\ Becomes(r, Removing(request[r], Unsaved(request[r]))) /\ Mishap
  BY <1>1, <1>2, <1>5, GivesUp DEF Mishap
<1> QED
  BY <1>3, <1>4, <1>5 DEF CommitUpload

\* What is taken off a document nobody is about to name.
LEMMA DetachStep ==
    ASSUME MediaInv, NEW r \in Requests, NEW m \in Maps, NEW gone \in SUBSET Of(m), Detach(r, m, gone)
    PROVE  Preserved
<1> DEFINE q == Doing("remove", m, {}, gone)
<1>1. /\ q.kind = "remove" /\ q.map = {m} /\ q.names = gone /\ q.todo = gone
  BY DEF Doing
<1>2. /\ request[r].kind = "idle" /\ up /\ gone \subseteq named /\ named' = named \ gone
      /\ UNCHANGED <<maps, files, drawn, up, lost>>
  BY DEF Detach, Idle
<1>3. \A f \in gone : f[1] = m /\ m \in maps /\ f[2] \in drawn
  BY <1>2 DEF MediaInv, Drawn, Of
<1>4. CASE Becomes(r, q) /\ Calm
  <2>1. gone # {} /\ m \in drawn
    BY <1>3 DEF MediaInv, Drawn, Detach
  <2>2. request'[r] = q /\ \A s \in Requests : s # r => request'[s] = request[s]
    BY <1>4 DEF Becomes, MediaInv, MediaTypeOK
  <2>3. stray' = stray
    BY <1>4 DEF Calm
  <2> HIDE DEF q
  <2>4. \A x : Alive(x)' <=> Alive(x)
    BY <1>1, <1>2, <2>2 DEF Alive
  <2>5. Drawn' /\ NewMaps'
    BY <1>1, <1>2, <1>3, <2>1, <2>2 DEF MediaInv, Drawn, NewMaps
  <2>6. Shaped'
    BY <1>1, <1>2, <2>2 DEF MediaInv, Shaped
  <2>7. Apart'
    BY <1>1, <1>2, <2>2 DEF MediaInv, Apart, Pending
  <2>8. Removed'
    BY <1>1, <1>2, <2>2, <2>4 DEF MediaInv, Removed
  <2>9. WrittenStays'
    BY <1>1, <1>2, <2>2, <2>4 DEF MediaInv, WrittenStays
  <2>10. PhotosStored'
    BY <1>2 DEF MediaInv, PhotosStored
  <2>11. Answered'
    BY <1>1, <1>2, <2>2, <2>3 DEF MediaInv, Answered, Claimed
  <2> QED
    BY <2>5, <2>6, <2>7, <2>8, <2>9, <2>10, <2>11 DEF Preserved
<1>5. CASE UNCHANGED request /\ Mishap
  <2>1. \A x : Alive(x)' <=> Alive(x)
    BY <1>2, <1>5 DEF Alive
  <2>2. Drawn' /\ NewMaps' /\ Shaped' /\ Apart'
    BY <1>2, <1>5 DEF MediaInv, Drawn, NewMaps, Shaped, Apart, Pending
  <2>3. Removed' /\ WrittenStays' /\ PhotosStored'
    BY <1>2, <1>5, <2>1 DEF MediaInv, Removed, WrittenStays, PhotosStored
  <2>4. Answered'
    BY <1>5 DEF Answered, Mishap
  <2> QED
    BY <2>2, <2>3, <2>4 DEF Preserved
<1> QED
  BY <1>4, <1>5 DEF Detach

LEMMA RemoveFileStep ==
    ASSUME MediaInv, NEW r \in Requests, NEW f \in Pairs, RemoveFile(r, f)
    PROVE  Preserved
<1> DEFINE q == Removing(request[r], request[r].todo \ {f})
<1>1. /\ request[r].kind = "remove" /\ f \in request[r].todo /\ Becomes(r, q)
      /\ UNCHANGED <<maps, named, drawn, up, lost>>
  BY DEF RemoveFile
<1>2. /\ q.todo = request[r].todo \ {f} /\ q.kind \in {"idle", "remove"}
      /\ q.kind = "idle" => q.todo = {}
      /\ q.map \subseteq request[r].map /\ q.names \subseteq request[r].names
  BY RemovingRequest DEF MediaInv
<1>3. up
  BY <1>1 DEF MediaInv, Shaped, Idle
<1>4. request'[r] = q /\ \A s \in Requests : s # r => request'[s] = request[s]
  BY <1>1 DEF Becomes, MediaInv, MediaTypeOK
<1> HIDE DEF q
<1>5. \/ files' = files \ {f} /\ stray' = stray
      \/ files' = files /\ stray' = TRUE
  BY DEF RemoveFile, Calm, Mishap
<1>6. \A x : Alive(x)' <=> Alive(x)
  BY <1>1, <1>2, <1>4 DEF Alive
<1>7. Drawn' /\ NewMaps'
  BY <1>1, <1>2, <1>4 DEF MediaInv, Drawn, NewMaps
<1>8. Shaped'
  BY <1>1, <1>2, <1>3, <1>4 DEF MediaInv, Shaped
<1>9. Apart'
  BY <1>1, <1>2, <1>4 DEF MediaInv, Apart, Pending
<1>10. Removed'
  BY <1>1, <1>2, <1>4, <1>6 DEF MediaInv, Removed
<1>11. WrittenStays'
  BY <1>1, <1>2, <1>4, <1>5, <1>6 DEF MediaInv, WrittenStays, Apart, Pending
<1>12. PhotosStored'
  BY <1>1, <1>5 DEF MediaInv, PhotosStored, Removed
<1>13. Answered'
  BY <1>1, <1>2, <1>4, <1>5 DEF MediaInv, Answered, Claimed
<1> QED
  BY <1>7, <1>8, <1>9, <1>10, <1>11, <1>12, <1>13 DEF Preserved

\* A map that is deleted is not alive, and its directory is answered for.
LEMMA DeleteMapStep ==
    ASSUME MediaInv, NEW r \in Requests, NEW m \in Maps, DeleteMap(r, m)
    PROVE  Preserved
<1> DEFINE q == Doing("discard", m, {}, {})
<1>1. q.kind = "discard" /\ q.map = {m} /\ q.names = {} /\ q.todo = {}
  BY DEF Doing
<1>2. /\ request[r].kind = "idle" /\ up /\ m \in maps /\ maps' = maps \ {m} /\ named' = named \ Of(m)
      /\ UNCHANGED <<files, drawn, up, lost>>
  BY DEF DeleteMap, Idle
<1>3. \/ request'[r] = q /\ stray' = stray
      \/ request'[r] = request[r] /\ stray' = TRUE
  BY DEF DeleteMap, Becomes, Calm, Mishap, MediaInv, MediaTypeOK
<1>4. \A s \in Requests : s # r => request'[s] = request[s]
  BY DEF DeleteMap, Becomes, MediaInv, MediaTypeOK
<1> HIDE DEF q
<1>5. /\ ~Alive(m)' /\ \A x : Alive(x)' => Alive(x)
  BY <1>1, <1>2, <1>3, <1>4 DEF Alive, MediaInv, NewMaps
<1>6. \A f \in named' : f \in named /\ f[1] # m
  BY <1>2 DEF MediaInv, MediaTypeOK, Of
<1>7. \A f \in Pairs : f \in named /\ f \notin named' => f \in {m} \X Photos
  BY <1>2 DEF Of
<1>8. Drawn' /\ NewMaps'
  BY <1>1, <1>2, <1>3, <1>4, <1>6 DEF MediaInv, Drawn, NewMaps
<1>9. Shaped'
  BY <1>1, <1>2, <1>3, <1>4 DEF MediaInv, Shaped
<1>10. Apart'
  BY <1>1, <1>2, <1>3, <1>4, <1>6 DEF MediaInv, Apart, Pending
<1>11. Removed'
  BY <1>1, <1>2, <1>3, <1>4, <1>5, <1>6 DEF MediaInv, Removed
<1>12. WrittenStays'
  BY <1>1, <1>2, <1>3, <1>4, <1>5 DEF MediaInv, WrittenStays
<1>13. PhotosStored'
  BY <1>2 DEF MediaInv, PhotosStored
<1>14. Answered'
  BY <1>1, <1>2, <1>3, <1>4, <1>7 DEF MediaInv, Answered, Claimed, MediaTypeOK, Pairs
<1> QED
  BY <1>8, <1>9, <1>10, <1>11, <1>12, <1>13, <1>14 DEF Preserved

LEMMA DiscardStep ==
    ASSUME MediaInv, NEW r \in Requests, Discard(r)
    PROVE  Preserved
<1>1. request[r].kind = "discard" /\ UNCHANGED <<maps, named, drawn, up>>
  BY DEF Discard
<1>2. up
  BY <1>1 DEF MediaInv, Shaped, Idle
<1>3. request'[r] = Idle /\ \A s \in Requests : s # r => request'[s] = request[s]
  BY DEF Discard, Becomes, MediaInv, MediaTypeOK
<1>4. Idle.kind = "idle" /\ Idle.map = {} /\ Idle.names = {} /\ Idle.todo = {}
  BY DEF Idle
<1>5. /\ files' \subseteq files
      /\ \A f \in files : f \notin files' => f \in request[r].map \X Photos
      /\ stray' = TRUE \/ (stray' = stray /\ files' \cap (request[r].map \X Photos) = {})
      /\ lost' = LostWith(request[r], files \ files')
  <2>1. \E part \in SUBSET (files \cap (request[r].map \X Photos)) :
           /\ files' = files \ part /\ lost' = LostWith(request[r], part)
           /\ stray' = TRUE \/ (stray' = stray /\ part = files \cap (request[r].map \X Photos))
    BY DEF Discard, Calm, Mishap
  <2> QED
    BY <2>1
<1>15. /\ lost \subseteq lost'
      /\ \A f \in files : f \notin files' /\ request[r].from # {} /\ f[1] \in maps => f \in lost'
  BY <1>5 DEF LostWith
<1>6. \A x : Alive(x)' <=> Alive(x)
  BY <1>1, <1>3, <1>4 DEF Alive
<1>7. \A f \in files : f \notin files' /\ Alive(f[1]) => f \in lost'
  <2>1. ASSUME NEW f \in files, f \notin files', Alive(f[1]) PROVE f \in lost'
    <3>1. f[1] \in request[r].map
      BY <1>5, <2>1
    <3>2. f[1] \in maps /\ request[r].from # {}
      BY <1>1, <2>1, <3>1 DEF MediaInv, Removed
    <3> QED
      BY <1>15, <2>1, <3>2
  <2> QED
    BY <2>1
<1>8. Drawn' /\ NewMaps'
  BY <1>1, <1>3, <1>4 DEF MediaInv, Drawn, NewMaps
<1>9. Shaped'
  BY <1>1, <1>2, <1>3, <1>4 DEF MediaInv, Shaped
<1>10. Apart'
  BY <1>1, <1>3, <1>4 DEF MediaInv, Apart, Pending
<1>11. Removed'
  BY <1>1, <1>15, <1>3, <1>4, <1>6 DEF MediaInv, Removed
<1>12. WrittenStays'
  BY <1>1, <1>15, <1>3, <1>4, <1>6, <1>7 DEF MediaInv, WrittenStays
<1>13. PhotosStored'
  BY <1>1, <1>15, <1>7 DEF MediaInv, PhotosStored, Drawn, Alive
<1>14. Answered'
  BY <1>1, <1>3, <1>4, <1>5 DEF MediaInv, Answered, Claimed
<1> QED
  BY <1>8, <1>9, <1>10, <1>11, <1>12, <1>13, <1>14 DEF Preserved

\* A copy draws its map.
LEMMA CopyStep ==
    ASSUME MediaInv, NEW r \in Requests, NEW m \in Maps, NEW n \in Maps, Copy(r, m, n)
    PROVE  Preserved
<1> DEFINE ps == {f[2] : f \in named \cap Of(m)}
           q == Doing("copy", n, {m}, {n} \X ps)
<1>1. q.kind = "copy" /\ q.map = {n} /\ q.names = {n} \X ps /\ q.todo = {n} \X ps /\ q.from # {}
  BY DEF Doing
<1>2. ps \subseteq drawn
  BY DEF MediaInv, Drawn
<1>3. /\ request[r].kind = "idle" /\ up /\ n \notin drawn /\ drawn' = drawn \cup {n}
      /\ UNCHANGED <<maps, named, files, up, lost, stray>>
  BY DEF Copy, Idle, Calm
<1>4. request'[r] = q /\ \A s \in Requests : s # r => request'[s] = request[s]
  BY DEF Copy, Becomes, MediaInv, MediaTypeOK
<1> HIDE DEF q, ps
<1>5. \A x : Alive(x)' => Alive(x) \/ x = n
  BY <1>1, <1>3, <1>4 DEF Alive
<1>6. Drawn'
  BY <1>1, <1>2, <1>3, <1>4 DEF MediaInv, Drawn
<1>7. Shaped'
  BY <1>1, <1>3, <1>4 DEF MediaInv, Shaped
<1>8. NewMaps'
  BY <1>1, <1>3, <1>4 DEF MediaInv, NewMaps, Drawn
<1>9. Apart'
  BY <1>1, <1>3, <1>4 DEF MediaInv, Apart, Drawn, Pending
<1>10. Removed'
  BY <1>1, <1>3, <1>4, <1>5 DEF MediaInv, Removed, Drawn
<1>11. WrittenStays'
  BY <1>1, <1>3, <1>4, <1>5 DEF MediaInv, WrittenStays, Drawn
<1>12. PhotosStored' /\ Answered'
  BY <1>1, <1>3, <1>4 DEF MediaInv, PhotosStored, Answered, Claimed
<1> QED
  BY <1>6, <1>7, <1>8, <1>9, <1>10, <1>11, <1>12 DEF Preserved

\* A copy gives up: its map is not there, or was committed without an answer.
LEMMA CopyGivesUp ==
    ASSUME MediaInv, NEW r \in Requests, request[r].kind = "copy", Becomes(r, Uncopied(request[r])), up,
           UNCHANGED <<files, drawn, up>>,
           UNCHANGED lost,
           \/ UNCHANGED <<maps, named, stray>>
           \/ /\ maps' = maps \cup request[r].map /\ named' = named \cup request[r].names
              /\ stray' = TRUE /\ request[r].todo = {}
    PROVE  Preserved
<1> DEFINE q == Uncopied(request[r])
<1>1. q.kind = "discard" /\ q.map = request[r].map /\ q.names = request[r].names /\ q.todo = request[r].todo
      /\ q.from = request[r].from /\ q.from # {}
  BY DEF Shaped, Uncopied, MediaInv, MediaTypeOK
<1>2. request'[r] = q /\ \A s \in Requests : s # r => request'[s] = request[s]
  BY DEF Becomes, MediaInv, MediaTypeOK
<1> HIDE DEF q
<1>3. /\ \A x : Alive(x)' => Alive(x)
      /\ \A x \in request[r].map : Alive(x)' => x \in maps'
  BY <1>1, <1>2 DEF Alive, MediaInv, NewMaps
<1>4. request[r].names \subseteq request[r].map \X Photos
  <2>1. request[r].names \subseteq Maps \X Photos
    BY DEF MediaInv, MediaTypeOK
  <2> QED
    BY <2>1 DEF MediaInv, Shaped
<1>5. Drawn'
  BY <1>1, <1>2 DEF MediaInv, Drawn, Shaped
<1>6. Shaped'
  BY <1>1, <1>2 DEF MediaInv, Shaped
<1>7. NewMaps'
  BY <1>1, <1>2 DEF MediaInv, NewMaps
<1>8. Apart'
  BY <1>1, <1>2 DEF MediaInv, Apart, Pending
<1>9. Removed'
  <2>1. ASSUME NEW s \in Requests, request'[s].kind = "remove", NEW f \in request'[s].todo, f \in named'
        PROVE  f \in lost'
    <3>1. s # r /\ request[s].kind = "remove" /\ f \in request[s].todo
      BY <1>1, <1>2, <2>1
    <3>2. f \notin request[r].names
      BY <3>1 DEF MediaInv, Apart, Pending
    <3> QED
      BY <2>1, <3>1, <3>2 DEF MediaInv, Removed
  <2>2. ASSUME NEW s \in Requests, request'[s].kind = "discard", NEW x \in request'[s].map, Alive(x)'
        PROVE  x \in maps' /\ request'[s].from # {}
    BY <1>1, <1>2, <1>3, <2>2 DEF MediaInv, Removed
  <2> QED
    BY <2>1, <2>2 DEF Removed
<1>10. WrittenStays'
  BY <1>1, <1>2, <1>3 DEF MediaInv, WrittenStays
<1>11. PhotosStored'
  BY <1>4 DEF MediaInv, PhotosStored, WrittenStays, Shaped, Alive
<1>12. Answered'
  <2>1. CASE stray'
    BY <2>1 DEF Answered
  <2>2. CASE ~stray' /\ UNCHANGED <<maps, named, stray>>
    BY <1>1, <1>2, <1>4, <2>2 DEF MediaInv, Answered, Claimed
  <2> QED
    BY <2>1, <2>2
<1> QED
  BY <1>5, <1>6, <1>7, <1>8, <1>9, <1>10, <1>11, <1>12 DEF Preserved

LEMMA CopyFileStep ==
    ASSUME MediaInv, NEW r \in Requests, NEW f \in Pairs, CopyFile(r, f)
    PROVE  Preserved
<1> DEFINE q == [request[r] EXCEPT !.todo = @ \ {f}]
<1>1. request[r].kind = "copy" /\ f \in request[r].todo /\ UNCHANGED <<maps, named, drawn, up, lost, stray>>
  BY DEF CopyFile, Calm
<1>2. up
  BY <1>1 DEF MediaInv, Shaped, Idle
<1>3. CASE files' = files \cup {f} /\ Becomes(r, q)
  <2>1. /\ q.kind = "copy" /\ q.map = request[r].map /\ q.from = request[r].from
        /\ q.names = request[r].names /\ q.todo = request[r].todo \ {f}
    BY <1>1 DEF MediaInv, MediaTypeOK
  <2>2. request'[r] = q /\ \A s \in Requests : s # r => request'[s] = request[s]
    BY <1>3 DEF Becomes, MediaInv, MediaTypeOK
  <2> HIDE DEF q
  <2>3. \A x : Alive(x)' <=> Alive(x)
    BY <1>1, <2>1, <2>2 DEF Alive
  <2>4. Drawn' /\ NewMaps'
    BY <1>1, <2>1, <2>2 DEF MediaInv, Drawn, NewMaps
  <2>5. Shaped'
    BY <1>1, <1>2, <2>1, <2>2 DEF MediaInv, Shaped
  <2>6. Apart'
    BY <1>1, <2>1, <2>2 DEF MediaInv, Apart, Pending
  <2>7. Removed'
    BY <1>1, <2>1, <2>2, <2>3 DEF MediaInv, Removed
  <2>8. WrittenStays'
    BY <1>1, <1>3, <2>1, <2>2, <2>3 DEF MediaInv, WrittenStays
  <2>9. PhotosStored'
    BY <1>1, <1>3 DEF MediaInv, PhotosStored
  <2>10. Answered'
    BY <1>1, <1>3, <2>1, <2>2 DEF MediaInv, Answered, Claimed, Shaped
  <2> QED
    BY <2>4, <2>5, <2>6, <2>7, <2>8, <2>9, <2>10 DEF Preserved
<1>4. CASE UNCHANGED files /\ Becomes(r, Uncopied(request[r]))
  BY <1>1, <1>2, <1>4, CopyGivesUp
<1> QED
  BY <1>3, <1>4 DEF CopyFile

LEMMA CreateCopyStep ==
    ASSUME MediaInv, NEW r \in Requests, CreateCopy(r)
    PROVE  Preserved
<1>1. request[r].kind = "copy" /\ request[r].todo = {} /\ UNCHANGED <<files, drawn, up, lost>>
  BY DEF CreateCopy, Written
<1>2. up
  BY <1>1 DEF MediaInv, Shaped, Idle
<1>3. CASE /\ maps' = maps \cup request[r].map /\ named' = named \cup request[r].names
           /\ Becomes(r, Idle) /\ Calm
  <2>1. request'[r] = Idle /\ \A s \in Requests : s # r => request'[s] = request[s]
    BY <1>3 DEF Becomes, MediaInv, MediaTypeOK
  <2>2. Idle.kind = "idle" /\ Idle.map = {} /\ Idle.names = {} /\ Idle.todo = {}
    BY DEF Idle
  <2>3. stray' = stray
    BY <1>3 DEF Calm
  <2>4. /\ \A x : Alive(x)' => Alive(x)
        /\ \A f \in request[r].names : Alive(f[1])
    BY <1>1, <1>3, <2>1, <2>2 DEF Alive, MediaInv, Shaped
  <2>5. Drawn'
    BY <1>1, <1>3, <2>1, <2>2 DEF MediaInv, Drawn, Shaped
  <2>6. NewMaps'
    BY <1>1, <1>3, <2>1, <2>2 DEF MediaInv, NewMaps
  <2>7. Shaped'
    BY <1>1, <1>2, <2>1, <2>2 DEF MediaInv, Shaped
  <2>8. Apart'
    BY <1>1, <1>3, <2>1, <2>2 DEF MediaInv, Apart, Pending
  <2>9. Removed'
    BY <1>1, <1>3, <2>1, <2>2, <2>4 DEF MediaInv, Removed, Apart, Pending
  <2>10. WrittenStays'
    BY <1>1, <1>3, <2>1, <2>2, <2>4 DEF MediaInv, WrittenStays
  <2>11. PhotosStored'
    BY <1>1, <1>3, <2>4 DEF MediaInv, PhotosStored, WrittenStays
  <2>12. Answered'
    BY <1>1, <1>3, <2>1, <2>2, <2>3 DEF MediaInv, Answered, Claimed
  <2> QED
    BY <2>5, <2>6, <2>7, <2>8, <2>9, <2>10, <2>11, <2>12 DEF Preserved
<1>4. CASE UNCHANGED <<maps, named>> /\ Becomes(r, Uncopied(request[r])) /\ Calm
  BY <1>1, <1>2, <1>4, CopyGivesUp DEF Calm
<1>5. CASE /\ maps' = maps \cup request[r].map /\ named' = named \cup request[r].names
           /\ Becomes(r, Uncopied(request[r])) /\ Mishap
  BY <1>1, <1>2, <1>5, CopyGivesUp DEF Mishap
<1> QED
  BY <1>3, <1>4, <1>5 DEF CreateCopy

\* A stop leaves no request, and a start only takes files that no document names.
LEMMA StopStep ==
    ASSUME MediaInv, Crash \/ Start \/ UNCHANGED mediaVars
    PROVE  Preserved
<1>1. Idle.kind = "idle" /\ Idle.map = {} /\ Idle.names = {} /\ Idle.todo = {}
  BY DEF Idle
<1>2. CASE Crash
  <2>1. /\ \A r \in Requests : request'[r] = Idle
        /\ UNCHANGED <<maps, named, files, drawn, lost>> /\ stray' = TRUE
    BY <1>2 DEF Crash, Mishap
  <2>2. Drawn' /\ Shaped' /\ NewMaps' /\ Apart' /\ Removed' /\ WrittenStays'
    BY <1>1, <2>1 DEF MediaInv, Drawn, Shaped, NewMaps, Apart, Pending, Removed, WrittenStays
  <2> QED
    BY <2>1, <2>2 DEF MediaInv, PhotosStored, Answered, Preserved
<1>3. CASE Start
  <2>1. /\ \A r \in Requests : request[r] = Idle /\ request'[r] = Idle
        /\ UNCHANGED <<maps, named, drawn, lost>> /\ files \cap named \subseteq files' /\ files' \subseteq files
    BY <1>3 DEF Start, MediaInv, Shaped
  <2>2. stray' = stray \/ files' \subseteq named
    BY <1>3 DEF Start
  <2>3. Drawn' /\ Shaped' /\ NewMaps' /\ Apart' /\ Removed' /\ WrittenStays'
    BY <1>1, <2>1 DEF MediaInv, Drawn, Shaped, NewMaps, Apart, Pending, Removed, WrittenStays
  <2>4. PhotosStored'
    BY <2>1 DEF MediaInv, PhotosStored
  <2>5. Answered'
    BY <1>1, <2>1, <2>2 DEF MediaInv, Answered, Claimed
  <2> QED
    BY <2>3, <2>4, <2>5 DEF Preserved
<1>4. CASE UNCHANGED mediaVars
  <2>1. \A x : Alive(x)' <=> Alive(x)
    BY <1>4 DEF Alive, mediaVars
  <2>2. Drawn' /\ Shaped' /\ NewMaps' /\ Apart'
    BY <1>4 DEF MediaInv, Drawn, Shaped, NewMaps, Apart, Pending, mediaVars
  <2>3. Removed' /\ WrittenStays'
    BY <1>4, <2>1 DEF MediaInv, Removed, WrittenStays, mediaVars
  <2>4. PhotosStored' /\ Answered'
    BY <1>4 DEF MediaInv, PhotosStored, Answered, Claimed, mediaVars
  <2> QED
    BY <2>2, <2>3, <2>4 DEF Preserved
<1> QED
  BY <1>2, <1>3, <1>4

-----------------------------------------------------------------------------
(* The theorems.                                                            *)

LEMMA MediaStart == MediaInit => MediaInv
<1> SUFFICES ASSUME MediaInit PROVE MediaInv
  OBVIOUS
<1>1. MediaTypeOK
  BY MediaAssumption DEF MediaInit, MediaTypeOK, Idle
<1>2. \A r \in Requests : request[r] = Idle
  BY DEF MediaInit
<1>3. Idle.kind = "idle" /\ Idle.map = {} /\ Idle.names = {} /\ Idle.todo = {}
  BY DEF Idle
<1>4. Drawn /\ Shaped /\ NewMaps /\ Apart
  BY <1>2, <1>3 DEF MediaInit, Drawn, Shaped, NewMaps, Apart, Pending
<1>5. Removed /\ WrittenStays /\ PhotosStored /\ Answered
  BY <1>2, <1>3 DEF MediaInit, Removed, WrittenStays, PhotosStored, Answered
<1> QED
  BY <1>1, <1>4, <1>5 DEF MediaInv

LEMMA MediaStep == MediaInv /\ [MediaNext]_mediaVars => MediaInv'
<1> SUFFICES ASSUME MediaInv, [MediaNext]_mediaVars PROVE MediaInv'
  OBVIOUS
<1>1. MediaTypeOK'
  BY TypeStep DEF MediaInv
<1>2. Preserved
  BY UploadStep, DetachStep, DeleteMapStep, CopyStep, WriteFileStep, RemoveFileStep, CopyFileStep,
     CommitUploadStep, DiscardStep, CreateCopyStep, StopStep DEF MediaNext, Pairs
<1> QED
  BY <1>1, <1>2 DEF MediaInv, Preserved

\* The invariant behind the two theorems below holds of every behaviour.
THEOREM MediaInvariant == MediaSpec => []MediaInv
BY MediaStart, MediaStep, PTL DEF MediaSpec

\* A photo that a document names has its file, unless the request that committed
\* it was told that it failed (uploadPhotos, duplicateTopology, sweepOrphanedMedia).
THEOREM NamedPhotosAreStored == MediaSpec => []PhotosStored
<1>1. MediaInv => PhotosStored
  BY DEF MediaInv
<1> QED
  BY <1>1, MediaInvariant, PTL

\* At rest there is no file that no document names, unless a mishap left one
\* since the last whole sweep (removeSaved, RemoveTopology, Sweep).
THEOREM NoFileIsForgotten == MediaSpec => []NothingStray
<1>1. MediaInv => NothingStray
  BY DEF MediaInv, NothingStray, Answered, Claimed, Idle
<1> QED
  BY <1>1, MediaInvariant, PTL

-----------------------------------------------------------------------------
(* Numbers.                                                                 *)

\* The order of the numbers is well founded.
LEMMA LessIsWellFounded == IsWellFoundedOn({ss \in Nat \X Nat : ss[1] < ss[2]}, Nat)
BY NatLessThanWellFounded DEF OpToRel

\* A set of numbers has a least one.
LEMMA Smallest ==
    ASSUME NEW T \in SUBSET Nat, T # {}
    PROVE  \E x \in T : \A y \in T : x <= y
<1> DEFINE R == {ss \in Nat \X Nat : ss[1] < ss[2]}
<1>1. IsWellFoundedOn(R, Nat)
  BY LessIsWellFounded
<1> HIDE DEF R
<1>2. PICK x \in T : \A y \in T : ~(<<y, x>> \in R)
  BY <1>1, WFMin
<1>3. \A y \in T : ~(y < x)
  <2>1. SUFFICES ASSUME NEW y \in T, y < x PROVE FALSE
    OBVIOUS
  <2>2. <<y, x>> \in R
    BY <2>1 DEF R
  <2>3. QED
    BY <1>2, <2>2
<1>4. QED
  BY <1>3

\* Least picks the least number of a set.
LEMMA LeastIs ==
    ASSUME NEW T \in SUBSET Nat, T # {}
    PROVE  Least(T) \in T /\ \A y \in T : Least(T) <= y
BY Smallest DEF Least

\* What holds of 0 and of every next number holds of all.
LEMMA Inductive ==
    ASSUME NEW T, 0 \in T, \A n \in Nat : n \in T => n + 1 \in T
    PROVE  Nat \subseteq T
<1>1. SUFFICES ASSUME Nat \ T # {} PROVE FALSE
  OBVIOUS
<1>2. PICK x \in Nat \ T : \A y \in Nat \ T : x <= y
  BY <1>1, Smallest
<1>3. x # 0 /\ x - 1 \in Nat
  BY <1>2
<1>4. x - 1 \in T
  BY <1>2, <1>3
<1>5. (x - 1) + 1 \in T
  BY <1>3, <1>4
<1>6. QED
  BY <1>2, <1>5

Keys == Nat \X Nat \X Nat

\* In the order of the ids and of the bridges there is always a first.
LEMMA LeastKey ==
    ASSUME NEW S, S # {}, NEW f \in [S -> Keys]
    PROVE  \E x \in S : \A y \in S : ~Lexical(f[y], f[x])
<1>0. \A x \in S : f[x][1] \in Nat /\ f[x][2] \in Nat /\ f[x][3] \in Nat
  BY DEF Keys
<1>1. PICK x \in S : \A y \in S : f[x][1] <= f[y][1]
  <2> DEFINE T == {f[z][1] : z \in S}
  <2>1. T \in SUBSET Nat /\ T # {}
    BY <1>0
  <2> HIDE DEF T
  <2>2. PICK m \in T : \A k \in T : m <= k
    BY <2>1, Smallest
  <2>3. QED
    BY <2>2 DEF T
<1> DEFINE U == {y \in S : f[y][1] = f[x][1]}
<1>2. PICK w \in U : \A y \in U : f[w][2] <= f[y][2]
  <2> DEFINE T == {f[z][2] : z \in U}
  <2>1. T \in SUBSET Nat /\ T # {}
    BY <1>0
  <2> HIDE DEF T
  <2>2. PICK m \in T : \A k \in T : m <= k
    BY <2>1, Smallest
  <2>3. QED
    BY <2>2 DEF T
<1> DEFINE V == {y \in U : f[y][2] = f[w][2]}
<1>3. PICK z \in V : \A y \in V : f[z][3] <= f[y][3]
  <2> DEFINE T == {f[y][3] : y \in V}
  <2>1. T \in SUBSET Nat /\ T # {}
    BY <1>0, <1>2
  <2> HIDE DEF T
  <2>2. PICK m \in T : \A k \in T : m <= k
    BY <2>1, Smallest
  <2>3. QED
    BY <2>2 DEF T
<1>4. ASSUME NEW y \in S, Lexical(f[y], f[z]) PROVE FALSE
  <2>1. f[z][1] = f[x][1] /\ f[z][2] = f[w][2] /\ z \in S
    BY <1>2, <1>3
  <2>2. f[z][1] <= f[y][1]
    BY <1>1, <2>1
  <2>3. f[y][1] = f[z][1]
    BY <1>0, <1>4, <2>1, <2>2 DEF Lexical
  <2>4. f[z][2] <= f[y][2]
    BY <1>2, <2>1, <2>3
  <2>5. f[y][2] = f[z][2]
    BY <1>0, <1>4, <2>1, <2>3, <2>4 DEF Lexical
  <2>6. f[z][3] <= f[y][3]
    BY <1>3, <2>1, <2>3, <2>5
  <2>7. QED
    BY <1>0, <1>4, <2>1, <2>3, <2>5, <2>6 DEF Lexical
<1>5. QED
  BY <1>3, <1>4

\* A finite set can be put in order.
LEMMA InOrder ==
    ASSUME NEW U, IsFiniteSet(U), NEW key \in [U -> Keys]
    PROVE  \E f \in [1..Cardinality(U) -> U] :
              \A i, j \in DOMAIN f : i < j => f[i] # f[j] /\ ~Lexical(key[f[j]], key[f[i]])
<1> DEFINE Sorted(f) == \A i, j \in DOMAIN f : i < j => f[i] # f[j] /\ ~Lexical(key[f[j]], key[f[i]])
           T == {n \in Nat : \A S \in SUBSET U :
                    Cardinality(S) = n => \E f \in [1..n -> S] : Sorted(f)}
<1>1. 0 \in T
  <2>1. SUFFICES ASSUME NEW S \in SUBSET U PROVE \E f \in [1..0 -> S] : Sorted(f)
    OBVIOUS
  <2> DEFINE f == [i \in 1..0 |-> i]
  <2>2. f \in [1..0 -> S] /\ Sorted(f)
    OBVIOUS
  <2>3. QED
    BY <2>2
<1>2. ASSUME NEW n \in Nat, n \in T PROVE n + 1 \in T
  <2>1. SUFFICES ASSUME NEW S \in SUBSET U, Cardinality(S) = n + 1
                 PROVE  \E f \in [1..(n + 1) -> S] : Sorted(f)
    OBVIOUS
  <2>2. IsFiniteSet(S)
    BY FS_Subset
  <2>3. S # {}
    BY <2>1, FS_EmptySet
  <2>4. PICK m \in S : \A y \in S : ~Lexical(key[y], key[m])
    <3> DEFINE k == [y \in S |-> key[y]]
    <3>1. k \in [S -> Keys]
      OBVIOUS
    <3>2. \A y \in S : k[y] = key[y]
      OBVIOUS
    <3> HIDE DEF k
    <3>3. PICK m \in S : \A y \in S : ~Lexical(k[y], k[m])
      BY <2>3, <3>1, LeastKey
    <3>4. QED
      BY <3>2, <3>3
  <2> DEFINE R == S \ {m}
  <2>5. R \in SUBSET U
    OBVIOUS
  <2>6. Cardinality(R) = n
    <3>1. Cardinality(R) = Cardinality(S) - 1
      BY <2>2, <2>4, FS_RemoveElement
    <3>2. QED
      BY <2>1, <3>1
  <2>7. PICK g \in [1..n -> R] : Sorted(g)
    BY <1>2, <2>5, <2>6
  <2> DEFINE f == [i \in 1..(n + 1) |-> IF i = 1 THEN m ELSE g[i - 1]]
  <2>8. f \in [1..(n + 1) -> S]
    <3>1. SUFFICES ASSUME NEW i \in 1..(n + 1), i # 1 PROVE g[i - 1] \in S
      OBVIOUS
    <3>2. i - 1 \in 1..n
      BY <3>1
    <3>3. QED
      BY <3>2
  <2>9. ASSUME NEW i \in 1..(n + 1), NEW j \in 1..(n + 1), i < j
        PROVE  f[i] # f[j] /\ ~Lexical(key[f[j]], key[f[i]])
    <3>1. f[j] = g[j - 1] /\ j - 1 \in 1..n /\ g[j - 1] \in R
      BY <2>9
    <3>2. CASE i = 1
      <4>1. f[i] = m
        BY <3>2
      <4>2. QED
        BY <3>1, <4>1, <2>4
    <3>3. CASE i # 1
      <4>1. f[i] = g[i - 1] /\ i - 1 \in 1..n /\ i - 1 < j - 1
        BY <3>3, <2>9
      <4>2. QED
        BY <3>1, <4>1, <2>7
    <3>4. QED
      BY <3>2, <3>3
  <2>10. Sorted(f)
    BY <2>8, <2>9
  <2>11. QED
    BY <2>8, <2>10
<1> HIDE DEF T
<1>3. Nat \subseteq T
  BY <1>1, <1>2, Inductive
<1>4. Cardinality(U) \in T
  BY <1>3, FS_CardinalityType
<1>5. QED
  BY <1>4 DEF T

-----------------------------------------------------------------------------
(* A step, repeated.                                                        *)

\* There is one sequence of states in which each follows from the one before.
LEMMA RunExists ==
    ASSUME NEW S, NEW s \in S, NEW next \in [S -> S]
    PROVE  \E f \in [Nat -> S] : f[0] = s /\ \A n \in Nat : f[n + 1] = next[f[n]]
<1> DEFINE Runs(n) == {f \in [0..n -> S] : f[0] = s /\ \A k \in 0..n : k # n => f[k + 1] = next[f[k]]}
<1>1. \A n \in Nat : Runs(n) # {}
  <2> DEFINE T == {n \in Nat : Runs(n) # {}}
  <2>1. 0 \in T
    <3> DEFINE f == [k \in 0..0 |-> s]
    <3>1. f \in Runs(0)
      OBVIOUS
    <3>2. QED
      BY <3>1
  <2>2. ASSUME NEW n \in Nat, n \in T PROVE n + 1 \in T
    <3>1. PICK g : g \in Runs(n)
      BY <2>2
    <3> DEFINE f == [k \in 0..(n + 1) |-> IF k = n + 1 THEN next[g[n]] ELSE g[k]]
    <3>2. g \in [0..n -> S] /\ g[0] = s
      BY <3>1
    <3>3. f \in [0..(n + 1) -> S]
      BY <3>2
    <3>4. f[0] = s
      BY <3>2
    <3>5. ASSUME NEW k \in 0..(n + 1), k # n + 1 PROVE f[k + 1] = next[f[k]]
      <4>1. CASE k = n
        BY <4>1, <3>2
      <4>2. CASE k # n
        <5>1. k \in 0..n /\ k + 1 \in 0..n
          BY <3>5, <4>2
        <5>2. f[k] = g[k] /\ f[k + 1] = g[k + 1]
          BY <5>1
        <5>3. QED
          BY <3>1, <4>2, <5>1, <5>2
      <4>3. QED
        BY <4>1, <4>2
    <3>6. f \in Runs(n + 1)
      BY <3>3, <3>4, <3>5
    <3>7. QED
      BY <3>6
  <2> HIDE DEF T
  <2>3. Nat \subseteq T
    BY <2>1, <2>2, Inductive
  <2>4. QED
    BY <2>3 DEF T
<1>2. ASSUME NEW n \in Nat, NEW f \in Runs(n), NEW g \in Runs(n + 1)
      PROVE  f[n] = g[n]
  <2> DEFINE T == {k \in Nat : k <= n => f[k] = g[k]}
  <2>1. 0 \in T
    OBVIOUS
  <2>2. ASSUME NEW k \in Nat, k \in T PROVE k + 1 \in T
    <3>1. SUFFICES ASSUME k + 1 <= n PROVE f[k + 1] = g[k + 1]
      OBVIOUS
    <3>2. f[k] = g[k] /\ k \in 0..n /\ k # n /\ k \in 0..(n + 1) /\ k # n + 1
      BY <2>2, <3>1
    <3>3. f[k + 1] = next[f[k]]
      BY <3>2
    <3>4. g[k + 1] = next[g[k]]
      BY <3>2
    <3>5. QED
      BY <3>2, <3>3, <3>4
  <2> HIDE DEF T
  <2>3. Nat \subseteq T
    BY <2>1, <2>2, Inductive
  <2>4. QED
    BY <2>3 DEF T
<1> DEFINE run(n) == CHOOSE f : f \in Runs(n)
           h == [n \in Nat |-> run(n)[n]]
<1>3. \A n \in Nat : run(n) \in Runs(n)
  BY <1>1
<1> HIDE DEF run
<1>4. h \in [Nat -> S]
  <2>1. SUFFICES ASSUME NEW n \in Nat PROVE run(n)[n] \in S
    OBVIOUS
  <2>2. run(n) \in [0..n -> S]
    BY <1>3
  <2>3. QED
    BY <2>2
<1>5. h[0] = s
  BY <1>3
<1>6. ASSUME NEW n \in Nat PROVE h[n + 1] = next[h[n]]
  <2>1. PICK f, g : f = run(n) /\ g = run(n + 1) /\ f \in Runs(n) /\ g \in Runs(n + 1)
    BY <1>3
  <2>2. h[n] = f[n] /\ h[n + 1] = g[n + 1]
    BY <2>1
  <2>3. g[n + 1] = next[g[n]]
    BY <2>1
  <2>4. f[n] = g[n]
    BY <1>2, <2>1
  <2>5. QED
    BY <2>2, <2>3, <2>4
<1>7. QED
  BY <1>4, <1>5, <1>6

-----------------------------------------------------------------------------
(* The breadth-first search.                                                *)

\* Arcs the search can put in order, to finitely many nodes.
ArcsOK(arcs) == IsFiniteSet({x.to : x \in arcs}) /\ \A x \in arcs : x.key \in Keys

\* The nodes that can be seen.
Nodes(arcs, root) == {root} \cup {x.to : x \in arcs}

Entries(arcs, root) ==
    [cost : Nat, from : Nodes(arcs, root), via : {None} \cup {x.via : x \in arcs}]

\* Every node of the tree but the root has an arc to it from a node nearer by one.
Rooted(arcs, root, tree) ==
    /\ root \in DOMAIN tree /\ DOMAIN tree \subseteq Nodes(arcs, root)
    /\ tree \in [DOMAIN tree -> Entries(arcs, root)]
    /\ tree[root].cost = 0 /\ tree[root].from = root
    /\ \A c \in DOMAIN tree \ {root} : \E x \in arcs :
        /\ x.to = c /\ x.from = tree[c].from /\ x.via = tree[c].via
        /\ x.from \in DOMAIN tree /\ tree[c].cost = tree[x.from].cost + 1

\* From c an arc leads to nodes of the tree only, and none farther than by one.
Done(arcs, tree, c) ==
    \A x \in arcs : x.from = c => x.to \in DOMAIN tree /\ tree[x.to].cost <= tree[c].cost + 1

\* What the search comes to.
Searched(arcs, root, tree) ==
    Rooted(arcs, root, tree) /\ \A c \in DOMAIN tree : Done(arcs, tree, c)

\* The nodes of the tree that are not in the queue are done; the queue is in the
\* order of the costs, and no node is farther than its head by more than one.
Searching(arcs, root, s) ==
    /\ Rooted(arcs, root, s.tree)
    /\ \A i \in DOMAIN s.queue : s.queue[i] \in DOMAIN s.tree
    /\ \A c \in DOMAIN s.tree :
        (\A i \in DOMAIN s.queue : s.queue[i] # c) => Done(arcs, s.tree, c)
    /\ \A i, j \in DOMAIN s.queue : i <= j => s.tree[s.queue[i]].cost <= s.tree[s.queue[j]].cost
    /\ \A i \in DOMAIN s.queue, c \in DOMAIN s.tree : s.tree[c].cost <= s.tree[s.queue[i]].cost + 1

States(arcs, root) ==
    [queue : Seq(Nodes(arcs, root)),
     tree : UNION {[D -> Entries(arcs, root)] : D \in SUBSET Nodes(arcs, root)}]

Visited(s, d, new, order, by) ==
    [queue |-> Tail(s.queue) \o order,
     tree |-> [c \in DOMAIN s.tree \cup new |->
         IF c \in DOMAIN s.tree THEN s.tree[c]
         ELSE [cost |-> s.tree[d].cost + 1, from |-> d, via |-> by[c].via]]]

\* What one visit does: the new nodes in some order, and the arcs by which they are seen.
VisitBy(arcs, s, d, new, order, by) ==
    /\ order \in [1..Cardinality(new) -> new] /\ by \in [new -> Onward(arcs, s.tree, d)]
    /\ \A i, j \in DOMAIN order : i < j => order[i] # order[j]
    /\ \A c \in new : by[c].to = c
    /\ Visit(arcs, s) = Visited(s, d, new, order, by)

\* A visit adds the nodes that are seen from the head, each by one arc to it.
LEMMA VisitIs ==
    ASSUME NEW arcs, \A x \in arcs : x.key \in Keys, NEW s, s.queue # <<>>,
           NEW d, d = Head(s.queue), NEW new, new = {x.to : x \in Onward(arcs, s.tree, d)},
           IsFiniteSet(new)
    PROVE  \E order, by : VisitBy(arcs, s, d, new, order, by)
<1> DEFINE ahead == Onward(arcs, s.tree, d)
           To(c) == {x \in ahead : x.to = c}
           By(c) == First(To(c))
           by == [c \in new |-> By(c)]
           Ordered(f) == \A i, j \in DOMAIN f : i < j => f[i] # f[j] /\ ~Earlier(By(f[j]), By(f[i]))
           order == CHOOSE f \in [1..Cardinality(new) -> new] : Ordered(f)
<1>1. \A x \in ahead : x \in arcs
  BY DEF Onward
<1>2. ASSUME NEW c \in new PROVE By(c) \in To(c)
  <2>1. To(c) # {}
    OBVIOUS
  <2> DEFINE key == [x \in To(c) |-> x.key]
  <2>2. key \in [To(c) -> Keys]
    BY <1>1
  <2>3. \A x \in To(c) : key[x] = x.key
    OBVIOUS
  <2>4. PICK x \in To(c) : \A y \in To(c) : ~Lexical(key[y], key[x])
    <3> HIDE DEF key, To
    <3>1. QED
      BY <2>1, <2>2, LeastKey
  <2>5. \A y \in To(c) : ~Earlier(y, x)
    <3> HIDE DEF key, To
    <3>1. QED
      BY <2>3, <2>4 DEF Earlier
  <2>6. QED
    <3> HIDE DEF To
    <3>1. QED
      BY <2>5 DEF First
<1>3. by \in [new -> ahead] /\ \A c \in new : by[c] = By(c) /\ by[c].to = c
  <2>1. \A c \in new : By(c) \in ahead /\ By(c).to = c
    BY <1>2
  <2> HIDE DEF By, ahead
  <2>2. QED
    BY <2>1
<1>4. order \in [1..Cardinality(new) -> new] /\ Ordered(order)
  <2> DEFINE key == [c \in new |-> By(c).key]
  <2>1. key \in [new -> Keys]
    BY <1>1, <1>2
  <2>2. \A c \in new : key[c] = By(c).key
    OBVIOUS
  <2> HIDE DEF By, key
  <2>3. PICK f \in [1..Cardinality(new) -> new] :
            \A i, j \in DOMAIN f : i < j => f[i] # f[j] /\ ~Lexical(key[f[j]], key[f[i]])
    BY <2>1, InOrder
  <2>4. Ordered(f)
    BY <2>2, <2>3 DEF Earlier
  <2> HIDE DEF Ordered
  <2>5. QED
    BY <2>4
<1>5. Visit(arcs, s) =
          [queue |-> Tail(s.queue) \o order,
           tree |-> [c \in DOMAIN s.tree \cup new |->
               IF c \in DOMAIN s.tree THEN s.tree[c]
               ELSE [cost |-> s.tree[d].cost + 1, from |-> d, via |-> By(c).via]]]
  BY DEF Visit
<1>6. [c \in DOMAIN s.tree \cup new |->
               IF c \in DOMAIN s.tree THEN s.tree[c]
               ELSE [cost |-> s.tree[d].cost + 1, from |-> d, via |-> By(c).via]]
      = [c \in DOMAIN s.tree \cup new |->
               IF c \in DOMAIN s.tree THEN s.tree[c]
               ELSE [cost |-> s.tree[d].cost + 1, from |-> d, via |-> by[c].via]]
  <2> HIDE DEF By, by
  <2>1. QED
    BY <1>3
<1> HIDE DEF By, by, order, ahead
<1>7. \A i, j \in DOMAIN order : i < j => order[i] # order[j]
  BY <1>4
<1>8. Visit(arcs, s) = Visited(s, d, new, order, by)
  BY <1>5, <1>6 DEF Visited
<1>9. VisitBy(arcs, s, d, new, order, by)
  BY <1>3, <1>4, <1>7, <1>8 DEF VisitBy, ahead
<1>10. QED
  BY <1>9

\* How many turns the search takes yet.
Left(arcs, root, s) == Len(s.queue) + Cardinality(Nodes(arcs, root) \ DOMAIN s.tree)

\* An enumeration without repetition of as many as there are misses none.
LEMMA AllCome ==
    ASSUME NEW S, IsFiniteSet(S), NEW order \in [1..Cardinality(S) -> S],
           \A i, j \in DOMAIN order : i < j => order[i] # order[j]
    PROVE  \A c \in S : \E i \in 1..Cardinality(S) : order[i] = c
<1> DEFINE n == Cardinality(S)
<1>0. n \in Nat
  BY FS_CardinalityType
<1>1. \A i, j \in 1..n : i # j => order[i] # order[j]
  <2>1. SUFFICES ASSUME NEW i \in 1..n, NEW j \in 1..n, i # j PROVE order[i] # order[j]
    OBVIOUS
  <2>2. i < j \/ j < i
    BY <1>0, <2>1
  <2>3. QED
    BY <2>2
<1>2. order \in Injection(1..n, S)
  BY <1>1 DEF Injection, IsInjective
<1>3. IsFiniteSet(1..n) /\ Cardinality(1..n) = n
  BY <1>0, FS_Interval
<1>4. order \in Surjection(1..n, S)
  BY <1>2, <1>3, FS_Injection
<1>5. QED
  BY <1>4 DEF Surjection

\* One turn of the search keeps its invariant and leaves one node fewer to visit.
LEMMA VisitSearches ==
    ASSUME NEW arcs, NEW root, ArcsOK(arcs),
           NEW s \in States(arcs, root), Searching(arcs, root, s), s.queue # <<>>,
           NEW u, u = Visit(arcs, s)
    PROVE  /\ u \in States(arcs, root) /\ Searching(arcs, root, u)
           /\ Left(arcs, root, u) = Left(arcs, root, s) - 1
<1> DEFINE N == Nodes(arcs, root)
           E == Entries(arcs, root)
<1>1. IsFiniteSet(N)
  <2>1. IsFiniteSet({x.to : x \in arcs} \cup {root})
    BY FS_AddElement DEF ArcsOK
  <2>2. QED
    BY <2>1, Zenon DEF Nodes
<1>2. PICK d : d = Head(s.queue)
  OBVIOUS
<1> DEFINE Q == Tail(s.queue)
<1>3. s.queue \in Seq(N)
  BY DEF States
<1>4. Len(s.queue) \in Nat \ {0} /\ DOMAIN s.queue = 1..Len(s.queue)
  <2>1. Len(s.queue) \in Nat /\ DOMAIN s.queue = 1..Len(s.queue)
    BY <1>3, LenProperties
  <2>2. Len(s.queue) # 0
    BY <1>3, EmptySeq
  <2>3. QED
    BY <2>1, <2>2
<1>5. d = s.queue[1] /\ 1 \in DOMAIN s.queue /\ d \in DOMAIN s.tree /\ d \in N
  <2>1. d = s.queue[1]
    BY <1>2, <1>3, <1>4
  <2>2. 1 \in DOMAIN s.queue
    BY <1>4
  <2>3. d \in DOMAIN s.tree
    BY <2>1, <2>2 DEF Searching
  <2>4. d \in N
    BY <2>3 DEF Searching, Rooted
  <2>5. QED
    BY <2>1, <2>2, <2>3, <2>4
<1>6. PICK new : new = {x.to : x \in Onward(arcs, s.tree, d)}
  OBVIOUS
<1>7. new \subseteq N /\ new \cap DOMAIN s.tree = {}
  BY <1>6 DEF Onward, Nodes
<1>8. IsFiniteSet(new)
  BY <1>1, <1>7, FS_Subset
<1>9. PICK order, by : VisitBy(arcs, s, d, new, order, by)
  <2>1. \A x \in arcs : x.key \in Keys
    BY DEF ArcsOK
  <2>2. QED
    BY <2>1, <1>2, <1>6, <1>8, VisitIs
<1>9a. /\ order \in [1..Cardinality(new) -> new] /\ by \in [new -> Onward(arcs, s.tree, d)]
       /\ \A i, j \in DOMAIN order : i < j => order[i] # order[j]
       /\ \A c \in new : by[c].to = c
       /\ Visit(arcs, s) = Visited(s, d, new, order, by)
  BY <1>9 DEF VisitBy
<1>10. u.queue = Q \o order /\ u = [queue |-> u.queue, tree |-> u.tree]
  BY <1>9a DEF Visited
<1>11. /\ DOMAIN u.tree = DOMAIN s.tree \cup new
       /\ \A c \in DOMAIN s.tree : u.tree[c] = s.tree[c]
       /\ \A c \in new : u.tree[c] = [cost |-> s.tree[d].cost + 1, from |-> d, via |-> by[c].via]
       /\ u.tree = [c \in DOMAIN u.tree |-> u.tree[c]]
  BY <1>7, <1>9a DEF Visited
<1>12. Cardinality(new) \in Nat
  BY <1>8, FS_CardinalityType
<1>13. /\ Q \in Seq(N) /\ Len(Q) = Len(s.queue) - 1 /\ Len(Q) \in Nat
  BY <1>3, <1>4, HeadTailProperties
<1>14. \A i \in 1..Len(Q) : Q[i] = s.queue[i + 1] /\ i + 1 \in DOMAIN s.queue
  <2>1. Q = SubSeq(s.queue, 2, Len(s.queue))
    BY <1>3, TailIsSubSeq
  <2>2. \A i \in 2..Len(s.queue) : s.queue[i] \in N
    BY <1>3, <1>4, ElementOfSeq
  <2>3. \A i \in 1..(Len(s.queue) - 2 + 1) : SubSeq(s.queue, 2, Len(s.queue))[i] = s.queue[2 + i - 1]
    BY <1>4, <2>2, SubSeqProperties
  <2>4. QED
    BY <1>4, <1>13, <2>1, <2>3
<1>15. order \in Seq(N) /\ Len(order) = Cardinality(new)
  BY <1>7, <1>9a, <1>12
<1>16. /\ u.queue \in Seq(N) /\ Len(u.queue) = Len(Q) + Cardinality(new)
       /\ DOMAIN u.queue = 1..(Len(Q) + Cardinality(new))
       /\ \A i \in 1..(Len(Q) + Cardinality(new)) :
            u.queue[i] = IF i <= Len(Q) THEN Q[i] ELSE order[i - Len(Q)]
  <2>1. /\ u.queue \in Seq(N) /\ Len(u.queue) = Len(Q) + Cardinality(new)
        /\ \A i \in 1..(Len(Q) + Cardinality(new)) :
             u.queue[i] = IF i <= Len(Q) THEN Q[i] ELSE order[i - Len(Q)]
    <3>1. Q \in Seq(N) /\ order \in Seq(N)
      BY <1>13, <1>15
    <3>2. /\ Q \o order \in Seq(N) /\ Len(Q \o order) = Len(Q) + Len(order)
          /\ \A i \in 1..(Len(Q) + Len(order)) :
               (Q \o order)[i] = IF i <= Len(Q) THEN Q[i] ELSE order[i - Len(Q)]
      BY <3>1, ConcatProperties, Zenon
    <3>3. QED
      BY <1>10, <1>15, <3>2, Zenon
  <2>2. QED
    BY <2>1, LenProperties
<1>17. ASSUME NEW i \in DOMAIN u.queue
       PROVE  \/ i <= Len(Q) /\ i + 1 \in DOMAIN s.queue /\ u.queue[i] = s.queue[i + 1]
              \/ i > Len(Q) /\ u.queue[i] \in new
  <2>1. CASE i <= Len(Q)
    <3>1. i \in 1..Len(Q) /\ u.queue[i] = Q[i]
      BY <1>12, <1>13, <1>16, <2>1
    <3>2. QED
      BY <1>14, <2>1, <3>1
  <2>2. CASE i > Len(Q)
    <3>1. i \in 1..(Len(Q) + Cardinality(new)) /\ ~(i <= Len(Q))
      BY <1>12, <1>13, <1>16, <2>2
    <3>2. i - Len(Q) \in 1..Cardinality(new)
      BY <1>12, <1>13, <3>1
    <3>3. u.queue[i] = order[i - Len(Q)]
      BY <1>16, <3>1
    <3>4. QED
      BY <1>9a, <2>2, <3>2, <3>3
  <2>3. QED
    BY <2>1, <2>2, <1>12, <1>13, <1>16
<1>18. \A c \in new : \E i \in DOMAIN u.queue : u.queue[i] = c
  <2>1. SUFFICES ASSUME NEW c \in new PROVE \E i \in DOMAIN u.queue : u.queue[i] = c
    OBVIOUS
  <2>2. PICK k \in 1..Cardinality(new) : order[k] = c
    BY <1>8, <1>9a, AllCome
  <2>3. Len(Q) + k \in DOMAIN u.queue /\ ~(Len(Q) + k <= Len(Q)) /\ (Len(Q) + k) - Len(Q) = k
    BY <1>12, <1>13, <1>16
  <2>4. QED
    BY <1>16, <2>2, <2>3
<1>19. \A c \in DOMAIN s.tree : s.tree[c] \in E
  BY DEF Searching, Rooted
<1>20. /\ \A c \in DOMAIN s.tree : s.tree[c].cost \in Nat
       /\ E = [cost : Nat, from : N, via : {None} \cup {x.via : x \in arcs}]
  BY <1>19 DEF Entries
<1>21. \A c \in new : by[c] \in arcs /\ by[c].from = d /\ by[c].to = c
  BY <1>9a DEF Onward
<1>22. \A c \in new : u.tree[c] \in E
  <2>1. SUFFICES ASSUME NEW c \in new PROVE u.tree[c] \in E
    OBVIOUS
  <2>2. s.tree[d].cost + 1 \in Nat
    BY <1>5, <1>20
  <2>3. by[c].via \in {x.via : x \in arcs}
    BY <1>21
  <2>4. u.tree[c] = [cost |-> s.tree[d].cost + 1, from |-> d, via |-> by[c].via]
    BY <1>11
  <2>5. [cost |-> s.tree[d].cost + 1, from |-> d, via |-> by[c].via]
          \in [cost : Nat, from : N, via : {None} \cup {x.via : x \in arcs}]
    BY <1>5, <2>2, <2>3
  <2>6. QED
    BY <1>20, <2>4, <2>5
<1>23. \A c \in new : u.tree[c].cost = s.tree[d].cost + 1 /\ u.tree[c].from = d /\ u.tree[c].via = by[c].via
  <2>1. SUFFICES ASSUME NEW c \in new
                 PROVE  u.tree[c].cost = s.tree[d].cost + 1 /\ u.tree[c].from = d /\ u.tree[c].via = by[c].via
    OBVIOUS
  <2>2. u.tree[c] = [cost |-> s.tree[d].cost + 1, from |-> d, via |-> by[c].via]
    BY <1>11
  <2>3. QED
    BY <2>2
<1>24. u.tree \in [DOMAIN u.tree -> E] /\ DOMAIN u.tree \subseteq N
  <2>1. \A c \in DOMAIN u.tree : u.tree[c] \in E
    BY <1>11, <1>19, <1>22
  <2>2. DOMAIN s.tree \subseteq N
    BY DEF Searching, Rooted
  <2>3. QED
    BY <1>7, <1>11, <2>1, <2>2
<1>25. u \in States(arcs, root)
  BY <1>10, <1>16, <1>24, Zenon DEF States
<1>26. Rooted(arcs, root, u.tree)
  <2>1. root \in DOMAIN s.tree /\ s.tree[root].cost = 0 /\ s.tree[root].from = root
    BY DEF Searching, Rooted
  <2>2. root \in DOMAIN u.tree /\ u.tree[root].cost = 0 /\ u.tree[root].from = root
    BY <1>11, <2>1
  <2>3. ASSUME NEW c \in DOMAIN u.tree \ {root}
        PROVE  \E x \in arcs :
                 /\ x.to = c /\ x.from = u.tree[c].from /\ x.via = u.tree[c].via
                 /\ x.from \in DOMAIN u.tree /\ u.tree[c].cost = u.tree[x.from].cost + 1
    <3>1. CASE c \in DOMAIN s.tree
      <4>1. PICK x \in arcs :
                 /\ x.to = c /\ x.from = s.tree[c].from /\ x.via = s.tree[c].via
                 /\ x.from \in DOMAIN s.tree /\ s.tree[c].cost = s.tree[x.from].cost + 1
        BY <2>3, <3>1 DEF Searching, Rooted
      <4>2. QED
        BY <1>11, <3>1, <4>1
    <3>2. CASE c \in new
      <4>1. u.tree[d] = s.tree[d] /\ d \in DOMAIN u.tree
        BY <1>5, <1>11
      <4>2. QED
        BY <1>21, <1>23, <3>2, <4>1
    <3>3. QED
      BY <1>11, <2>3, <3>1, <3>2
  <2>4. QED
    BY <1>24, <2>2, <2>3 DEF Rooted
<1>27. \A i \in DOMAIN u.queue : u.queue[i] \in DOMAIN u.tree
  <2>1. \A i \in DOMAIN s.queue : s.queue[i] \in DOMAIN s.tree
    BY DEF Searching
  <2>2. QED
    BY <1>11, <1>17, <2>1
<1>28. \A i \in DOMAIN s.queue, c \in DOMAIN s.tree : s.tree[c].cost <= s.tree[s.queue[i]].cost + 1
  BY DEF Searching
<1>29. ASSUME NEW c \in DOMAIN u.tree, \A i \in DOMAIN u.queue : u.queue[i] # c
       PROVE  Done(arcs, u.tree, c)
  <2>1. c \in DOMAIN s.tree /\ c \notin new
    BY <1>11, <1>18, <1>29
  <2>2. CASE c = d
    <3>1. SUFFICES ASSUME NEW x \in arcs, x.from = d
                   PROVE  x.to \in DOMAIN u.tree /\ u.tree[x.to].cost <= u.tree[d].cost + 1
      BY <2>2 DEF Done
    <3>2. u.tree[d] = s.tree[d] /\ s.tree[d].cost \in Nat
      BY <1>5, <1>11, <1>20
    <3>3. CASE x.to \in DOMAIN s.tree
      <4>1. s.tree[x.to].cost <= s.tree[d].cost + 1
        BY <1>5, <1>28, <3>3
      <4>2. QED
        BY <1>11, <3>2, <3>3, <4>1
    <3>4. CASE x.to \notin DOMAIN s.tree
      <4>1. x.to \in new
        BY <1>6, <3>1, <3>4 DEF Onward
      <4>2. u.tree[x.to].cost = s.tree[d].cost + 1
        BY <1>23, <4>1
      <4>3. QED
        BY <1>11, <3>2, <4>1, <4>2
    <3>5. QED
      BY <3>3, <3>4
  <2>3. CASE c # d
    <3>1. ASSUME NEW i \in DOMAIN s.queue PROVE s.queue[i] # c
      <4>1. CASE i = 1
        BY <1>5, <2>3, <4>1
      <4>2. CASE i # 1
        <5>1. i - 1 \in 1..Len(Q) /\ (i - 1) + 1 = i
          BY <1>4, <1>13, <4>2
        <5>2. Q[i - 1] = s.queue[i]
          BY <1>14, <5>1
        <5>3. i - 1 \in DOMAIN u.queue /\ u.queue[i - 1] = Q[i - 1]
          BY <1>12, <1>13, <1>16, <5>1
        <5>4. QED
          BY <1>29, <5>2, <5>3
      <4>3. QED
        BY <4>1, <4>2
    <3>2. Done(arcs, s.tree, c)
      BY <2>1, <3>1 DEF Searching
    <3>3. QED
      BY <1>11, <2>1, <3>2 DEF Done
  <2>4. QED
    BY <2>2, <2>3
<1>30. \A i, j \in DOMAIN s.queue : i <= j => s.tree[s.queue[i]].cost <= s.tree[s.queue[j]].cost
  BY DEF Searching
<1>31. \A i \in DOMAIN u.queue :
          /\ u.tree[u.queue[i]].cost \in Nat
          /\ s.tree[d].cost <= u.tree[u.queue[i]].cost
          /\ u.tree[u.queue[i]].cost <= s.tree[d].cost + 1
  <2>1. SUFFICES ASSUME NEW i \in DOMAIN u.queue
                 PROVE /\ u.tree[u.queue[i]].cost \in Nat
                       /\ s.tree[d].cost <= u.tree[u.queue[i]].cost
                       /\ u.tree[u.queue[i]].cost <= s.tree[d].cost + 1
    OBVIOUS
  <2>2. s.tree[d].cost \in Nat
    BY <1>5, <1>20
  <2>3. CASE i <= Len(Q) /\ i + 1 \in DOMAIN s.queue /\ u.queue[i] = s.queue[i + 1]
    <3>1. s.queue[i + 1] \in DOMAIN s.tree
      BY <2>3 DEF Searching
    <3>2. s.tree[d].cost <= s.tree[s.queue[i + 1]].cost
      <4>1. 1 <= i + 1
        BY <1>4, <2>3
      <4>2. QED
        BY <1>5, <1>30, <2>3, <4>1
    <3>3. s.tree[s.queue[i + 1]].cost <= s.tree[d].cost + 1
      BY <1>5, <1>28, <3>1
    <3>4. u.tree[u.queue[i]] = s.tree[s.queue[i + 1]]
      BY <1>11, <2>3, <3>1
    <3>5. QED
      BY <1>20, <3>1, <3>2, <3>3, <3>4
  <2>4. CASE i > Len(Q) /\ u.queue[i] \in new
    BY <1>23, <2>2, <2>4
  <2>5. QED
    BY <1>17, <2>3, <2>4
<1>32. ASSUME NEW i \in DOMAIN u.queue, NEW j \in DOMAIN u.queue, i <= j
       PROVE  u.tree[u.queue[i]].cost <= u.tree[u.queue[j]].cost
  <2>1. CASE j > Len(Q) /\ u.queue[j] \in new
    <3>1. u.tree[u.queue[j]].cost = s.tree[d].cost + 1
      BY <1>23, <2>1
    <3>2. QED
      BY <1>31, <3>1
  <2>2. CASE j <= Len(Q) /\ j + 1 \in DOMAIN s.queue /\ u.queue[j] = s.queue[j + 1]
    <3>1. i <= Len(Q) /\ i + 1 \in DOMAIN s.queue /\ u.queue[i] = s.queue[i + 1]
      <4>1. ~(i > Len(Q))
        BY <1>12, <1>13, <1>16, <1>32, <2>2
      <4>2. QED
        BY <1>17, <4>1
    <3>2. i + 1 <= j + 1
      BY <1>12, <1>13, <1>16, <1>32
    <3>3. s.tree[s.queue[i + 1]].cost <= s.tree[s.queue[j + 1]].cost
      BY <1>30, <2>2, <3>1, <3>2
    <3>4. s.queue[i + 1] \in DOMAIN s.tree /\ s.queue[j + 1] \in DOMAIN s.tree
      BY <2>2, <3>1 DEF Searching
    <3>5. QED
      BY <1>11, <2>2, <3>1, <3>3, <3>4
  <2>3. QED
    BY <1>17, <2>1, <2>2
<1>33. ASSUME NEW i \in DOMAIN u.queue, NEW c \in DOMAIN u.tree
       PROVE  u.tree[c].cost <= u.tree[u.queue[i]].cost + 1
  <2>1. s.tree[d].cost \in Nat
    BY <1>5, <1>20
  <2>2. u.tree[c].cost \in Nat /\ u.tree[c].cost <= s.tree[d].cost + 1
    <3>1. CASE c \in DOMAIN s.tree
      BY <1>5, <1>11, <1>20, <1>28, <3>1
    <3>2. CASE c \in new
      BY <1>23, <2>1, <3>2
    <3>3. QED
      BY <1>11, <3>1, <3>2
  <2>3. QED
    BY <1>31, <2>1, <2>2
<1>34. Searching(arcs, root, u)
  BY <1>26, <1>27, <1>29, <1>32, <1>33 DEF Searching
<1>35. Left(arcs, root, u) = Left(arcs, root, s) - 1
  <2>1. IsFiniteSet(N \ DOMAIN s.tree)
    BY <1>1, FS_Difference
  <2>2. N \ DOMAIN u.tree = (N \ DOMAIN s.tree) \ new
    BY <1>11
  <2>3. Cardinality((N \ DOMAIN s.tree) \ new)
          = Cardinality(N \ DOMAIN s.tree) - Cardinality((N \ DOMAIN s.tree) \cap new)
    BY <2>1, FS_Difference
  <2>4. (N \ DOMAIN s.tree) \cap new = new
    BY <1>7
  <2>5. Cardinality(N \ DOMAIN s.tree) \in Nat
    BY <2>1, FS_CardinalityType
  <2>6. Cardinality(N \ DOMAIN u.tree) = Cardinality(N \ DOMAIN s.tree) - Cardinality(new)
    BY <2>2, <2>3, <2>4
  <2>7. Len(u.queue) = (Len(s.queue) - 1) + Cardinality(new)
    BY <1>13, <1>16
  <2> HIDE DEF N
  <2>8. Len(u.queue) + Cardinality(N \ DOMAIN u.tree) = (Len(s.queue) + Cardinality(N \ DOMAIN s.tree)) - 1
    <3>1. PICK a, b, k, e, f :
            /\ a = Len(u.queue) /\ b = Len(s.queue) /\ k = Cardinality(new)
            /\ e = Cardinality(N \ DOMAIN u.tree) /\ f = Cardinality(N \ DOMAIN s.tree)
      OBVIOUS
    <3>2. b \in Nat /\ k \in Nat /\ f \in Nat /\ e = f - k /\ a = (b - 1) + k
      BY <1>4, <1>12, <2>5, <2>6, <2>7, <3>1
    <3>3. a + e = (b + f) - 1
      BY <3>2
    <3>4. QED
      BY <3>1, <3>3
  <2>9. /\ Left(arcs, root, u) = Len(u.queue) + Cardinality(N \ DOMAIN u.tree)
        /\ Left(arcs, root, s) = Len(s.queue) + Cardinality(N \ DOMAIN s.tree)
    BY Zenon DEF Left, N
  <2>10. QED
    BY <2>8, <2>9, Zenon
<1>36. QED
  BY <1>25, <1>34, <1>35

\* A search that stands at its root satisfies the invariant.
LEMMA StartSearches ==
    ASSUME NEW arcs, NEW root, ArcsOK(arcs)
    PROVE  /\ AtRoot(root) \in States(arcs, root) /\ Searching(arcs, root, AtRoot(root))
           /\ Left(arcs, root, AtRoot(root)) = Cardinality(Nodes(arcs, root))
           /\ Cardinality(Nodes(arcs, root)) \in Nat
<1> DEFINE N == Nodes(arcs, root)
           E == Entries(arcs, root)
           T == [d \in {root} |-> [cost |-> 0, from |-> root, via |-> None]]
<1>1. AtRoot(root).queue = <<root>> /\ AtRoot(root).tree = T
  BY DEF AtRoot
<1>2. DOMAIN T = {root} /\ T[root] = [cost |-> 0, from |-> root, via |-> None] /\ root \in N
  BY DEF Nodes
<1>3. T[root].cost = 0 /\ T[root].from = root
  BY <1>2
<1>4. T \in [{root} -> E] /\ {root} \in SUBSET N
  BY <1>2 DEF Entries
<1>5. Rooted(arcs, root, T)
  <2> HIDE DEF T
  <2>1. QED
    BY <1>2, <1>3, <1>4 DEF Rooted
<1>6. <<root>> \in Seq(N) /\ DOMAIN <<root>> = {1} /\ <<root>>[1] = root /\ Len(<<root>>) = 1
  BY <1>2
<1>7. AtRoot(root) \in States(arcs, root)
  BY <1>4, <1>6 DEF AtRoot, States
<1>8. Searching(arcs, root, AtRoot(root))
  <2> HIDE DEF T
  <2>1. QED
    BY <1>1, <1>2, <1>3, <1>5, <1>6 DEF Searching
<1>9. IsFiniteSet(N)
  <2>1. IsFiniteSet({x.to : x \in arcs} \cup {root})
    BY FS_AddElement DEF ArcsOK
  <2>2. QED
    BY <2>1, Zenon DEF Nodes
<1>10. Cardinality(N) \in Nat /\ Cardinality(N \ {root}) = Cardinality(N) - 1
  BY <1>2, <1>9, FS_CardinalityType, FS_RemoveElement
<1>11. Left(arcs, root, AtRoot(root)) = 1 + Cardinality(N \ {root})
  BY <1>1, <1>2, <1>6 DEF Left
<1> HIDE DEF N
<1>12. Left(arcs, root, AtRoot(root)) = Cardinality(N)
  BY <1>10, <1>11
<1>13. QED
  BY <1>7, <1>8, <1>10, <1>12 DEF N

\* The search sees what can be reached and nothing else, each node by as few arcs
\* as there can be.
THEOREM SearchIsRight ==
    ASSUME NEW arcs, NEW root, ArcsOK(arcs)
    PROVE  Searched(arcs, root, Explored(arcs, root))
<1> DEFINE N == Nodes(arcs, root)
           S == {s \in States(arcs, root) : Searching(arcs, root, s)}
           Runs(h) == h = [n \in Nat |-> IF n = 0 THEN AtRoot(root) ELSE Visit(arcs, h[n - 1])]
           run == CHOOSE h : Runs(h)
<1>1. AtRoot(root) \in S
  BY StartSearches
<1>2. ASSUME NEW s \in S PROVE Visit(arcs, s) \in S
  <2>1. CASE s.queue = <<>>
    BY <2>1 DEF Visit
  <2>2. CASE s.queue # <<>>
    BY <2>2, VisitSearches
  <2>3. QED
    BY <2>1, <2>2
<1>3. \E h : Runs(h)
  <2> DEFINE next == [s \in S |-> Visit(arcs, s)]
  <2>1. next \in [S -> S]
    BY <1>2
  <2>2. \A s \in S : next[s] = Visit(arcs, s)
    OBVIOUS
  <2> HIDE DEF S, next
  <2>3. PICK f \in [Nat -> S] : f[0] = AtRoot(root) /\ \A n \in Nat : f[n + 1] = next[f[n]]
    BY <1>1, <2>1, RunExists
  <2>4. \A n \in Nat : n # 0 => f[n] = Visit(arcs, f[n - 1])
    <3>1. SUFFICES ASSUME NEW n \in Nat, n # 0 PROVE f[n] = Visit(arcs, f[n - 1])
      OBVIOUS
    <3>2. n - 1 \in Nat /\ (n - 1) + 1 = n
      BY <3>1
    <3>3. f[n] = next[f[n - 1]]
      BY <2>3, <3>2
    <3>4. f[n - 1] \in S
      BY <2>3, <3>2
    <3>5. QED
      BY <2>2, <3>3, <3>4
  <2>5. Runs(f)
    BY <2>3, <2>4
  <2>6. QED
    BY <2>5
<1>4. Runs(run)
  BY <1>3
<1>5. Explored(arcs, root) = run[Cardinality(N)].tree
  BY DEF Explored, Nodes
<1> HIDE DEF run
<1>6. run[0] = AtRoot(root) /\ \A n \in Nat : run[n + 1] = Visit(arcs, run[n])
  <2>1. run[0] = AtRoot(root)
    BY <1>4
  <2>2. ASSUME NEW n \in Nat PROVE run[n + 1] = Visit(arcs, run[n])
    <3>1. n + 1 \in Nat /\ n + 1 # 0 /\ (n + 1) - 1 = n
      OBVIOUS
    <3>2. QED
      BY <1>4, <3>1
  <2>3. QED
    BY <2>1, <2>2
<1> DEFINE T == {n \in Nat : /\ run[n] \in S
                             /\ run[n].queue = <<>> \/ Left(arcs, root, run[n]) = Cardinality(N) - n}
<1> HIDE DEF S
<1>7. 0 \in T
  <2>1. Left(arcs, root, AtRoot(root)) = Cardinality(N) /\ Cardinality(N) \in Nat
    BY StartSearches
  <2> HIDE DEF N
  <2>2. QED
    BY <1>1, <1>6, <2>1
<1>8. ASSUME NEW n \in Nat, n \in T PROVE n + 1 \in T
  <2>1. PICK s, u : s = run[n] /\ u = run[n + 1] /\ u = Visit(arcs, s) /\ s \in S
    BY <1>6, <1>8
  <2>2. u \in S
    BY <1>2, <2>1
  <2>0. SUFFICES u.queue = <<>> \/ Left(arcs, root, u) = Cardinality(N) - (n + 1)
    <3> HIDE DEF N
    <3>1. n + 1 \in Nat /\ run[n + 1] \in S
      BY <2>1, <2>2
    <3>2. run[n + 1].queue = <<>> \/ Left(arcs, root, run[n + 1]) = Cardinality(N) - (n + 1)
      BY <2>1, Zenon
    <3>3. QED
      BY <3>1, <3>2, Zenon
  <2>3. CASE s.queue = <<>>
    <3>1. u = s
      BY <2>1, <2>3 DEF Visit
    <3>2. QED
      BY <2>3, <3>1
  <2>4. CASE s.queue # <<>>
    <3>1. Left(arcs, root, u) = Left(arcs, root, s) - 1
      BY <2>1, <2>4, VisitSearches DEF S
    <3>2. Left(arcs, root, s) = Cardinality(N) - n
      BY <1>8, <2>1, <2>4
    <3>3. Cardinality(N) \in Nat
      BY StartSearches
    <3> HIDE DEF N
    <3>4. Left(arcs, root, u) = Cardinality(N) - (n + 1)
      <4>1. PICK a, b, k : a = Left(arcs, root, u) /\ b = Left(arcs, root, s) /\ k = Cardinality(N)
        OBVIOUS
      <4>2. a = b - 1 /\ b = k - n /\ k \in Nat
        BY <3>1, <3>2, <3>3, <4>1
      <4>3. a = k - (n + 1)
        BY <4>2
      <4>4. QED
        BY <4>1, <4>3
    <3>5. QED
      BY <3>4
  <2>5. QED
    BY <2>3, <2>4
<1> HIDE DEF T
<1>9. Nat \subseteq T
  BY <1>7, <1>8, Inductive
<1>10. PICK s : s = run[Cardinality(N)]
  OBVIOUS
<1>11. Cardinality(N) \in T /\ Cardinality(N) \in Nat
  BY <1>9, StartSearches
<1>12. s \in S /\ (s.queue = <<>> \/ Left(arcs, root, s) = Cardinality(N) - Cardinality(N))
  BY <1>10, <1>11 DEF T
<1>13. s.queue = <<>>
  <2>1. SUFFICES ASSUME Left(arcs, root, s) = Cardinality(N) - Cardinality(N) PROVE s.queue = <<>>
    BY <1>12
  <2>2. s.queue \in Seq(N)
    BY <1>12 DEF S, States
  <2>3. Len(s.queue) \in Nat /\ (s.queue # <<>> => Len(s.queue) \in Nat \ {0})
    BY <2>2, LenProperties, EmptySeq
  <2>4. IsFiniteSet(N \ DOMAIN s.tree)
    <3>1. IsFiniteSet({x.to : x \in arcs} \cup {root})
      BY FS_AddElement DEF ArcsOK
    <3>2. IsFiniteSet(N)
      <4>1. N = {x.to : x \in arcs} \cup {root}
        BY DEF Nodes
      <4>2. QED
        BY <3>1, <4>1
    <3>3. QED
      BY <3>2, FS_Difference
  <2>5. Cardinality(N \ DOMAIN s.tree) \in Nat
    BY <2>4, FS_CardinalityType
  <2>6. Len(s.queue) + Cardinality(N \ DOMAIN s.tree) = 0
    <3>1. Cardinality(N) - Cardinality(N) = 0
      BY <1>11
    <3>2. Left(arcs, root, s) = Len(s.queue) + Cardinality(N \ DOMAIN s.tree)
      BY Zenon DEF Left
    <3>3. QED
      BY <2>1, <3>1, <3>2, Zenon
  <2> HIDE DEF N
  <2>7. QED
    BY <2>3, <2>5, <2>6
<1>14. Searching(arcs, root, s)
  BY <1>12 DEF S
<1>15. DOMAIN s.queue = {}
  BY <1>13
<1>16. Searched(arcs, root, s.tree)
  BY <1>14, <1>15 DEF Searching, Searched
<1>17. QED
  BY <1>5, <1>10, <1>16

-----------------------------------------------------------------------------
(* What follows from a search.                                              *)

\* Of some nodes of the tree without the root, one is reached from outside them.
LEMMA Nearest ==
    ASSUME NEW arcs, NEW root, NEW tree, Rooted(arcs, root, tree),
           NEW W \in SUBSET (DOMAIN tree \ {root}), W # {}
    PROVE  \E w \in W : /\ tree[w].from \in DOMAIN tree \ W
                        /\ \A c \in W : tree[w].cost <= tree[c].cost
<1>1. \A c \in DOMAIN tree : tree[c].cost \in Nat
  BY DEF Rooted, Entries
<1>2. PICK w \in W : \A c \in W : tree[w].cost <= tree[c].cost
  <2> DEFINE T == {tree[c].cost : c \in W}
  <2>1. T \in SUBSET Nat /\ T # {}
    BY <1>1
  <2> HIDE DEF T
  <2>2. PICK n \in T : \A m \in T : n <= m
    BY <2>1, Smallest
  <2>3. QED
    BY <2>2 DEF T
<1>3. tree[w].from \in DOMAIN tree /\ tree[w].cost = tree[tree[w].from].cost + 1
  BY DEF Rooted
<1>4. tree[w].from \notin W
  BY <1>1, <1>2, <1>3
<1>5. QED
  BY <1>2, <1>3, <1>4

\* The tree has only nodes that the arcs lead to.
LEMMA ReachedOnly ==
    ASSUME NEW arcs, NEW root, NEW tree, Rooted(arcs, root, tree),
           NEW S, root \in S, \A x \in arcs : x.from \in S => x.to \in S
    PROVE  DOMAIN tree \subseteq S
<1> DEFINE W == DOMAIN tree \ S
<1>1. SUFFICES ASSUME W # {} PROVE FALSE
  OBVIOUS
<1>2. W \in SUBSET (DOMAIN tree \ {root})
  OBVIOUS
<1>3. PICK w \in W : tree[w].from \in DOMAIN tree \ W
  BY <1>1, <1>2, Nearest
<1>4. PICK x \in arcs : x.to = w /\ x.from = tree[w].from
  BY <1>2 DEF Rooted
<1>5. QED
  BY <1>3, <1>4

-----------------------------------------------------------------------------
(* Edges and components.                                                    *)

\* The image of a finite set is finite.
LEMMA ImageFinite ==
    ASSUME NEW S, IsFiniteSet(S), NEW f, DOMAIN f = S
    PROVE  IsFiniteSet({f[x] : x \in S})
<1> DEFINE T == {f[x] : x \in S}
           g == [x \in S |-> f[x]]
<1>1. g \in Surjection(S, T)
  BY DEF Surjection
<1>2. QED
  BY <1>1, FS_Surjection

\* Edges join two bridges each; there are finitely many, and they have an order.
EdgesOK(edges) ==
    /\ IsFiniteSet(edges)
    /\ \A e \in edges : e.id \in Keys /\ \E x, y : x # y /\ e.pair = {x, y}

\* A set of bridges that no edge leaves.
Closed(edges, S) == \A e \in edges : e.pair \cap S # {} => e.pair \subseteq S

\* An edge gives an arc from each of its bridges to the other, and every arc is of an edge.
LEMMA ArcIs ==
    ASSUME NEW edges
    PROVE  /\ \A x \in ArcsOf(edges) :
                \E e \in edges : x.via = e /\ x.key = e.id /\ x.from \in e.pair /\ x.to \in e.pair
           /\ \A e \in edges : \A b, c \in e.pair :
                \E x \in ArcsOf(edges) : x.via = e /\ x.from = b /\ x.to = c
<1>1. ASSUME NEW x \in ArcsOf(edges)
      PROVE  \E e \in edges : x.via = e /\ x.key = e.id /\ x.from \in e.pair /\ x.to \in e.pair
  <2>1. PICK e \in edges :
            x \in {[from |-> b, to |-> c, key |-> e.id, via |-> e] : b \in e.pair, c \in e.pair}
    BY DEF ArcsOf
  <2>2. PICK b \in e.pair, c \in e.pair : x = [from |-> b, to |-> c, key |-> e.id, via |-> e]
    BY <2>1
  <2>3. QED
    BY <2>2
<1>2. ASSUME NEW e \in edges, NEW b \in e.pair, NEW c \in e.pair
      PROVE  \E x \in ArcsOf(edges) : x.via = e /\ x.from = b /\ x.to = c
  <2>1. PICK x : x = [from |-> b, to |-> c, key |-> e.id, via |-> e]
    OBVIOUS
  <2>2. x \in ArcsOf(edges)
    BY <2>1 DEF ArcsOf
  <2>3. QED
    BY <2>1, <2>2
<1>3. QED
  BY <1>1, <1>2

\* A search may follow the arcs of any edges.
LEMMA ArcsFine == ASSUME NEW edges, EdgesOK(edges) PROVE ArcsOK(ArcsOf(edges))
<1> DEFINE f == [e \in edges |-> e.pair]
           P == {f[e] : e \in edges}
<1>1. IsFiniteSet(P)
  <2>1. IsFiniteSet(edges) /\ DOMAIN f = edges
    BY DEF EdgesOK
  <2> HIDE DEF f
  <2>2. QED
    BY <2>1, ImageFinite
<1>2. ASSUME NEW p \in P PROVE IsFiniteSet(p)
  <2>1. PICK x, y : p = {x, y}
    BY DEF EdgesOK
  <2>2. IsFiniteSet({x} \cup {y})
    BY FS_Singleton, FS_AddElement
  <2>3. {x} \cup {y} = p
    BY <2>1
  <2>4. QED
    BY <2>2, <2>3
<1>3. IsFiniteSet(UNION P)
  <2> HIDE DEF P
  <2>1. QED
    BY <1>1, <1>2, FS_UNION
<1>4. {x.to : x \in ArcsOf(edges)} \subseteq UNION P
  <2>1. SUFFICES ASSUME NEW x \in ArcsOf(edges) PROVE \E e \in edges : x.to \in f[e]
    OBVIOUS
  <2>2. QED
    BY ArcIs
<1>5. IsFiniteSet({x.to : x \in ArcsOf(edges)})
  <2> HIDE DEF P
  <2>1. QED
    BY <1>3, <1>4, FS_Subset
<1>6. \A x \in ArcsOf(edges) : x.key \in Keys
  BY ArcIs DEF EdgesOK
<1>7. QED
  BY <1>5, <1>6 DEF ArcsOK

\* A component is the least set around its bridge that no edge leaves.
LEMMA ComponentIs ==
    ASSUME NEW edges, EdgesOK(edges), NEW b
    PROVE  /\ b \in Component(edges, b) /\ Closed(edges, Component(edges, b))
           /\ \A S : b \in S /\ Closed(edges, S) => Component(edges, b) \subseteq S
<1> DEFINE arcs == ArcsOf(edges)
<1>1. PICK tree : tree = Explored(arcs, b) /\ DOMAIN tree = Component(edges, b)
  BY DEF Component
<1>2. Searched(arcs, b, tree)
  BY <1>1, ArcsFine, SearchIsRight
<1>3. b \in DOMAIN tree
  BY <1>2 DEF Searched, Rooted
<1>4. Closed(edges, DOMAIN tree)
  <2>1. SUFFICES ASSUME NEW e \in edges, NEW x \in e.pair, x \in DOMAIN tree, NEW y \in e.pair
                 PROVE  y \in DOMAIN tree
    BY DEF Closed
  <2>2. PICK a \in arcs : a.from = x /\ a.to = y
    BY ArcIs
  <2>3. QED
    BY <1>2, <2>1, <2>2 DEF Searched, Done
<1>5. ASSUME NEW S, b \in S, Closed(edges, S) PROVE DOMAIN tree \subseteq S
  <2>1. \A x \in arcs : x.from \in S => x.to \in S
    BY <1>5, ArcIs DEF Closed
  <2>2. Rooted(arcs, b, tree)
    BY <1>2 DEF Searched
  <2> HIDE DEF arcs
  <2>3. QED
    BY <1>5, <2>1, <2>2, ReachedOnly
<1>6. QED
  BY <1>1, <1>3, <1>4, <1>5

\* Components are equal or apart.
LEMMA ComponentsSame ==
    ASSUME NEW edges, EdgesOK(edges), NEW b, NEW x \in Component(edges, b)
    PROVE  Component(edges, x) = Component(edges, b)
<1> DEFINE B == Component(edges, b)
           X == Component(edges, x)
<1>1. b \in B /\ Closed(edges, B) /\ x \in X /\ Closed(edges, X)
  BY ComponentIs
<1>2. X \subseteq B
  BY <1>1, ComponentIs
<1>3. b \in X
  <2>1. SUFFICES ASSUME b \notin X PROVE FALSE
    OBVIOUS
  <2>2. b \in B \ X /\ Closed(edges, B \ X)
    BY <1>1, <2>1 DEF Closed
  <2>3. B \subseteq B \ X
    BY <2>2, ComponentIs
  <2>4. QED
    BY <1>1, <1>2, <2>3
<1>4. B \subseteq X
  BY <1>1, <1>3, ComponentIs
<1>5. QED
  BY <1>2, <1>4

\* The ends of a cable are ports of the document.
LEMMA EndsThere ==
    ASSUME NEW t, IsDocument(t), LinksValid(t), NEW l \in DOMAIN t.links
    PROVE  /\ t.links[l].source \in DOMAIN t.ports /\ t.links[l].target \in DOMAIN t.ports
           /\ Ends(t.links[l]) \subseteq DOMAIN t.ports /\ l \in Links
BY DEF LinksValid, LinkValid, Ends, IsDocument, IsTable

-----------------------------------------------------------------------------
(* Bridges and edges of a document.                                         *)

Bridges == Devices \cup Teams

\* The bridge of a device is the device, or the switch system it belongs to.
LEMMA BridgeIs ==
    ASSUME NEW t, IsDocument(t), NEW d \in DOMAIN t.devices
    PROVE  BridgeOf(t, d) \in Bridges
<1>1. DOMAIN t.teams \subseteq Teams /\ DOMAIN t.devices \subseteq Devices
  BY DEF IsDocument, IsTable
<1>2. QED
  BY <1>1 DEF BridgeOf, Bridges

\* The bridges with a port in the VLAN can be compared.
LEMMA ActiveIs ==
    ASSUME NEW t, IsDocument(t), NEW v, NEW b \in Active(t, v)
    PROVE  b \in Bridges /\ Rank[b] \in Nat /\ PriorityOf(t, b) \in Nat
<1>1. PICK d \in SwitchesOf(t) : b = BridgeOf(t, d)
  BY DEF Active
<1>2. d \in DOMAIN t.devices
  BY DEF SwitchesOf
<1>3. b \in Bridges
  BY <1>1, <1>2, BridgeIs
<1>4. Rank[b] \in Nat
  BY <1>3, AnalysisAssumption DEF Bridges
<1>5. d \in MembersOf(t, b)
  BY <1>1 DEF MembersOf
<1> DEFINE P == {Normalized(Priorities[m]) : m \in MembersOf(t, b)}
<1>6. P \in SUBSET Nat
  <2>1. SUFFICES ASSUME NEW m \in MembersOf(t, b) PROVE Normalized(Priorities[m]) \in Nat
    OBVIOUS
  <2>2. m \in Devices
    BY DEF MembersOf, SwitchesOf, IsDocument, IsTable
  <2>3. Priorities[m] \in Nat
    BY <2>2, AnalysisAssumption
  <2>4. QED
    BY <2>3 DEF Normalized
<1>7. P # {}
  BY <1>5
<1> HIDE DEF P
<1>8. Least(P) \in Nat
  BY <1>6, <1>7, LeastIs
<1>9. PriorityOf(t, b) \in Nat
  BY <1>8 DEF PriorityOf, P
<1>10. QED
  BY <1>3, <1>4, <1>9

\* Of two bridges one precedes the other, the nearer one first.
LEMMA BridgesCompare ==
    ASSUME NEW t, IsDocument(t), NEW v, NEW x \in Active(t, v), NEW y \in Active(t, v), x # y,
           NEW cost, cost[x] \in Nat, cost[y] \in Nat
    PROVE  /\ Precedes(t, x, y, cost) <=> ~Precedes(t, y, x, cost)
           /\ cost[x] < cost[y] => Precedes(t, x, y, cost)
<1>1. PICK px, py : px = PriorityOf(t, x) /\ py = PriorityOf(t, y)
  OBVIOUS
<1>2. px \in Nat /\ py \in Nat /\ Rank[x] \in Nat /\ Rank[y] \in Nat
  BY <1>1, ActiveIs
<1>3. Rank[x] # Rank[y]
  <2>1. x \in Bridges /\ y \in Bridges
    BY ActiveIs
  <2>2. x \in DOMAIN Rank /\ y \in DOMAIN Rank
    BY <2>1, AnalysisAssumption DEF Bridges
  <2>3. QED
    BY <2>2, AnalysisAssumption
<1>4. Precedes(t, x, y, cost) <=>
        \/ cost[x] < cost[y]
        \/ cost[x] = cost[y] /\ (px < py \/ (px = py /\ Rank[x] < Rank[y]))
  BY <1>1 DEF Precedes, Lexical
<1>5. Precedes(t, y, x, cost) <=>
        \/ cost[y] < cost[x]
        \/ cost[y] = cost[x] /\ (py < px \/ (py = px /\ Rank[y] < Rank[x]))
  BY <1>1 DEF Precedes, Lexical
<1>6. QED
  BY <1>2, <1>3, <1>4, <1>5

\* There is a root.
LEMMA RootIs ==
    ASSUME NEW t, IsDocument(t), NEW v, NEW B \in SUBSET Active(t, v), B # {}
    PROVE  \E b \in B : \A c \in B \ {b} : Precedes(t, b, c, [x \in B |-> 0])
<1> DEFINE key == [b \in B |-> <<0, PriorityOf(t, b), Rank[b]>>]
           cost == [x \in B |-> 0]
<1>1. key \in [B -> Keys]
  BY ActiveIs DEF Keys
<1>2. \A b \in B : key[b] = <<cost[b], PriorityOf(t, b), Rank[b]>> /\ cost[b] = 0
  OBVIOUS
<1> HIDE DEF key, cost
<1>3. PICK b \in B : \A c \in B : ~Lexical(key[c], key[b])
  BY <1>1, LeastKey
<1>4. ASSUME NEW c \in B \ {b} PROVE Precedes(t, b, c, cost)
  <2>1. ~Precedes(t, c, b, cost)
    BY <1>2, <1>3 DEF Precedes
  <2>2. cost[b] \in Nat /\ cost[c] \in Nat
    BY <1>2
  <2>3. QED
    BY <2>1, <2>2, BridgesCompare
<1>5. QED
  BY <1>4 DEF cost

\* An eligible cable joins two bridges with ports in the VLAN.
LEMMA PairIs ==
    ASSUME NEW t, IsDocument(t), LinksValid(t), NEW v, NEW l \in DOMAIN t.links, Eligible(t, v, l)
    PROVE  \E x, y \in Active(t, v) : x # y /\ Pair(t, l) = {x, y}
<1>1. PICK p, q : p = t.links[l].source /\ q = t.links[l].target
  OBVIOUS
<1>2. Ends(t.links[l]) = {p, q} /\ p \in DOMAIN t.ports /\ q \in DOMAIN t.ports
  BY <1>1, EndsThere DEF Ends
<1>3. PICK d, e : d = DeviceOf(t, p) /\ e = DeviceOf(t, q)
  OBVIOUS
<1>4. DevicesAt(t, l) = {d, e}
  BY <1>2, <1>3 DEF DevicesAt
<1>5. d \in SwitchesOf(t) /\ e \in SwitchesOf(t) /\ Carries(t, p, v) /\ Carries(t, q, v)
  BY <1>2, <1>4 DEF Eligible
<1>6. p \in PortsOf(t, d) /\ q \in PortsOf(t, e)
  BY <1>2, <1>3 DEF PortsOf, DeviceOf
<1>7. BridgeOf(t, d) \in Active(t, v) /\ BridgeOf(t, e) \in Active(t, v)
  BY <1>5, <1>6 DEF Active
<1>8. Pair(t, l) = {BridgeOf(t, d), BridgeOf(t, e)}
  BY <1>4 DEF Pair
<1>9. Several(Pair(t, l))
  BY DEF Eligible
<1>10. BridgeOf(t, d) # BridgeOf(t, e)
  BY <1>8, <1>9 DEF Several
<1>11. QED
  BY <1>7, <1>8, <1>10

\* The id of the edge that a cable belongs to.
IdOf(t, l) ==
    LET ranks == {Rank[b] : b \in Pair(t, l)} IN
    <<Least({Rank[x] : x \in IF GroupsOf(t, l) = {} THEN {l} ELSE GroupsOf(t, l)}),
      Least(ranks), Least(ranks \ {Least(ranks)})>>

\* The key of a live cable is one the search can compare.
LEMMA IdIs ==
    ASSUME NEW t, IsDocument(t), LinksValid(t), NEW v, NEW l \in Live(t, v)
    PROVE  IdOf(t, l) \in Keys
<1>1. l \in DOMAIN t.links /\ l \in Links /\ Eligible(t, v, l)
  BY EndsThere DEF Live
<1>2. PICK x \in Active(t, v), y \in Active(t, v) : x # y /\ Pair(t, l) = {x, y}
  BY <1>1, PairIs
<1>3. Rank[x] \in Nat /\ Rank[y] \in Nat /\ Rank[x] # Rank[y]
  <2>1. x \in Bridges /\ y \in Bridges
    BY ActiveIs
  <2>2. x \in DOMAIN Rank /\ y \in DOMAIN Rank
    BY <2>1, AnalysisAssumption DEF Bridges
  <2>3. QED
    BY <1>2, <2>1, <2>2, AnalysisAssumption DEF Bridges
<1> DEFINE ranks == {Rank[b] : b \in Pair(t, l)}
           own == {Rank[z] : z \in IF GroupsOf(t, l) = {} THEN {l} ELSE GroupsOf(t, l)}
<1>4. ranks = {Rank[x], Rank[y]}
  BY <1>2
<1>5. own \in SUBSET Nat /\ own # {}
  <2>1. GroupsOf(t, l) \subseteq Groups
    BY DEF GroupsOf, IsDocument, IsTable
  <2>2. \A z \in IF GroupsOf(t, l) = {} THEN {l} ELSE GroupsOf(t, l) : Rank[z] \in Nat
    BY <1>1, <2>1, AnalysisAssumption
  <2>3. (IF GroupsOf(t, l) = {} THEN {l} ELSE GroupsOf(t, l)) # {}
    OBVIOUS
  <2>4. QED
    BY <2>2, <2>3
<1> HIDE DEF ranks, own
<1>6. Least(own) \in Nat
  BY <1>5, LeastIs
<1>7. Least(ranks) \in ranks /\ Least(ranks) \in Nat
  BY <1>3, <1>4, LeastIs
<1>8. ranks \ {Least(ranks)} # {} /\ ranks \ {Least(ranks)} \in SUBSET Nat
  BY <1>3, <1>4, <1>7
<1>9. Least(ranks \ {Least(ranks)}) \in Nat
  BY <1>8, LeastIs
<1>10. IdOf(t, l) = <<Least(own), Least(ranks), Least(ranks \ {Least(ranks)})>>
  BY DEF IdOf, own, ranks
<1>11. QED
  BY <1>6, <1>7, <1>9, <1>10 DEF Keys

\* The edges of a VLAN: each has live cables between its two bridges, and each
\* live cable is in one.
LEMMA EdgesAre ==
    ASSUME NEW t, IsDocument(t), LinksValid(t), NEW v
    PROVE  /\ EdgesOK(Edges(t, v))
           /\ \A e \in Edges(t, v) :
                /\ e.links # {} /\ e.links \subseteq Live(t, v)
                /\ \A l \in e.links : Pair(t, l) = e.pair
                /\ \E x, y \in Active(t, v) : x # y /\ e.pair = {x, y}
           /\ \A l \in Live(t, v) : \E e \in Edges(t, v) : l \in e.links /\ e.pair = Pair(t, l)
<1> DEFINE edge(l) == [pair |-> Pair(t, l), links |-> Bundle(t, v, l), id |-> IdOf(t, l)]
           f == [l \in Live(t, v) |-> edge(l)]
<1>1. Edges(t, v) = {edge(l) : l \in Live(t, v)}
  BY Zenon DEF Edges, IdOf
<1>2. Edges(t, v) = {f[l] : l \in Live(t, v)}
  BY <1>1
<1>3. IsFiniteSet(Live(t, v))
  <2>1. Live(t, v) \subseteq Links
    BY DEF Live, IsDocument, IsTable
  <2>2. QED
    BY <2>1, AnalysisAssumption, FS_Subset
<1>4. IsFiniteSet(Edges(t, v))
  <2>1. DOMAIN f = Live(t, v)
    OBVIOUS
  <2> HIDE DEF f
  <2>2. QED
    BY <1>2, <1>3, <2>1, ImageFinite
<1>5. ASSUME NEW l \in Live(t, v)
      PROVE  /\ l \in Bundle(t, v, l) /\ Bundle(t, v, l) \subseteq Live(t, v)
             /\ \A m \in Bundle(t, v, l) : Pair(t, m) = Pair(t, l)
             /\ \E x, y \in Active(t, v) : x # y /\ Pair(t, l) = {x, y}
  <2>1. l \in DOMAIN t.links /\ Eligible(t, v, l)
    BY DEF Live
  <2>2. QED
    BY <2>1, PairIs DEF Bundle
<1>6. ASSUME NEW e \in Edges(t, v)
      PROVE  /\ e.links # {} /\ e.links \subseteq Live(t, v) /\ e.id \in Keys
             /\ \A l \in e.links : Pair(t, l) = e.pair
             /\ \E x, y \in Active(t, v) : x # y /\ e.pair = {x, y}
  <2>1. PICK l \in Live(t, v) : e = edge(l)
    BY <1>1
  <2>2. e.links = Bundle(t, v, l) /\ e.pair = Pair(t, l) /\ e.id = IdOf(t, l)
    BY <2>1
  <2>3. e.id \in Keys
    BY <2>2, IdIs
  <2>4. QED
    BY <1>5, <2>2, <2>3
<1>7. ASSUME NEW l \in Live(t, v)
      PROVE  \E e \in Edges(t, v) : l \in e.links /\ e.pair = Pair(t, l)
  <2>1. edge(l) \in Edges(t, v) /\ edge(l).links = Bundle(t, v, l) /\ edge(l).pair = Pair(t, l)
    BY <1>1
  <2>2. QED
    BY <1>5, <2>1
<1>8. EdgesOK(Edges(t, v))
  BY <1>4, <1>6 DEF EdgesOK
<1>9. QED
  BY <1>6, <1>7, <1>8

-----------------------------------------------------------------------------
(* The domains of a VLAN.                                                   *)

\* What a domain has: bridges that no edge leaves, the edges between them, the
\* least of them as root, and a tree that was searched from it.
DomainOK(t, v, D) ==
    /\ D.bridges \subseteq Active(t, v) /\ D.root \in D.bridges
    /\ \A c \in D.bridges \ {D.root} : Precedes(t, D.root, c, [x \in D.bridges |-> 0])
    /\ D.edges = {e \in Edges(t, v) : e.pair \subseteq D.bridges}
    /\ Closed(Edges(t, v), D.bridges)
    /\ Searched(ArcsOf(D.edges), D.root, D.tree) /\ DOMAIN D.tree = D.bridges

\* Where the domains come from.
LEMMA DomainsAre ==
    ASSUME NEW t, IsDocument(t), LinksValid(t), NEW v
    PROVE  Domains(t, v) = {Domain(t, Edges(t, v), Component(Edges(t, v), b)) : b \in Active(t, v)}
<1>1. UNION {e.pair : e \in Edges(t, v)} \subseteq Active(t, v)
  BY EdgesAre
<1>2. Active(t, v) \cup UNION {e.pair : e \in Edges(t, v)} = Active(t, v)
  BY <1>1
<1>3. QED
  BY <1>2, Zenon DEF Domains

\* The domain computed from an active bridge is well made and holds that bridge.
LEMMA DomainIs ==
    ASSUME NEW t, IsDocument(t), LinksValid(t), NEW v, NEW b \in Active(t, v),
           NEW D, D = Domain(t, Edges(t, v), Component(Edges(t, v), b))
    PROVE  D.bridges = Component(Edges(t, v), b) /\ b \in D.bridges /\ DomainOK(t, v, D)
<1>1. PICK E : E = Edges(t, v) /\ EdgesOK(E) /\ \A e \in E : e.pair \subseteq Active(t, v)
  BY EdgesAre
<1>2. PICK B : B = Component(E, b) /\ b \in B /\ Closed(E, B)
  BY <1>1, ComponentIs
<1>3. B \subseteq Active(t, v)
  <2>1. Closed(E, Active(t, v))
    BY <1>1 DEF Closed
  <2>2. QED
    BY <1>1, <1>2, <2>1, ComponentIs
<1> DEFINE Root(r) == \A c \in B \ {r} : Precedes(t, r, c, [x \in B |-> 0])
           own == {e \in E : e.pair \subseteq B}
<1>4. PICK r : r = CHOOSE x \in B : Root(x)
  OBVIOUS
<1>5. r \in B /\ Root(r)
  <2>1. \E x \in B : Root(x)
    BY <1>2, <1>3, RootIs
  <2> HIDE DEF Root
  <2>2. QED
    BY <1>4, <2>1
<1>6. D = [bridges |-> B, root |-> r, edges |-> own, tree |-> Explored(ArcsOf(own), r)]
  BY <1>1, <1>2, <1>4, Zenon DEF Domain
<1>7. PICK T : T = Explored(ArcsOf(own), r) /\ DOMAIN T = Component(own, r)
  BY DEF Component
<1>8. EdgesOK(own)
  <2>1. IsFiniteSet(own)
    BY <1>1, FS_Subset DEF EdgesOK
  <2>2. QED
    BY <1>1, <2>1 DEF EdgesOK
<1>9. Searched(ArcsOf(own), r, T)
  BY <1>7, <1>8, ArcsFine, SearchIsRight
<1>10. DOMAIN T \subseteq B
  <2>1. Closed(own, B)
    BY DEF Closed
  <2> HIDE DEF own
  <2>2. QED
    BY <1>5, <1>7, <1>8, <2>1, ComponentIs
<1>11. B \subseteq DOMAIN T
  <2>1. r \in DOMAIN T /\ Closed(own, DOMAIN T)
    <3> HIDE DEF own
    <3>1. QED
      BY <1>7, <1>8, ComponentIs
  <2>2. Closed(E, DOMAIN T)
    <3>1. ASSUME NEW e \in E, e.pair \cap DOMAIN T # {} PROVE e.pair \subseteq DOMAIN T
      <4>1. e.pair \cap B # {}
        BY <1>10, <3>1
      <4>2. e \in own
        BY <1>2, <4>1 DEF Closed
      <4>3. QED
        BY <2>1, <3>1, <4>2 DEF Closed
    <3>2. QED
      BY <3>1 DEF Closed
  <2>3. Component(E, r) \subseteq DOMAIN T
    BY <1>1, <2>1, <2>2, ComponentIs
  <2>4. Component(E, r) = B
    BY <1>1, <1>2, <1>5, ComponentsSame
  <2>5. QED
    BY <2>3, <2>4
<1>12. D.bridges = B /\ D.root = r /\ D.edges = own /\ D.tree = T
  BY <1>6, <1>7
<1>13. DomainOK(t, v, D)
  <2>1. D.edges = {e \in Edges(t, v) : e.pair \subseteq D.bridges}
    BY <1>1, <1>12
  <2>2. Closed(Edges(t, v), D.bridges)
    BY <1>1, <1>2, <1>12
  <2>3. Searched(ArcsOf(D.edges), D.root, D.tree)
    BY <1>9, <1>12
  <2>4. DOMAIN D.tree = D.bridges
    BY <1>10, <1>11, <1>12
  <2>5. \A c \in D.bridges \ {D.root} : Precedes(t, D.root, c, [x \in D.bridges |-> 0])
    BY <1>5, <1>12
  <2>6. D.bridges \subseteq Active(t, v) /\ D.root \in D.bridges
    BY <1>3, <1>5, <1>12
  <2>7. QED
    BY <2>1, <2>2, <2>3, <2>4, <2>5, <2>6 DEF DomainOK
<1>14. QED
  BY <1>1, <1>2, <1>12, <1>13

\* Every domain of a VLAN is well made.
LEMMA DomainsFine ==
    ASSUME NEW t, IsDocument(t), LinksValid(t), NEW v, NEW D \in Domains(t, v)
    PROVE  DomainOK(t, v, D)
BY DomainsAre, DomainIs

\* Of a failover group no two cables are live, and a live cable is in one domain.
LEMMA GroupOnce ==
    ASSUME NEW t, NEW v, NEW g \in DOMAIN t.groups, t.groups[g].primary # None,
           NEW l \in t.groups[g].members, l \in Live(t, v)
    PROVE  l = t.groups[g].primary
BY DEF Live, InUse, GroupsOf

\* Every bridge with a port in the VLAN is in one domain, and of a failover group
\* one cable at most forwards.
LEMMA DomainsAreRight ==
    ASSUME NEW t, IsDocument(t), LinksValid(t), NEW v
    PROVE  DomainsRight(t, v, Domains(t, v))
<1>1. PICK E : E = Edges(t, v) /\ EdgesOK(E)
  BY EdgesAre
<1>2. PICK domains : domains = Domains(t, v)
  OBVIOUS
<1>3. \A D \in domains : \E b \in Active(t, v) : D = Domain(t, E, Component(E, b))
  BY <1>1, <1>2, DomainsAre
<1>4. \A b \in Active(t, v) : Domain(t, E, Component(E, b)) \in domains
  BY <1>1, <1>2, DomainsAre
<1>5. UNION {D.bridges : D \in domains} = Active(t, v)
  <2>1. \A D \in domains : D.bridges \subseteq Active(t, v)
    BY <1>2, DomainsFine DEF DomainOK
  <2>2. \A b \in Active(t, v) : \E D \in domains : b \in D.bridges
    BY <1>1, <1>4, DomainIs
  <2>3. QED
    BY <2>1, <2>2
<1>6. ASSUME NEW D \in domains, NEW F \in domains, D # F PROVE D.bridges \cap F.bridges = {}
  <2>1. SUFFICES ASSUME NEW x \in D.bridges, x \in F.bridges PROVE FALSE
    OBVIOUS
  <2>2. PICK b \in Active(t, v) : D = Domain(t, E, Component(E, b))
    BY <1>3
  <2>3. PICK c \in Active(t, v) : F = Domain(t, E, Component(E, c))
    BY <1>3
  <2>4. D.bridges = Component(E, b) /\ F.bridges = Component(E, c)
    BY <1>1, <2>2, <2>3, DomainIs
  <2>5. Component(E, x) = Component(E, b) /\ Component(E, x) = Component(E, c)
    BY <1>1, <2>1, <2>4, ComponentsSame
  <2>6. QED
    BY <1>6, <2>2, <2>3, <2>5
<1>7. ASSUME NEW l \in Live(t, v) PROVE \E D \in domains : \E e \in D.edges : l \in e.links
  <2>1. PICK e \in E : l \in e.links
    BY <1>1, EdgesAre
  <2>2. PICK x \in Active(t, v) : x \in e.pair
    BY <1>1, EdgesAre
  <2>3. PICK D \in domains : x \in D.bridges
    BY <1>5, <2>2
  <2>4. e.pair \subseteq D.bridges
    BY <1>1, <1>2, <2>2, <2>3, DomainsFine DEF DomainOK, Closed
  <2>5. e \in D.edges
    <3>1. D.edges = {f \in E : f.pair \subseteq D.bridges}
      BY <1>1, <1>2, DomainsFine DEF DomainOK
    <3>2. QED
      BY <2>4, <3>1
  <2>6. QED
    BY <2>1, <2>5
<1>8. ASSUME NEW g \in DOMAIN t.groups, t.groups[g].primary # None
      PROVE  ~Several(t.groups[g].members \cap UNION {UNION {e.links : e \in D.edges} : D \in domains})
  <2>1. UNION {UNION {e.links : e \in D.edges} : D \in domains} \subseteq Live(t, v)
    <3>1. ASSUME NEW D \in domains, NEW e \in D.edges PROVE e.links \subseteq Live(t, v)
      <4>1. D.edges = {f \in Edges(t, v) : f.pair \subseteq D.bridges}
        BY <1>2, DomainsFine DEF DomainOK
      <4>2. e \in Edges(t, v)
        BY <4>1
      <4>3. QED
        BY <4>2, EdgesAre
    <3>2. SUFFICES ASSUME NEW D \in domains, NEW e \in D.edges, NEW l \in e.links PROVE l \in Live(t, v)
      OBVIOUS
    <3>3. QED
      BY <3>1
  <2>2. \A l \in t.groups[g].members : l \in Live(t, v) => l = t.groups[g].primary
    BY <1>8, GroupOnce
  <2>3. QED
    BY <2>1, <2>2 DEF Several
<1>9. QED
  BY <1>2, <1>5, <1>6, <1>7, <1>8 DEF DomainsRight

-----------------------------------------------------------------------------
(* The tree of a domain.                                                    *)

\* What a bridge of the domain knows: the edges, and its way to the root.
TreeOK(D) ==
    /\ EdgesOK(D.edges) /\ D.root \in D.bridges
    /\ \A e \in D.edges : e.links # {} /\ \E x, y \in D.bridges : x # y /\ e.pair = {x, y}
    /\ \A b \in D.bridges : D.tree[b].cost \in Nat
    /\ D.tree[D.root].cost = 0 /\ D.tree[D.root].from = D.root
    /\ \A b \in D.bridges \ {D.root} :
        /\ D.tree[b].via \in D.edges /\ D.tree[b].from \in D.bridges
        /\ D.tree[b].via.pair = {b, D.tree[b].from}
        /\ D.tree[b].cost = D.tree[D.tree[b].from].cost + 1
    /\ \A e \in D.edges : \A x, y \in e.pair : D.tree[y].cost <= D.tree[x].cost + 1

\* The tree of a well made domain reaches every bridge of it at the least cost.
LEMMA TreeIs ==
    ASSUME NEW t, IsDocument(t), LinksValid(t), NEW v, NEW D, DomainOK(t, v, D)
    PROVE  TreeOK(D)
<1>1. PICK E : E = Edges(t, v) /\ EdgesOK(E) /\ D.edges = {e \in E : e.pair \subseteq D.bridges}
  BY EdgesAre DEF DomainOK
<1>2. EdgesOK(D.edges)
  <2>1. IsFiniteSet(D.edges)
    BY <1>1, FS_Subset DEF EdgesOK
  <2>2. QED
    BY <1>1, <2>1 DEF EdgesOK
<1>3. ASSUME NEW e \in D.edges
      PROVE  e.links # {} /\ \E x, y \in D.bridges : x # y /\ e.pair = {x, y}
  <2>1. e \in Edges(t, v) /\ e.pair \subseteq D.bridges
    BY <1>1
  <2>2. e.links # {} /\ \E x, y \in Active(t, v) : x # y /\ e.pair = {x, y}
    BY <2>1, EdgesAre
  <2>3. QED
    BY <2>1, <2>2
<1>4. PICK arcs, T : arcs = ArcsOf(D.edges) /\ T = D.tree
  OBVIOUS
<1>5. Rooted(arcs, D.root, T) /\ (\A c \in DOMAIN T : Done(arcs, T, c)) /\ DOMAIN T = D.bridges
  BY <1>4 DEF DomainOK, Searched
<1>6. \A b \in D.bridges : T[b].cost \in Nat
  BY <1>5 DEF Rooted, Entries
<1>7. D.root \in D.bridges /\ T[D.root].cost = 0 /\ T[D.root].from = D.root
  BY <1>5 DEF Rooted
<1>8. ASSUME NEW b \in D.bridges \ {D.root}
      PROVE  /\ T[b].via \in D.edges /\ T[b].from \in D.bridges
             /\ T[b].via.pair = {b, T[b].from} /\ T[b].cost = T[T[b].from].cost + 1
  <2>1. PICK x \in arcs : /\ x.to = b /\ x.from = T[b].from /\ x.via = T[b].via
                          /\ x.from \in DOMAIN T /\ T[b].cost = T[x.from].cost + 1
    BY <1>5 DEF Rooted
  <2>2. PICK e \in D.edges : x.via = e /\ x.from \in e.pair /\ x.to \in e.pair
    BY <1>4, ArcIs
  <2>3. T[b].from # b
    BY <1>5, <1>6, <2>1
  <2>4. PICK y, z : y # z /\ e.pair = {y, z}
    BY <1>3
  <2>5. e.pair = {b, T[b].from}
    BY <2>1, <2>2, <2>3, <2>4
  <2>6. QED
    BY <1>5, <2>1, <2>2, <2>5
<1>9. ASSUME NEW e \in D.edges, NEW x \in e.pair, NEW y \in e.pair
      PROVE  T[y].cost <= T[x].cost + 1
  <2>1. PICK a \in arcs : a.from = x /\ a.to = y
    BY <1>4, ArcIs
  <2>2. x \in DOMAIN T
    BY <1>3, <1>5
  <2>3. QED
    BY <1>5, <2>1, <2>2 DEF Done
<1>10. QED
  BY <1>2, <1>3, <1>4, <1>6, <1>7, <1>8, <1>9, Zenon DEF TreeOK

\* Edge e is the way of bridge b to the root.
Up(D, e, b) == b # D.root /\ D.tree[b].via = e

PairCost(D, e) == [z \in e.pair |-> D.tree[z].cost]

\* The root port is on the way to the root, and designated is the end that
\* precedes the other.
LEMMA RolesAre ==
    ASSUME NEW t, IsDocument(t), NEW v, NEW D, TreeOK(D), D.bridges \subseteq Active(t, v),
           NEW e \in D.edges, NEW x, NEW y, x # y, e.pair = {x, y}
    PROVE  /\ Role(t, D, e, x) = "root" <=> Up(D, e, x)
           /\ Role(t, D, e, x) = "designated" <=> Precedes(t, x, y, PairCost(D, e))
           /\ Role(t, D, e, x) = "blocked" =>
                ~Up(D, e, x) /\ ~Up(D, e, y) /\ Precedes(t, y, x, PairCost(D, e))
           /\ Precedes(t, x, y, PairCost(D, e)) <=> ~Precedes(t, y, x, PairCost(D, e))
           /\ Role(t, D, e, x) \in {"root", "designated", "blocked"}
           /\ ~Up(D, e, x) /\ ~Up(D, e, y) /\ Precedes(t, y, x, PairCost(D, e)) =>
                Role(t, D, e, x) = "blocked"
<1>1. PICK T, cost : T = D.tree /\ cost = PairCost(D, e)
  OBVIOUS
<1>2. x \in D.bridges /\ y \in D.bridges
  BY DEF TreeOK
<1>3. cost[x] = T[x].cost /\ cost[y] = T[y].cost /\ cost[x] \in Nat /\ cost[y] \in Nat
  BY <1>1, <1>2 DEF PairCost, TreeOK
<1> DEFINE Parent(b, c) == T[b].via = e /\ T[b].from = c
<1>4. ASSUME NEW b \in e.pair, NEW c \in e.pair, b # c
      PROVE  Parent(b, c) <=> Up(D, e, b)
  <2>1. e.pair = {b, c} /\ b \in D.bridges
    BY <1>2, <1>4
  <2>2. CASE b = D.root
    BY <1>1, <1>4, <2>2 DEF Up, TreeOK
  <2>3. CASE b # D.root
    <3>1. T[b].via.pair = {b, T[b].from}
      BY <1>1, <2>1, <2>3 DEF TreeOK
    <3>2. T[b].via = e => T[b].from = c
      BY <1>4, <2>1, <3>1
    <3>3. QED
      BY <1>1, <2>3, <3>2 DEF Up
  <2>4. QED
    BY <2>2, <2>3
<1>5. ASSUME NEW b \in e.pair, NEW c \in e.pair, b # c, Up(D, e, b)
      PROVE  cost[b] = cost[c] + 1
  <2>1. T[b].from = c /\ b \in D.bridges /\ b # D.root
    BY <1>2, <1>4, <1>5 DEF Up
  <2>2. T[b].cost = T[c].cost + 1
    BY <1>1, <2>1 DEF TreeOK
  <2>3. QED
    BY <1>3, <1>5, <2>2
<1>6. \A b \in e.pair : \A c \in e.pair : b # c =>
          /\ Precedes(t, b, c, cost) <=> ~Precedes(t, c, b, cost)
          /\ cost[b] < cost[c] => Precedes(t, b, c, cost)
  <2>1. x \in Active(t, v) /\ y \in Active(t, v)
    BY <1>2
  <2>2. QED
    BY <1>3, <2>1, BridgesCompare
<1>7. ASSUME NEW b \in e.pair, NEW c \in e.pair, b # c, Up(D, e, b)
      PROVE  ~Up(D, e, c) /\ Precedes(t, c, b, cost) /\ ~Precedes(t, b, c, cost)
  <2>1. cost[b] = cost[c] + 1
    BY <1>5, <1>7
  <2>2. cost[c] < cost[b]
    BY <1>3, <1>7, <2>1
  <2>3. ~Up(D, e, c)
    BY <1>3, <1>5, <1>7, <2>1
  <2>4. QED
    BY <1>6, <1>7, <2>2, <2>3
<1>8. (CHOOSE z \in e.pair : z # x) = y
  OBVIOUS
<1>9. Role(t, D, e, x) =
        (CASE Parent(x, y) -> "root"
           [] Parent(y, x) -> "designated"
           [] OTHER -> IF Precedes(t, x, y, cost) THEN "designated" ELSE "blocked")
  BY <1>1, <1>8, Zenon DEF Role, PairCost
<1>10. (Parent(x, y) <=> Up(D, e, x)) /\ (Parent(y, x) <=> Up(D, e, y))
  BY <1>4
<1>11. x \in e.pair /\ y \in e.pair
  OBVIOUS
<1> HIDE DEF Parent
<1>12. CASE Up(D, e, x)
  <2>1. Role(t, D, e, x) = "root"
    <3>1. Parent(x, y) /\ ~Parent(y, x)
      BY <1>7, <1>10, <1>11, <1>12
    <3>2. QED
      BY <1>9, <3>1
  <2>2. QED
    BY <1>1, <1>7, <1>11, <1>12, <2>1
<1>13. CASE Up(D, e, y)
  <2>1. ~Up(D, e, x) /\ Precedes(t, x, y, cost) /\ ~Precedes(t, y, x, cost)
    BY <1>7, <1>11, <1>13
  <2>2. Role(t, D, e, x) = "designated"
    <3>1. ~Parent(x, y) /\ Parent(y, x)
      BY <1>10, <1>13, <2>1
    <3>2. QED
      BY <1>9, <3>1
  <2>3. QED
    BY <1>1, <1>13, <2>1, <2>2
<1>14. CASE ~Up(D, e, x) /\ ~Up(D, e, y)
  <2>1. ~Parent(x, y) /\ ~Parent(y, x)
    BY <1>10, <1>14
  <2>2. Role(t, D, e, x) = IF Precedes(t, x, y, cost) THEN "designated" ELSE "blocked"
    BY <1>9, <2>1
  <2>3. Precedes(t, x, y, cost) <=> ~Precedes(t, y, x, cost)
    BY <1>6, <1>11
  <2>4. QED
    BY <1>1, <1>14, <2>2, <2>3
<1>15. QED
  BY <1>12, <1>13, <1>14

\* The edges that forward are the ways to the root.
Forwarding(t, D) == {e \in D.edges : "blocked" \notin Roles(t, D, e)}

\* An edge forwards exactly when the tree takes it to reach a bridge.
LEMMA ForwardingIs ==
    ASSUME NEW t, IsDocument(t), NEW v, NEW D, TreeOK(D), D.bridges \subseteq Active(t, v)
    PROVE  Forwarding(t, D) = {D.tree[b].via : b \in D.bridges \ {D.root}}
<1>1. ASSUME NEW e \in D.edges
      PROVE  "blocked" \in Roles(t, D, e) <=> \A b \in e.pair : ~Up(D, e, b)
  <2>1. PICK x, y \in D.bridges : x # y /\ e.pair = {x, y}
    BY DEF TreeOK
  <2>2. Roles(t, D, e) = {Role(t, D, e, x), Role(t, D, e, y)}
    BY <2>1 DEF Roles
  <2>3. CASE Up(D, e, x) \/ Up(D, e, y)
    <3>1. Role(t, D, e, x) # "blocked" /\ Role(t, D, e, y) # "blocked"
      BY <2>1, <2>3, RolesAre
    <3>2. QED
      BY <2>1, <2>2, <2>3, <3>1
  <2>4. CASE ~Up(D, e, x) /\ ~Up(D, e, y)
    <3>1. Precedes(t, x, y, PairCost(D, e)) <=> ~Precedes(t, y, x, PairCost(D, e))
      BY <2>1, RolesAre
    <3>2. Role(t, D, e, x) = "blocked" \/ Role(t, D, e, y) = "blocked"
      <4>1. e.pair = {y, x}
        BY <2>1
      <4>2. CASE Precedes(t, y, x, PairCost(D, e))
        BY <2>1, <2>4, <4>2, RolesAre
      <4>3. CASE Precedes(t, x, y, PairCost(D, e))
        BY <2>1, <2>4, <4>1, <4>3, RolesAre
      <4>4. QED
        BY <3>1, <4>2, <4>3
    <3>3. QED
      BY <2>1, <2>2, <2>4, <3>2
  <2>5. QED
    BY <2>3, <2>4
<1>2. ASSUME NEW e \in Forwarding(t, D) PROVE \E b \in D.bridges \ {D.root} : e = D.tree[b].via
  <2>1. e \in D.edges
    BY DEF Forwarding
  <2>2. PICK b \in e.pair : Up(D, e, b)
    BY <1>1, <2>1 DEF Forwarding
  <2>3. b \in D.bridges
    BY <2>1 DEF TreeOK
  <2>4. QED
    BY <2>2, <2>3 DEF Up
<1>3. ASSUME NEW b \in D.bridges \ {D.root} PROVE D.tree[b].via \in Forwarding(t, D)
  <2>1. D.tree[b].via \in D.edges /\ b \in D.tree[b].via.pair
    BY DEF TreeOK
  <2>2. Up(D, D.tree[b].via, b)
    BY DEF Up
  <2>3. QED
    BY <1>1, <2>1, <2>2 DEF Forwarding
<1>4. QED
  BY <1>2, <1>3

\* The ways to the root join all the bridges.
LEMMA TreeConnects ==
    ASSUME NEW D, TreeOK(D), NEW F, F = {D.tree[b].via : b \in D.bridges \ {D.root}}
    PROVE  Connects(F, D.bridges)
<1>1. SUFFICES ASSUME NEW S \in SUBSET D.bridges, S # {}, S # D.bridges
               PROVE  \E e \in F : e.pair \cap S # {} /\ e.pair \ S # {}
  BY DEF Connects
<1>2. PICK W : /\ W \in SUBSET (D.bridges \ {D.root}) /\ W # {}
               /\ W = S \/ W = D.bridges \ S
  <2>1. CASE D.root \in S
    <3>1. D.bridges \ S # {} /\ D.bridges \ S \in SUBSET (D.bridges \ {D.root})
      BY <1>1, <2>1
    <3>2. QED
      BY <3>1
  <2>2. CASE D.root \notin S
    BY <1>1, <2>2
  <2>3. QED
    BY <2>1, <2>2
<1>3. PICK w \in W : \A c \in W : D.tree[w].cost <= D.tree[c].cost
  <2> DEFINE T == {D.tree[c].cost : c \in W}
  <2>1. T \in SUBSET Nat /\ T # {}
    BY <1>2 DEF TreeOK
  <2> HIDE DEF T
  <2>2. PICK n \in T : \A m \in T : n <= m
    BY <2>1, Smallest
  <2>3. QED
    BY <2>2 DEF T
<1>4. PICK e, u : e = D.tree[w].via /\ u = D.tree[w].from
  OBVIOUS
<1>5. /\ e \in F /\ e.pair = {w, u} /\ u \in D.bridges
      /\ D.tree[w].cost = D.tree[u].cost + 1 /\ D.tree[u].cost \in Nat
  BY <1>2, <1>4 DEF TreeOK
<1>6. u \notin W
  BY <1>3, <1>5
<1>7. QED
  BY <1>2, <1>5, <1>6

\* None of the ways can be spared: the bridges behind it would be left alone.
LEMMA TreeIsLeast ==
    ASSUME NEW D, TreeOK(D), NEW F, F = {D.tree[b].via : b \in D.bridges \ {D.root}},
           NEW e \in F
    PROVE  ~Connects(F \ {e}, D.bridges)
<1>1. PICK b \in D.bridges \ {D.root} : e = D.tree[b].via
  OBVIOUS
<1>2. PICK B, T, r : B = D.bridges /\ T = D.tree /\ r = D.root
  OBVIOUS
<1> DEFINE Behind(X) == b \in X /\ \A c \in B \ {r} : T[c].from \in X => c \in X
           S == {c \in B : \A X \in SUBSET B : Behind(X) => c \in X}
<1>3. Behind(B \ {r})
  BY <1>1, <1>2
<1>4. b \in S /\ S \subseteq B \ {r}
  BY <1>1, <1>2, <1>3
<1>5. S \in (SUBSET B) \ {{}, B} /\ r \in B
  BY <1>2, <1>4 DEF TreeOK
<1>6. Behind(S)
  <2>1. ASSUME NEW c \in B \ {r}, T[c].from \in S PROVE c \in S
    BY <2>1
  <2>2. QED
    BY <1>4, <2>1
<1>7. ASSUME NEW f \in F \ {e}, f.pair \cap S # {}, f.pair \ S # {} PROVE FALSE
  <2>1. PICK c \in B \ {r} : f = T[c].via
    BY <1>2
  <2>2. f.pair = {c, T[c].from}
    BY <1>2, <2>1 DEF TreeOK
  <2>3. c \in S /\ T[c].from \notin S
    BY <1>6, <1>7, <2>1, <2>2
  <2>4. c # b
    BY <1>1, <1>2, <1>7, <2>1
  <2>5. Behind(S \ {c})
    <3>1. ASSUME NEW z \in B \ {r}, T[z].from \in S \ {c} PROVE z \in S \ {c}
      <4>1. z \in S
        BY <1>6, <3>1
      <4>2. z # c
        BY <2>3, <3>1
      <4>3. QED
        BY <4>1, <4>2
    <3>2. QED
      BY <1>4, <2>4, <3>1
  <2>6. S \ {c} \in SUBSET B
    BY <1>5
  <2>7. c \in S \ {c}
    <3>1. \A X \in SUBSET B : Behind(X) => c \in X
      BY <2>3
    <3> HIDE DEF Behind, S
    <3>2. QED
      BY <2>5, <2>6, <3>1
  <2>8. QED
    BY <2>7
<1> HIDE DEF Behind, S
<1>8. QED
  BY <1>2, <1>5, <1>7 DEF Connects

-----------------------------------------------------------------------------
(* The way to the root of a tree.                                           *)

\* climb is the way from node d, one cheaper node after the other.
Climbs(tree, root, d, climb) ==
    /\ climb \in [Nat -> DOMAIN tree] /\ climb[0] = d
    /\ \A n \in Nat : climb[n + 1] = tree[climb[n]].from
    /\ \A n \in Nat : n <= tree[d].cost => tree[climb[n]].cost = tree[d].cost - n
    /\ WayTo(tree, d) = [i \in 1..tree[d].cost |-> tree[climb[tree[d].cost - i]].via]

\* The way to a node is found by climbing from it to the root.
LEMMA WayIs ==
    ASSUME NEW tree, NEW root \in DOMAIN tree, tree[root].from = root,
           \A c \in DOMAIN tree : tree[c].cost \in Nat, tree[root].cost = 0,
           \A c \in DOMAIN tree \ {root} :
               tree[c].from \in DOMAIN tree /\ tree[c].cost = tree[tree[c].from].cost + 1,
           NEW d \in DOMAIN tree
    PROVE  \E climb : Climbs(tree, root, d, climb)
<1> DEFINE Runs(h) == h = [n \in Nat |-> IF n = 0 THEN d ELSE tree[h[n - 1]].from]
           climb == CHOOSE h : Runs(h)
           next == [c \in DOMAIN tree |-> tree[c].from]
<1>1. next \in [DOMAIN tree -> DOMAIN tree] /\ \A c \in DOMAIN tree : next[c] = tree[c].from
  <2>1. \A c \in DOMAIN tree : tree[c].from \in DOMAIN tree
    OBVIOUS
  <2>2. QED
    BY <2>1
<1> HIDE DEF next
<1>2. PICK f \in [Nat -> DOMAIN tree] : f[0] = d /\ \A n \in Nat : f[n + 1] = next[f[n]]
  <2>1. PICK N : N = DOMAIN tree
    OBVIOUS
  <2>2. d \in N
    BY <2>1
  <2>3. next \in [N -> N]
    BY <1>1, <2>1
  <2>4. PICK f \in [Nat -> N] : f[0] = d /\ \A n \in Nat : f[n + 1] = next[f[n]]
    BY ONLY <2>2, <2>3, RunExists
  <2>5. QED
    BY <2>1, <2>4
<1>3. ASSUME NEW h, h \in [Nat -> DOMAIN tree], h[0] = d, \A n \in Nat : h[n + 1] = tree[h[n]].from
      PROVE  Runs(h)
  <2>1. \A n \in Nat : h[n] = IF n = 0 THEN d ELSE tree[h[n - 1]].from
    <3>1. SUFFICES ASSUME NEW n \in Nat, n # 0 PROVE h[n] = tree[h[n - 1]].from
      BY <1>3
    <3>2. n - 1 \in Nat /\ (n - 1) + 1 = n
      BY <3>1
    <3>3. QED
      BY <1>3, <3>2
  <2>2. QED
    BY <1>3, <2>1
<1>4. Runs(f)
  BY <1>1, <1>2, <1>3
<1>5. Runs(climb)
  BY <1>4
<1>6. WayTo(tree, d) = [i \in 1..tree[d].cost |-> tree[climb[tree[d].cost - i]].via]
  BY DEF WayTo
<1> HIDE DEF climb
<1>7. climb[0] = d /\ \A n \in Nat : climb[n + 1] = tree[climb[n]].from
  <2>1. \A n \in Nat : climb[n] = IF n = 0 THEN d ELSE tree[climb[n - 1]].from
    BY <1>5
  <2>2. ASSUME NEW n \in Nat PROVE climb[n + 1] = tree[climb[n]].from
    <3>1. n + 1 \in Nat /\ n + 1 # 0 /\ (n + 1) - 1 = n
      OBVIOUS
    <3>2. QED
      BY <2>1, <3>1
  <2>3. QED
    BY <2>1, <2>2
<1>8. \A n \in Nat : climb[n] \in DOMAIN tree
  <2> DEFINE X == {n \in Nat : climb[n] \in DOMAIN tree}
  <2>1. 0 \in X
    BY <1>7
  <2>2. \A n \in Nat : n \in X => n + 1 \in X
    BY <1>1, <1>7
  <2> HIDE DEF X
  <2>3. Nat \subseteq X
    BY <2>1, <2>2, Inductive
  <2>4. QED
    BY <2>3 DEF X
<1>9. climb \in [Nat -> DOMAIN tree]
  BY <1>5, <1>8
<1>10. \A n \in Nat : n <= tree[d].cost => tree[climb[n]].cost = tree[d].cost - n
  <2> DEFINE X == {n \in Nat : n <= tree[d].cost => tree[climb[n]].cost = tree[d].cost - n}
  <2>1. 0 \in X
    BY <1>7
  <2>2. ASSUME NEW n \in Nat, n \in X PROVE n + 1 \in X
    <3>1. SUFFICES ASSUME n + 1 <= tree[d].cost PROVE tree[climb[n + 1]].cost = tree[d].cost - (n + 1)
      OBVIOUS
    <3>2. tree[climb[n]].cost = tree[d].cost - n /\ tree[d].cost \in Nat
      BY <2>2, <3>1
    <3>3. climb[n] # root /\ climb[n] \in DOMAIN tree
      BY <1>8, <3>1, <3>2
    <3>4. tree[climb[n]].cost = tree[climb[n + 1]].cost + 1 /\ tree[climb[n + 1]].cost \in Nat
      BY <1>7, <1>8, <3>3
    <3>5. QED
      BY <3>2, <3>4
  <2> HIDE DEF X
  <2>3. Nat \subseteq X
    BY <2>1, <2>2, Inductive
  <2>4. QED
    BY <2>3 DEF X
<1>11. Climbs(tree, root, d, climb)
  BY <1>6, <1>7, <1>9, <1>10 DEF Climbs
<1>12. QED
  BY <1>11

\* The way of a bridge leads to the root.
LEMMA WayLeads ==
    ASSUME NEW D, TreeOK(D), DOMAIN D.tree = D.bridges,
           NEW F, F = {D.tree[b].via : b \in D.bridges \ {D.root}}, NEW b \in D.bridges
    PROVE  D.root \in Component({e \in F : \E i \in 1..D.tree[b].cost : WayTo(D.tree, b)[i] = e}, b)
<1>1. PICK T, r : T = D.tree /\ r = D.root
  OBVIOUS
<1>2. PICK climb : Climbs(T, r, b, climb)
  BY <1>1, WayIs DEF TreeOK
<1>3. PICK k \in Nat : k = T[b].cost
  BY <1>1 DEF TreeOK
<1> DEFINE way == {e \in F : \E i \in 1..D.tree[b].cost : WayTo(D.tree, b)[i] = e}
           C == Component(way, b)
<1>4. EdgesOK(way)
  <2>1. way \subseteq D.edges
    BY DEF TreeOK
  <2>2. IsFiniteSet(way)
    BY <2>1, FS_Subset DEF TreeOK, EdgesOK
  <2> HIDE DEF way
  <2>3. QED
    BY <2>1, <2>2 DEF TreeOK, EdgesOK
<1>5. b \in C /\ Closed(way, C)
  <2> HIDE DEF way
  <2>1. QED
    BY <1>4, ComponentIs
<1>6. WayTo(T, b) = [i \in 1..k |-> T[climb[k - i]].via]
  BY <1>2, <1>3 DEF Climbs
<1>7. \A n \in Nat : climb[n] \in D.bridges /\ climb[n + 1] = T[climb[n]].from
  BY <1>1, <1>2 DEF Climbs
<1>8. \A n \in Nat : n <= k => T[climb[n]].cost = k - n
  BY <1>2, <1>3 DEF Climbs
<1> DEFINE X == {n \in Nat : n <= k => climb[n] \in C}
<1>9. 0 \in X
  BY <1>2, <1>5 DEF Climbs
<1>10. ASSUME NEW n \in Nat, n \in X PROVE n + 1 \in X
  <2>1. SUFFICES ASSUME n + 1 <= k PROVE climb[n + 1] \in C
    OBVIOUS
  <2>2. climb[n] \in C
    BY <1>10, <2>1
  <2>3. T[climb[n]].cost = k - n /\ T[climb[n]].cost # 0
    BY <1>8, <2>1
  <2>4. climb[n] \in D.bridges \ {r}
    BY <1>1, <1>7, <2>3 DEF TreeOK
  <2>5. PICK e : e = T[climb[n]].via
    OBVIOUS
  <2>6. e \in F /\ e.pair = {climb[n], climb[n + 1]}
    BY <1>1, <1>7, <2>4, <2>5 DEF TreeOK
  <2>7. WayTo(T, b)[k - n] = e
    <3>1. k - n \in 1..k /\ k - (k - n) = n
      BY <2>1
    <3>2. QED
      BY <1>6, <2>5, <3>1
  <2>8. e \in way
    <3>1. k - n \in 1..D.tree[b].cost
      BY <1>1, <1>3, <2>1
    <3>2. QED
      BY <1>1, <2>6, <2>7, <3>1
  <2> HIDE DEF C, way
  <2>9. QED
    BY <1>5, <2>2, <2>6, <2>8 DEF Closed
<1> HIDE DEF X
<1>11. Nat \subseteq X
  BY <1>9, <1>10, Inductive
<1>12. climb[k] \in C
  BY <1>11 DEF X
<1>13. climb[k] = r
  <2>1. T[climb[k]].cost = 0
    BY <1>8
  <2>2. ASSUME climb[k] # r PROVE FALSE
    <3>1. climb[k] \in D.bridges \ {r}
      BY <1>7, <2>2
    <3>2. T[climb[k]].cost = T[T[climb[k]].from].cost + 1 /\ T[T[climb[k]].from].cost \in Nat
      BY <1>1, <3>1 DEF TreeOK
    <3>3. QED
      BY <2>1, <3>2
  <2>3. QED
    BY <2>2
<1>14. QED
  BY <1>1, <1>12, <1>13

\* Loops are reported just when an edge could be spared.
LEMMA LoopsAre ==
    ASSUME NEW t, IsDocument(t), NEW v, NEW D, TreeOK(D), D.bridges \subseteq Active(t, v)
    PROVE  LoopLinks(t, D) # {} <=> \E e \in D.edges : Connects(D.edges \ {e}, D.bridges)
<1>1. PICK F : F = Forwarding(t, D) /\ F = {D.tree[b].via : b \in D.bridges \ {D.root}}
  BY ForwardingIs
<1>2. Connects(F, D.bridges) /\ \A e \in F : ~Connects(F \ {e}, D.bridges)
  BY <1>1, TreeConnects, TreeIsLeast
<1>3. F \subseteq D.edges /\ \A e \in D.edges : e \in F <=> "blocked" \notin Roles(t, D, e)
  BY <1>1 DEF Forwarding
<1>4. \A e \in D.edges : e.links # {}
  BY DEF TreeOK
<1>5. LoopLinks(t, D) # {} <=> \E e \in D.edges : e \notin F
  <2>1. LoopLinks(t, D) = UNION {e.links : e \in {e \in D.edges : e \notin F}}
    BY <1>3 DEF LoopLinks
  <2>2. QED
    BY <1>4, <2>1
<1>6. ASSUME NEW e \in D.edges, e \notin F PROVE Connects(D.edges \ {e}, D.bridges)
  <2>1. F \subseteq D.edges \ {e}
    BY <1>3, <1>6
  <2>2. QED
    BY <1>2, <2>1 DEF Connects
<1>7. ASSUME NEW e \in D.edges, Connects(D.edges \ {e}, D.bridges) PROVE \E f \in D.edges : f \notin F
  <2>1. CASE D.edges = F
    BY <1>2, <1>7, <2>1
  <2>2. CASE D.edges # F
    BY <1>3, <2>2
  <2>3. QED
    BY <2>1, <2>2
<1>8. QED
  BY <1>5, <1>6, <1>7

\* The cost of a bridge is that of the nearest bridge beside it, and one.
LEMMA CostIs ==
    ASSUME NEW D, TreeOK(D), NEW b \in D.bridges \ {D.root},
           NEW N, N = UNION {{D.tree[c].cost : c \in e.pair \ {b}} : e \in {e \in D.edges : b \in e.pair}}
    PROVE  D.tree[b].cost = 1 + Least(N)
<1>1. PICK T : T = D.tree
  OBVIOUS
<1>2. PICK e, u, k : e = T[b].via /\ u = T[b].from /\ k = T[u].cost
  OBVIOUS
<1>3. e \in D.edges /\ e.pair = {b, u} /\ u \in D.bridges /\ T[b].cost = k + 1 /\ k \in Nat
  BY <1>1, <1>2 DEF TreeOK
<1>4. u # b
  BY <1>2, <1>3
<1>5. k \in N
  BY <1>1, <1>2, <1>3, <1>4
<1>6. ASSUME NEW n \in N PROVE n \in Nat /\ k <= n
  <2>1. PICK f \in D.edges : b \in f.pair /\ n \in {T[c].cost : c \in f.pair \ {b}}
    BY <1>1
  <2>2. PICK c \in f.pair : n = T[c].cost
    BY <2>1
  <2>3. T[b].cost <= T[c].cost + 1
    BY <1>1, <2>1 DEF TreeOK
  <2>4. c \in D.bridges
    BY <2>1 DEF TreeOK
  <2>5. n \in Nat
    BY <1>1, <2>2, <2>4 DEF TreeOK
  <2>6. QED
    BY <1>3, <2>2, <2>3, <2>5
<1>7. N \in SUBSET Nat /\ N # {}
  BY <1>5, <1>6
<1>8. Least(N) \in N /\ \A n \in N : Least(N) <= n
  BY <1>7, LeastIs
<1>9. Least(N) = k
  BY <1>5, <1>6, <1>7, <1>8
<1>10. QED
  BY <1>1, <1>3, <1>9

\* Each segment has one designated port.
LEMMA DesignatedIs ==
    ASSUME NEW t, IsDocument(t), NEW v, NEW D, TreeOK(D), D.bridges \subseteq Active(t, v),
           NEW e \in D.edges
    PROVE  \E b \in e.pair :
             /\ Role(t, D, e, b) = "designated"
             /\ \A c \in e.pair \ {b} :
                 Role(t, D, e, c) # "designated" /\ ~Precedes(t, c, b, PairCost(D, e))
<1>1. PICK x, y \in D.bridges : x # y /\ e.pair = {x, y}
  BY DEF TreeOK
<1>2. PICK b, c : b # c /\ e.pair = {b, c} /\ Precedes(t, b, c, PairCost(D, e))
  <2>1. Precedes(t, x, y, PairCost(D, e)) <=> ~Precedes(t, y, x, PairCost(D, e))
    BY <1>1, RolesAre
  <2>2. e.pair = {y, x}
    BY <1>1
  <2>3. QED
    BY <1>1, <2>1, <2>2
<1>3. Role(t, D, e, b) = "designated"
  BY <1>2, RolesAre
<1>4. ~Precedes(t, c, b, PairCost(D, e))
  BY <1>2, RolesAre
<1>5. Role(t, D, e, c) # "designated"
  <2>1. e.pair = {c, b}
    BY <1>2
  <2>2. QED
    BY <1>2, <1>4, <2>1, RolesAre
<1>6. \A z \in e.pair \ {b} : z = c
  BY <1>2
<1>7. b \in e.pair
  BY <1>2
<1>8. QED
  BY <1>3, <1>4, <1>5, <1>6, <1>7

\* A bridge other than the root has one root port.
LEMMA RootPortIs ==
    ASSUME NEW t, IsDocument(t), NEW v, NEW D, TreeOK(D), D.bridges \subseteq Active(t, v),
           NEW b \in D.bridges \ {D.root}, NEW Around, Around = {e \in D.edges : b \in e.pair}
    PROVE  \E e \in Around : \A f \in Around : Role(t, D, f, b) = "root" <=> f = e
<1>1. PICK e : e = D.tree[b].via
  OBVIOUS
<1>2. e \in Around
  BY <1>1 DEF TreeOK
<1>3. ASSUME NEW f \in Around PROVE Role(t, D, f, b) = "root" <=> f = e
  <2>1. PICK y : y # b /\ f.pair = {b, y}
    <3>1. f \in D.edges /\ b \in f.pair
      OBVIOUS
    <3>2. PICK x \in D.bridges, z \in D.bridges : x # z /\ f.pair = {x, z}
      BY <3>1 DEF TreeOK
    <3>3. CASE b = x
      BY <3>2, <3>3
    <3>4. CASE b = z
      <4>1. x # b /\ f.pair = {b, x}
        BY <3>2, <3>4
      <4>2. QED
        BY <4>1
    <3>5. QED
      BY <3>1, <3>2, <3>3, <3>4
  <2>2. Role(t, D, f, b) = "root" <=> Up(D, f, b)
    BY <2>1, RolesAre
  <2>3. QED
    BY <1>1, <2>2 DEF Up
<1>4. QED
  BY <1>2, <1>3

\* The tree of a domain is one of shortest ways to its least bridge.
LEMMA TreesAreRight ==
    ASSUME NEW t, IsDocument(t), LinksValid(t), NEW v, NEW D \in Domains(t, v)
    PROVE  TreeRight(t, D)
<1>1. DomainOK(t, v, D)
  BY DomainsFine
<1>2. TreeOK(D) /\ D.bridges \subseteq Active(t, v) /\ DOMAIN D.tree = D.bridges
  BY <1>1, TreeIs DEF DomainOK
<1>3. PICK F : F = Forwarding(t, D) /\ F = {D.tree[b].via : b \in D.bridges \ {D.root}}
  BY <1>2, ForwardingIs
<1> DEFINE Cost(b) == D.tree[b].cost
           Around(b) == {e \in D.edges : b \in e.pair}
           NoCost == [b \in D.bridges |-> 0]
<1>4. Connects(F, D.bridges) /\ \A e \in F : ~Connects(F \ {e}, D.bridges)
  BY <1>2, <1>3, TreeConnects, TreeIsLeast
<1>5. D.root \in D.bridges /\ Cost(D.root) = 0
  BY <1>2 DEF TreeOK
<1>6. ASSUME NEW b \in D.bridges \ {D.root}
      PROVE  ~Precedes(t, b, D.root, NoCost)
  <2>1. Precedes(t, D.root, b, NoCost)
    BY <1>1 DEF DomainOK
  <2>2. NoCost[b] \in Nat /\ NoCost[D.root] \in Nat
    BY <1>5
  <2>3. b \in Active(t, v) /\ D.root \in Active(t, v) /\ b # D.root
    BY <1>2, <1>5
  <2> HIDE DEF NoCost
  <2>4. QED
    BY <2>1, <2>2, <2>3, BridgesCompare
<1>7. ASSUME NEW b \in D.bridges \ {D.root}
      PROVE  Cost(b) = 1 + Least(UNION {{Cost(c) : c \in e.pair \ {b}} : e \in Around(b)})
  BY <1>2, CostIs
<1>8. ASSUME NEW b \in D.bridges \ {D.root}
      PROVE  \E e \in Around(b) : \A f \in Around(b) : Role(t, D, f, b) = "root" <=> f = e
  <2>1. PICK A : A = {e \in D.edges : b \in e.pair}
    OBVIOUS
  <2>2. \E e \in A : \A f \in A : Role(t, D, f, b) = "root" <=> f = e
    BY <1>2, <2>1, RootPortIs
  <2>3. QED
    BY <2>1, <2>2
<1>9. ASSUME NEW b \in D.bridges \ {D.root}
      PROVE  D.root \in Component({e \in F : \E i \in 1..Cost(b) : WayTo(D.tree, b)[i] = e}, b)
  BY <1>2, <1>3, WayLeads
<1>10. ASSUME NEW e \in D.edges
       PROVE  \E b \in e.pair :
                /\ Role(t, D, e, b) = "designated"
                /\ \A c \in e.pair \ {b} :
                    Role(t, D, e, c) # "designated" /\ ~Precedes(t, c, b, [x \in e.pair |-> Cost(x)])
  BY <1>2, DesignatedIs DEF PairCost
<1>11. LoopLinks(t, D) # {} <=> \E e \in D.edges : Connects(D.edges \ {e}, D.bridges)
  BY <1>2, LoopsAre
<1>12. {e \in D.edges : "blocked" \notin Roles(t, D, e)} = F
  BY <1>3 DEF Forwarding
<1> HIDE DEF Cost, Around, NoCost
<1>13. QED
  BY <1>4, <1>5, <1>6, <1>7, <1>8, <1>9, <1>10, <1>11, <1>12, Zenon DEF TreeRight, Cost, Around, NoCost

-----------------------------------------------------------------------------
(* A cable is taken away.                                                   *)

\* A group that loses a cable keeps its primary one, or takes one of the rest.
LEMMA PrimariesAre ==
    ASSUME NEW t, IsRecord(t), IsTable(t.groups, Groups, GroupRecords),
           NEW g \in DOMAIN PrunedGroups(t).groups
    PROVE  PrunedGroups(t).groups[g].primary =
             PrimaryOf(t.groups[g], t.groups[g].members \cap DOMAIN t.links)
<1>1. PICK groups : groups = [h \in {h \in DOMAIN t.groups : Several(t.groups[h].members \cap DOMAIN t.links)} |->
            [members |-> t.groups[h].members \cap DOMAIN t.links,
             primary |-> PrimaryOf(t.groups[h], t.groups[h].members \cap DOMAIN t.links)]]
  OBVIOUS
<1>2. PrunedGroups(t) = [t EXCEPT !.groups = groups]
  BY <1>1, Zenon DEF PrunedGroups
<1>3. PrunedGroups(t).groups = groups
  BY <1>2 DEF IsRecord
<1>4. groups[g] = [members |-> t.groups[g].members \cap DOMAIN t.links,
                   primary |-> PrimaryOf(t.groups[g], t.groups[g].members \cap DOMAIN t.links)]
  BY <1>1, <1>3
<1>5. QED
  BY <1>3, <1>4

\* What is left of a document without a cable.
Bereft(t, l, u) ==
    /\ u.devices = t.devices /\ u.teams = t.teams
    /\ DOMAIN u.ports = DOMAIN t.ports
    /\ \A p \in DOMAIN t.ports :
          /\ u.ports[p].device = t.ports[p].device
          /\ u.ports[p].set.native = t.ports[p].set.native
          /\ u.ports[p].set.tagged = t.ports[p].set.tagged
    /\ DOMAIN u.links = DOMAIN t.links \ {l}
    /\ \A m \in DOMAIN u.links : u.links[m] = t.links[m]
    /\ \A g \in DOMAIN u.groups :
          /\ g \in DOMAIN t.groups /\ Several(t.groups[g].members \cap DOMAIN u.links)
          /\ u.groups[g].members = t.groups[g].members \cap DOMAIN u.links
          /\ u.groups[g].primary = PrimaryOf(t.groups[g], t.groups[g].members \cap DOMAIN u.links)

\* What the removal of a cable leaves of the document.
LEMMA WithoutLinkLeaves ==
    ASSUME NEW t, IsDocument(t), NEW l \in DOMAIN t.links
    PROVE  Bereft(t, l, WithoutLink(t, l))
<1>1. PICK a : a = [t EXCEPT !.links = Without(t.links, {l})]
  OBVIOUS
<1>2. PICK S : S = IF t.links[l].rear THEN {} ELSE Ends(t.links[l]) \ FrontEnds(a.links)
  OBVIOUS
<1>3. PICK b : b = Switched(a, S, FALSE)
  OBVIOUS
<1>4. PICK u : u = PrunedGroups(b)
  OBVIOUS
<1>5. u = WithoutLink(t, l)
  BY <1>1, <1>2, <1>3, <1>4 DEF WithoutLink, Unplugged
<1>6. /\ IsDocument(a)
      /\ Same(t, a, {"links"})
      /\ DOMAIN a.links = DOMAIN t.links \ {l}
      /\ \A m \in DOMAIN a.links : a.links[m] = t.links[m]
  BY <1>1, LessLinks
<1>7. /\ IsDocument(b)
      /\ Same(a, b, {"ports"})
      /\ DOMAIN b.ports = DOMAIN a.ports
      /\ \A p \in DOMAIN a.ports :
            /\ b.ports[p].device = a.ports[p].device
            /\ b.ports[p].set.native = a.ports[p].set.native
            /\ b.ports[p].set.tagged = a.ports[p].set.tagged
  <2>1. \A on \in BOOLEAN : b = Switched(a, S, on) =>
      /\ IsDocument(b)
      /\ Same(a, b, {"ports"})
      /\ DOMAIN b.ports = DOMAIN a.ports
      /\ \A p \in DOMAIN a.ports :
            /\ b.ports[p].device = a.ports[p].device
            /\ b.ports[p].set.native = a.ports[p].set.native
            /\ b.ports[p].set.tagged = a.ports[p].set.tagged
    BY <1>6, SwitchedIs
  <2>2. FALSE \in BOOLEAN
    OBVIOUS
  <2>3. QED
    BY <1>3, <2>1, <2>2, Zenon
<1>8. IsRecord(b) /\ IsTable(b.groups, Groups, GroupRecords)
  BY <1>7 DEF IsDocument, IsRecord
<1>9. Same(b, u, {"groups"})
  BY <1>4, <1>8, PrunedGroupsAre
<1>10. ASSUME NEW g \in DOMAIN u.groups
       PROVE  /\ g \in DOMAIN b.groups /\ Several(b.groups[g].members \cap DOMAIN b.links)
              /\ u.groups[g].members = b.groups[g].members \cap DOMAIN b.links
              /\ u.groups[g].primary = PrimaryOf(b.groups[g], b.groups[g].members \cap DOMAIN b.links)
  BY <1>4, <1>8, PrunedGroupsAre, PrimariesAre
<1>11. b.groups = t.groups /\ u.links = b.links /\ b.links = a.links /\ u.devices = t.devices
       /\ u.teams = t.teams /\ u.ports = b.ports /\ a.ports = t.ports
  BY <1>6, <1>7, <1>9 DEF Same, Fields
<1>12. Bereft(t, l, u)
  BY <1>6, <1>7, <1>10, <1>11 DEF Bereft
<1>13. QED
  BY <1>5, <1>12

\* The bridges stay, and what a cable other than the one taken is fit for.
LEMMA BridgesStay ==
    ASSUME NEW t, IsDocument(t), LinksValid(t), NEW l \in DOMAIN t.links,
           NEW u, Bereft(t, l, u), NEW v
    PROVE  /\ Active(u, v) = Active(t, v)
           /\ \A m \in DOMAIN u.links :
                Pair(u, m) = Pair(t, m) /\ (Eligible(u, v, m) <=> Eligible(t, v, m))
<1>1. u.devices = t.devices /\ u.teams = t.teams /\ DOMAIN u.ports = DOMAIN t.ports
  BY DEF Bereft
<1>2. SwitchesOf(u) = SwitchesOf(t)
  BY <1>1 DEF SwitchesOf, Kind
<1>3. \A d : BridgeOf(u, d) = BridgeOf(t, d)
  BY <1>1, Zenon DEF BridgeOf
<1>4. \A p \in DOMAIN t.ports : Carries(u, p, v) <=> Carries(t, p, v)
  BY DEF Bereft, Carries
<1>5. \A p \in DOMAIN t.ports : DeviceOf(u, p) = DeviceOf(t, p)
  BY DEF Bereft, DeviceOf
<1>6. \A d : PortsOf(u, d) = PortsOf(t, d)
  BY <1>1 DEF Bereft, PortsOf
<1>7. Active(u, v) = Active(t, v)
  <2>1. \A d : PortsOf(t, d) \subseteq DOMAIN t.ports
    BY DEF PortsOf
  <2>2. \A d : (\E p \in PortsOf(u, d) : Carries(u, p, v)) <=> (\E p \in PortsOf(t, d) : Carries(t, p, v))
    BY <1>4, <1>6, <2>1
  <2>3. {d \in SwitchesOf(u) : \E p \in PortsOf(u, d) : Carries(u, p, v)} =
        {d \in SwitchesOf(t) : \E p \in PortsOf(t, d) : Carries(t, p, v)}
    BY <1>2, <2>2
  <2>4. QED
    BY <1>3, <2>3 DEF Active
<1>8. ASSUME NEW m \in DOMAIN u.links
      PROVE  Pair(u, m) = Pair(t, m) /\ (Eligible(u, v, m) <=> Eligible(t, v, m))
  <2>1. m \in DOMAIN t.links /\ u.links[m] = t.links[m]
    BY DEF Bereft
  <2>2. Ends(t.links[m]) \subseteq DOMAIN t.ports
    BY <2>1, EndsThere
  <2>3. DevicesAt(u, m) = DevicesAt(t, m)
    BY <1>5, <2>1, <2>2 DEF DevicesAt
  <2>4. Pair(u, m) = Pair(t, m)
    BY <1>3, <2>3 DEF Pair
  <2>5. QED
    BY <1>2, <1>4, <2>1, <2>2, <2>3, <2>4 DEF Eligible
<1>9. QED
  BY <1>7, <1>8

\* What was live is, without another cable.
LEMMA LiveStays ==
    ASSUME NEW t, IsDocument(t), LinksValid(t), NEW l \in DOMAIN t.links,
           NEW u, Bereft(t, l, u), NEW v, NEW m \in Live(t, v), m # l
    PROVE  m \in Live(u, v) /\ Pair(u, m) = Pair(t, m)
<1>1. m \in DOMAIN t.links /\ InUse(t, m) /\ Eligible(t, v, m)
  BY DEF Live
<1>2. m \in DOMAIN u.links
  BY <1>1 DEF Bereft
<1>3. Eligible(u, v, m) /\ Pair(u, m) = Pair(t, m)
  BY <1>1, <1>2, BridgesStay
<1>4. ASSUME NEW g \in GroupsOf(u, m) PROVE u.groups[g].primary \in {None, m}
  <2>1. /\ g \in DOMAIN t.groups /\ m \in t.groups[g].members \cap DOMAIN u.links
        /\ u.groups[g].primary = PrimaryOf(t.groups[g], t.groups[g].members \cap DOMAIN u.links)
    BY DEF GroupsOf, Bereft
  <2>2. t.groups[g].primary \in {None, m}
    BY <1>1, <2>1 DEF InUse, GroupsOf
  <2>3. QED
    BY <2>1, <2>2 DEF PrimaryOf
<1>5. QED
  BY <1>2, <1>3, <1>4 DEF Live, InUse

\* A cable of a group all of whose cables fit has a successor.
LEMMA Successor ==
    ASSUME NEW t, IsDocument(t), Sound(t), NEW v, NEW l \in Live(t, v),
           NEW u, Bereft(t, l, u), NEW g \in GroupsOf(t, l),
           \A m \in t.groups[g].members : Eligible(t, v, m) /\ Pair(t, m) = Pair(t, l)
    PROVE  \E m \in Live(u, v) : Pair(u, m) = Pair(t, l)
<1>0. l \in DOMAIN t.links /\ InUse(t, l) /\ LinksValid(t)
  BY DEF Live, Sound
<1>1. g \in DOMAIN t.groups /\ l \in t.groups[g].members /\ GroupValid(t, t.groups[g])
  BY DEF GroupsOf, Sound, GroupsValid
<1>2. PICK rest : rest = t.groups[g].members \cap DOMAIN u.links
  OBVIOUS
<1>3. rest = t.groups[g].members \ {l} /\ rest \subseteq Links
  <2>1. t.groups[g].members \subseteq DOMAIN t.links
    BY <1>1 DEF GroupValid
  <2>2. DOMAIN t.links \subseteq Links
    BY DEF IsDocument, IsTable
  <2>3. QED
    BY <1>2, <2>1, <2>2 DEF Bereft
<1>4. rest # {}
  BY <1>1, <1>3 DEF GroupValid, Several
<1>5. \A m \in rest : \A h \in GroupsOf(t, m) : h = g
  <2>1. SUFFICES ASSUME NEW m \in rest, NEW h \in GroupsOf(t, m) PROVE h = g
    OBVIOUS
  <2>2. m \in t.groups[g].members \cap t.groups[h].members /\ h \in DOMAIN t.groups
    BY <1>2 DEF GroupsOf
  <2>3. QED
    BY <1>1, <2>2 DEF Sound, GroupsValid
<1>6. ASSUME NEW m \in rest PROVE m \in DOMAIN u.links /\ Eligible(u, v, m) /\ Pair(u, m) = Pair(t, l)
  BY <1>0, <1>2, BridgesStay
<1>7. \A m \in rest : \A h \in GroupsOf(u, m) : h = g /\ h \in DOMAIN u.groups
  BY <1>5 DEF Bereft, GroupsOf
<1>8. t.groups[g].primary \in {None, l}
  BY <1>0 DEF InUse
<1>9. CASE g \in DOMAIN u.groups
  <2>1. u.groups[g].primary = PrimaryOf(t.groups[g], rest)
    BY <1>2, <1>9 DEF Bereft
  <2>2. (CHOOSE m \in rest : TRUE) \in rest
    BY <1>4
  <2>3. PICK m \in rest : u.groups[g].primary \in {None, m}
    BY <1>4, <1>8, <2>1, <2>2 DEF PrimaryOf
  <2>4. InUse(u, m)
    BY <1>7, <2>3 DEF InUse
  <2>5. QED
    BY <1>6, <2>4 DEF Live
<1>10. CASE g \notin DOMAIN u.groups
  <2>1. PICK m \in rest : TRUE
    BY <1>4
  <2>2. InUse(u, m)
    BY <1>7, <1>10 DEF InUse
  <2>3. QED
    BY <1>6, <2>2 DEF Live
<1>11. QED
  BY <1>9, <1>10

\* Who takes away a cable that the others can stand in for parts no domain.
LEMMA SparesDo ==
    ASSUME NEW t, IsDocument(t), Sound(t), NEW v
    PROVE  SparesTakeOver(t, v, Domains(t, v))
<1>0. LinksValid(t)
  BY DEF Sound
<1>1. SUFFICES ASSUME NEW D \in Domains(t, v), NEW e \in D.edges, NEW l \in e.links, Spared(t, v, D, l)
               PROVE  \E E \in Domains(WithoutLink(t, l), v) : D.bridges \subseteq E.bridges
  BY DEF SparesTakeOver
<1>2. DomainOK(t, v, D) /\ TreeOK(D)
  BY <1>0, DomainsFine, TreeIs
<1>3. \A f \in D.edges : f \in Edges(t, v) /\ f.pair \subseteq D.bridges
  BY <1>2 DEF DomainOK
<1>4. \A f \in D.edges : /\ f.links # {} /\ f.links \subseteq Live(t, v)
                         /\ \A m \in f.links : Pair(t, m) = f.pair
  BY <1>0, <1>3, EdgesAre
<1>5. l \in Live(t, v) /\ l \in DOMAIN t.links
  BY <1>4 DEF Live
<1>6. PICK u : u = WithoutLink(t, l)
  OBVIOUS
<1>7. IsDocument(u) /\ LinksValid(u) /\ Bereft(t, l, u)
  BY <1>5, <1>6, WithoutLinkIs, WithoutLinkLeaves DEF Sound
<1>8. PICK F : F = Edges(u, v) /\ EdgesOK(F)
  BY <1>7, EdgesAre
<1>9. PICK r, C : r = D.root /\ C = Component(F, r)
  OBVIOUS
<1>10. r \in C /\ Closed(F, C) /\ r \in D.bridges
  BY <1>2, <1>8, <1>9, ComponentIs DEF DomainOK
<1>11. ASSUME NEW m \in Live(u, v), Pair(u, m) \subseteq D.bridges, Pair(u, m) \cap C # {}
       PROVE  Pair(u, m) \subseteq C
  <2>1. PICK f \in F : f.pair = Pair(u, m)
    BY <1>7, <1>8, EdgesAre
  <2>2. QED
    BY <1>10, <1>11, <2>1 DEF Closed
<1>12. ASSUME NEW f \in D.edges, f.links # {l}, f.pair \cap C # {} PROVE f.pair \subseteq C
  <2>1. PICK m \in f.links : m # l
    BY <1>4, <1>12
  <2>2. m \in Live(t, v) /\ Pair(t, m) = f.pair
    BY <1>4
  <2>3. m \in Live(u, v) /\ Pair(u, m) = f.pair
    BY <1>0, <1>5, <1>7, <2>1, <2>2, LiveStays
  <2>4. QED
    BY <1>3, <1>11, <1>12, <2>3
<1>13. D.bridges \subseteq C
  <2>1. SUFFICES ASSUME ~(D.bridges \subseteq C) PROVE FALSE
    OBVIOUS
  <2> DEFINE S == D.bridges \cap C
  <2>2. S \in (SUBSET D.bridges) \ {{}, D.bridges}
    BY <1>10, <2>1
  <2>3. CASE Connects({f \in D.edges : f.links # {l}}, D.bridges)
    <3>1. PICK f \in {f \in D.edges : f.links # {l}} : f.pair \cap S # {} /\ f.pair \ S # {}
      BY <2>2, <2>3 DEF Connects
    <3>2. f.pair \cap C # {} /\ ~(f.pair \subseteq C)
      BY <1>3, <3>1
    <3>3. QED
      BY <1>12, <3>1, <3>2
  <2>4. ASSUME NEW g \in GroupsOf(t, l),
               \A m \in t.groups[g].members : Eligible(t, v, m) /\ Pair(t, m) = Pair(t, l)
        PROVE  FALSE
    <3>1. PICK W : W = {D.tree[b].via : b \in D.bridges \ {D.root}}
      OBVIOUS
    <3>2. Connects(W, D.bridges) /\ W \subseteq D.edges
      BY <1>2, <3>1, TreeConnects DEF TreeOK
    <3>3. PICK f \in D.edges : f.pair \cap S # {} /\ f.pair \ S # {}
      BY <2>2, <3>2 DEF Connects
    <3>4. f.pair \cap C # {} /\ ~(f.pair \subseteq C)
      BY <1>3, <3>3
    <3>5. f.links = {l}
      BY <1>12, <3>4
    <3>6. f.pair = Pair(t, l) /\ f.pair \subseteq D.bridges
      BY <1>3, <1>4, <3>5
    <3>7. PICK m \in Live(u, v) : Pair(u, m) = Pair(t, l)
      BY <1>5, <1>7, <2>4, Successor
    <3>8. QED
      BY <1>11, <3>4, <3>6, <3>7
  <2>5. QED
    BY <1>1, <2>3, <2>4 DEF Spared
<1>14. r \in Active(u, v)
  <2>1. r \in Active(t, v)
    BY <1>2, <1>10 DEF DomainOK
  <2>2. QED
    BY <1>0, <1>5, <1>7, <2>1, BridgesStay
<1>15. PICK E : E = Domain(u, F, C)
  OBVIOUS
<1>16. E \in Domains(u, v)
  BY <1>7, <1>8, <1>9, <1>14, <1>15, DomainsAre
<1>17. E.bridges = C
  BY <1>7, <1>8, <1>9, <1>14, <1>15, DomainIs
<1>18. QED
  BY <1>6, <1>13, <1>16, <1>17

-----------------------------------------------------------------------------
(* Paths.                                                                   *)

\* The nodes within n arcs of the root are those that cost n at most.
LEMMA WithinIs ==
    ASSUME NEW arcs, NEW root, NEW tree, Searched(arcs, root, tree), NEW n \in Nat
    PROVE  Within(arcs, root, n) = {c \in DOMAIN tree : tree[c].cost <= n}
<1> DEFINE Grown(S) == S \cup {x.to : x \in {x \in arcs : x.from \in S}}
           Runs(h) == h = [k \in Nat |-> IF k = 0 THEN {root} ELSE Grown(h[k - 1])]
           within == CHOOSE h : Runs(h)
<1>1. PICK N : N = SUBSET Nodes(arcs, root)
  OBVIOUS
<1>2. {root} \in N /\ \A S \in N : Grown(S) \in N
  BY <1>1 DEF Nodes
<1> DEFINE next == [S \in N |-> Grown(S)]
<1>3. next \in [N -> N] /\ \A S \in N : next[S] = Grown(S)
  BY <1>2
<1> HIDE DEF next, Grown
<1>4. PICK f \in [Nat -> N] : f[0] = {root} /\ \A k \in Nat : f[k + 1] = next[f[k]]
  <2>1. {root} \in N
    BY <1>2
  <2>2. next \in [N -> N]
    BY <1>3
  <2>3. QED
    BY ONLY <2>1, <2>2, RunExists
<1>5. Runs(f)
  <2>1. \A k \in Nat : f[k] = IF k = 0 THEN {root} ELSE Grown(f[k - 1])
    <3>1. SUFFICES ASSUME NEW k \in Nat, k # 0 PROVE f[k] = Grown(f[k - 1])
      BY <1>4
    <3>2. k - 1 \in Nat /\ (k - 1) + 1 = k
      BY <3>1
    <3>3. QED
      BY <1>3, <1>4, <3>2
  <2>2. QED
    BY <1>4, <2>1
<1>6. Runs(within)
  BY <1>5
<1>7. Within(arcs, root, n) = within[n]
  BY Zenon DEF Within, Grown
<1> HIDE DEF within
<1>8. within[0] = {root} /\ \A k \in Nat : within[k + 1] = Grown(within[k])
  <2>1. \A k \in Nat : within[k] = IF k = 0 THEN {root} ELSE Grown(within[k - 1])
    BY <1>6
  <2>2. ASSUME NEW k \in Nat PROVE within[k + 1] = Grown(within[k])
    <3>1. k + 1 \in Nat /\ k + 1 # 0 /\ (k + 1) - 1 = k
      OBVIOUS
    <3>2. QED
      BY <2>1, <3>1
  <2>3. QED
    BY <2>1, <2>2
<1>9. /\ root \in DOMAIN tree /\ tree[root].cost = 0
      /\ \A c \in DOMAIN tree : tree[c].cost \in Nat /\ Done(arcs, tree, c)
  BY DEF Searched, Rooted, Entries
<1>10. \A c \in DOMAIN tree \ {root} : \E x \in arcs :
          x.to = c /\ x.from \in DOMAIN tree /\ tree[c].cost = tree[x.from].cost + 1
  BY DEF Searched, Rooted
<1> DEFINE Near(k) == {c \in DOMAIN tree : tree[c].cost <= k}
           X == {k \in Nat : within[k] = Near(k)}
<1>11. 0 \in X
  <2>1. ASSUME NEW c \in DOMAIN tree, tree[c].cost <= 0 PROVE c = root
    BY <1>9, <1>10, <2>1
  <2>2. QED
    BY <1>8, <1>9, <2>1
<1>12. ASSUME NEW k \in Nat, k \in X PROVE k + 1 \in X
  <2>1. within[k] = Near(k) /\ within[k + 1] = Grown(Near(k))
    BY <1>8, <1>12
  <2>2. ASSUME NEW c \in Grown(Near(k)) PROVE c \in Near(k + 1)
    <3>1. CASE c \in Near(k)
      BY <1>9, <3>1
    <3>2. CASE c \notin Near(k)
      <4>1. PICK x \in arcs : x.from \in Near(k) /\ c = x.to
        BY <2>2, <3>2 DEF Grown
      <4>2. c \in DOMAIN tree /\ tree[c].cost <= tree[x.from].cost + 1
        BY <1>9, <4>1 DEF Done
      <4>3. tree[x.from].cost \in Nat /\ tree[x.from].cost <= k /\ tree[c].cost \in Nat
        BY <1>9, <4>1, <4>2
      <4>4. QED
        BY <4>2, <4>3
    <3>3. QED
      BY <3>1, <3>2
  <2>3. ASSUME NEW c \in Near(k + 1) PROVE c \in Grown(Near(k))
    <3>1. CASE c = root
      BY <1>9, <3>1 DEF Grown
    <3>2. CASE c # root
      <4>1. PICK x \in arcs : x.to = c /\ x.from \in DOMAIN tree /\ tree[c].cost = tree[x.from].cost + 1
        BY <1>10, <2>3, <3>2
      <4>2. tree[x.from].cost <= k
        BY <1>9, <2>3, <4>1
      <4>3. QED
        BY <4>1, <4>2 DEF Grown
    <3>3. QED
      BY <3>1, <3>2
  <2>4. QED
    BY <2>1, <2>2, <2>3
<1> HIDE DEF X
<1>13. Nat \subseteq X
  BY <1>11, <1>12, Inductive
<1>14. QED
  BY <1>7, <1>13 DEF X

\* The cable l leads from port a to port b, and what servers allow is so.
Hop(t, v, p, q, l, a, b) ==
    /\ l \in DOMAIN t.links
    /\ \/ a = t.links[l].source /\ b = t.links[l].target
       \/ a = t.links[l].target /\ b = t.links[l].source
    /\ Carries(t, a, v) /\ Carries(t, b, v)
    /\ IsServer(t, DeviceOf(t, a)) => a = p
    /\ DeviceOf(t, b) = DeviceOf(t, q) /\ IsServer(t, DeviceOf(t, q)) => b = q

HopOf(t, l, a, b) ==
    [from |-> DeviceOf(t, a), to |-> DeviceOf(t, b), key |-> <<Rank[l], 0, 0>>, via |-> l]

\* A hop is a carrying cable, taken in one of its two directions.
LEMMA HopIs ==
    ASSUME NEW t, NEW v, NEW p, NEW q
    PROVE  /\ \A x \in Hops(t, v, p, q) : \E l, a, b : Hop(t, v, p, q, l, a, b) /\ x = HopOf(t, l, a, b)
           /\ \A l, a, b : Hop(t, v, p, q, l, a, b) => HopOf(t, l, a, b) \in Hops(t, v, p, q)
<1> DEFINE carrying == {l \in DOMAIN t.links : \A r \in Ends(t.links[l]) : Carries(t, r, v)}
           ways == UNION {{<<l, t.links[l].source, t.links[l].target>>,
                           <<l, t.links[l].target, t.links[l].source>>} : l \in carrying}
           Fit(w) == /\ IsServer(t, DeviceOf(t, w[2])) => w[2] = p
                     /\ DeviceOf(t, w[3]) = DeviceOf(t, q) /\ IsServer(t, DeviceOf(t, q)) => w[3] = q
           open == {w \in ways : Fit(w)}
<1>1. Hops(t, v, p, q) = {HopOf(t, w[1], w[2], w[3]) : w \in open}
  BY Zenon DEF Hops, HopOf
<1>2. ASSUME NEW w \in open PROVE Hop(t, v, p, q, w[1], w[2], w[3])
  <2>1. PICK l \in carrying : \/ w = <<l, t.links[l].source, t.links[l].target>>
                              \/ w = <<l, t.links[l].target, t.links[l].source>>
    OBVIOUS
  <2>2. l \in DOMAIN t.links /\ Carries(t, t.links[l].source, v) /\ Carries(t, t.links[l].target, v)
    BY DEF Ends
  <2>3. Fit(w) /\ w[1] = l
    BY <2>1
  <2>4. \/ w[2] = t.links[l].source /\ w[3] = t.links[l].target
        \/ w[2] = t.links[l].target /\ w[3] = t.links[l].source
    BY <2>1
  <2>5. QED
    BY <2>2, <2>3, <2>4 DEF Hop
<1>3. ASSUME NEW l, NEW a, NEW b, Hop(t, v, p, q, l, a, b) PROVE <<l, a, b>> \in open
  <2>1. l \in carrying
    BY <1>3 DEF Hop, Ends
  <2>2. <<l, a, b>> \in ways
    BY <1>3, <2>1 DEF Hop
  <2>3. Fit(<<l, a, b>>)
    BY <1>3 DEF Hop
  <2> HIDE DEF ways, Fit
  <2>4. QED
    BY <2>2, <2>3
<1> HIDE DEF open
<1>4. ASSUME NEW x \in Hops(t, v, p, q)
      PROVE  \E l, a, b : Hop(t, v, p, q, l, a, b) /\ x = HopOf(t, l, a, b)
  <2>1. PICK w \in open : x = HopOf(t, w[1], w[2], w[3])
    BY <1>1
  <2>2. PICK l, a, b : l = w[1] /\ a = w[2] /\ b = w[3]
    OBVIOUS
  <2>3. Hop(t, v, p, q, l, a, b) /\ x = HopOf(t, l, a, b)
    BY <1>2, <2>1, <2>2
  <2>4. QED
    BY <2>3
<1>5. ASSUME NEW l, NEW a, NEW b, Hop(t, v, p, q, l, a, b)
      PROVE  HopOf(t, l, a, b) \in Hops(t, v, p, q)
  <2>1. PICK w : w = <<l, a, b>>
    OBVIOUS
  <2>2. w \in open /\ w[1] = l /\ w[2] = a /\ w[3] = b
    BY <1>3, <1>5, <2>1
  <2>3. QED
    BY <1>1, <2>2
<1>6. QED
  BY <1>4, <1>5

\* Between documented devices the search finds its way.
LEMMA HopsFine ==
    ASSUME NEW t, IsDocument(t), Validate(t), NEW v, NEW p, NEW q, NEW root
    PROVE  /\ Searched(Hops(t, v, p, q), root, Explored(Hops(t, v, p, q), root))
           /\ \A l, a, b : Hop(t, v, p, q, l, a, b) =>
                /\ a \in DOMAIN t.ports /\ b \in DOMAIN t.ports /\ Ends(t.links[l]) = {a, b}
                /\ DevicesAt(t, l) = {DeviceOf(t, a), DeviceOf(t, b)}
<1>1. ASSUME NEW l, NEW a, NEW b, Hop(t, v, p, q, l, a, b)
      PROVE  /\ a \in DOMAIN t.ports /\ b \in DOMAIN t.ports /\ Ends(t.links[l]) = {a, b}
             /\ DevicesAt(t, l) = {DeviceOf(t, a), DeviceOf(t, b)}
             /\ Rank[l] \in Nat /\ DeviceOf(t, b) \in Devices
  <2>1. l \in DOMAIN t.links /\ LinksValid(t) /\ PortsValid(t)
    BY <1>1 DEF Hop, Validate
  <2>2. a \in DOMAIN t.ports /\ b \in DOMAIN t.ports /\ Ends(t.links[l]) = {a, b} /\ l \in Links
    BY <1>1, <2>1, EndsThere DEF Hop, Ends
  <2>3. DevicesAt(t, l) = {DeviceOf(t, a), DeviceOf(t, b)}
    BY <2>2 DEF DevicesAt
  <2>4. DeviceOf(t, b) \in Devices
    BY <2>1, <2>2 DEF DeviceOf, PortsValid, IsDocument, IsTable
  <2>5. QED
    BY <2>2, <2>3, <2>4, AnalysisAssumption
<1>2. PICK hops : hops = Hops(t, v, p, q)
  OBVIOUS
<1>3. ASSUME NEW x \in hops PROVE x.to \in Devices /\ x.key \in Keys
  <2>1. PICK l, a, b : Hop(t, v, p, q, l, a, b) /\ x = HopOf(t, l, a, b)
    BY <1>2, HopIs
  <2>2. x.to = DeviceOf(t, b) /\ x.key = <<Rank[l], 0, 0>>
    BY <2>1 DEF HopOf
  <2>3. QED
    BY <1>1, <2>1, <2>2 DEF Keys
<1>4. ArcsOK(hops)
  <2>1. {x.to : x \in hops} \subseteq Devices
    BY <1>3
  <2>2. IsFiniteSet({x.to : x \in hops})
    BY <2>1, AnalysisAssumption, FS_Subset
  <2>3. QED
    BY <1>3, <2>2 DEF ArcsOK
<1>5. QED
  BY <1>1, <1>2, <1>4, SearchIsRight

\* The tree of a search for a path: each device has its cable from the one before it.
PathTree(t, v, p, q, here, tree) ==
    /\ here \in DOMAIN tree /\ tree[here].cost = 0 /\ tree[here].from = here
    /\ \A c \in DOMAIN tree : tree[c].cost \in Nat
    /\ \A c \in DOMAIN tree \ {here} :
        /\ tree[c].from \in DOMAIN tree /\ tree[c].cost = tree[tree[c].from].cost + 1
        /\ \E a, b : /\ Hop(t, v, p, q, tree[c].via, a, b)
                     /\ DeviceOf(t, a) = tree[c].from /\ DeviceOf(t, b) = c
    /\ \A l, a, b : Hop(t, v, p, q, l, a, b) /\ DeviceOf(t, a) \in DOMAIN tree => DeviceOf(t, b) \in DOMAIN tree

\* What the search of a traced path finds.
LEMMA PathTreeIs ==
    ASSUME NEW t, IsDocument(t), Validate(t), NEW v, NEW p, NEW q, NEW here,
           NEW tree, tree = Explored(Hops(t, v, p, q), here)
    PROVE  PathTree(t, v, p, q, here, tree)
<1>1. PICK hops : hops = Hops(t, v, p, q) /\ Searched(hops, here, tree)
  BY HopsFine
<1>2. Rooted(hops, here, tree) /\ \A c \in DOMAIN tree : Done(hops, tree, c)
  BY <1>1 DEF Searched
<1>3. /\ here \in DOMAIN tree /\ tree[here].cost = 0 /\ tree[here].from = here
      /\ \A c \in DOMAIN tree : tree[c].cost \in Nat
  BY <1>2 DEF Rooted, Entries
<1>4. ASSUME NEW c \in DOMAIN tree \ {here}
      PROVE  /\ tree[c].from \in DOMAIN tree /\ tree[c].cost = tree[tree[c].from].cost + 1
             /\ \E a, b : /\ Hop(t, v, p, q, tree[c].via, a, b)
                          /\ DeviceOf(t, a) = tree[c].from /\ DeviceOf(t, b) = c
  <2>1. PICK x \in hops : /\ x.to = c /\ x.from = tree[c].from /\ x.via = tree[c].via
                          /\ x.from \in DOMAIN tree /\ tree[c].cost = tree[x.from].cost + 1
    BY <1>2 DEF Rooted
  <2>2. PICK l, a, b : Hop(t, v, p, q, l, a, b) /\ x = HopOf(t, l, a, b)
    BY <1>1, HopIs
  <2>3. x.from = DeviceOf(t, a) /\ x.to = DeviceOf(t, b) /\ x.via = l
    BY <2>2 DEF HopOf
  <2>4. Hop(t, v, p, q, tree[c].via, a, b) /\ DeviceOf(t, a) = tree[c].from /\ DeviceOf(t, b) = c
    BY <2>1, <2>2, <2>3
  <2>5. QED
    BY <2>1, <2>4
<1>5. ASSUME NEW l, NEW a, NEW b, Hop(t, v, p, q, l, a, b), DeviceOf(t, a) \in DOMAIN tree
      PROVE  DeviceOf(t, b) \in DOMAIN tree
  <2>1. PICK x \in hops : x = HopOf(t, l, a, b)
    BY <1>1, <1>5, HopIs
  <2>2. x.from = DeviceOf(t, a) /\ x.to = DeviceOf(t, b)
    BY <2>1 DEF HopOf
  <2>3. QED
    BY <1>2, <1>5, <2>2 DEF Done
<1>6. QED
  BY <1>3, <1>4, <1>5, Zenon DEF PathTree

\* The way to a device of the tree is a path, and none is shorter.
LEMMA PathIs ==
    ASSUME NEW t, IsDocument(t), Validate(t), NEW v, NEW p, NEW q,
           NEW here, here = DeviceOf(t, p), NEW there, there = DeviceOf(t, q), here # there,
           NEW tree, tree = Explored(Hops(t, v, p, q), here), there \in DOMAIN tree
    PROVE  PathRight(t, v, p, q, WayTo(tree, there))
<1>1. PathTree(t, v, p, q, here, tree) /\ Searched(Hops(t, v, p, q), here, tree)
  BY PathTreeIs, HopsFine
<1>2. PICK k \in Nat : k = tree[there].cost
  BY <1>1 DEF PathTree
<1>3. k # 0
  BY <1>1, <1>2 DEF PathTree
<1>4. PICK climb : Climbs(tree, here, there, climb)
  BY <1>1, WayIs DEF PathTree
<1>5. PICK path : path = WayTo(tree, there) /\ path = [i \in 1..k |-> tree[climb[k - i]].via]
  BY <1>2, <1>4 DEF Climbs
<1>6. /\ climb[0] = there
      /\ \A n \in Nat : climb[n] \in DOMAIN tree /\ climb[n + 1] = tree[climb[n]].from
      /\ \A n \in Nat : n <= k => tree[climb[n]].cost = k - n
  BY <1>2, <1>4 DEF Climbs
<1>7. climb[k] = here
  <2>1. tree[climb[k]].cost = 0 /\ climb[k] \in DOMAIN tree
    BY <1>6
  <2>2. ASSUME climb[k] # here PROVE FALSE
    <3>1. tree[climb[k]].cost = tree[tree[climb[k]].from].cost + 1 /\ tree[tree[climb[k]].from].cost \in Nat
      BY <1>1, <2>1, <2>2 DEF PathTree
    <3>2. QED
      BY <2>1, <3>1
  <2>3. QED
    BY <2>2
<1>8. ASSUME NEW n \in Nat, n < k
      PROVE  /\ climb[n] # here
             /\ \E a, b : /\ Hop(t, v, p, q, path[k - n], a, b)
                          /\ DeviceOf(t, a) = climb[n + 1] /\ DeviceOf(t, b) = climb[n]
                          /\ DevicesAt(t, path[k - n]) = {climb[n], climb[n + 1]}
                          /\ Ends(t.links[path[k - n]]) = {a, b}
  <2>1. tree[climb[n]].cost = k - n /\ k - n # 0
    BY <1>6, <1>8
  <2>2. climb[n] \in DOMAIN tree \ {here}
    BY <1>1, <1>6, <2>1 DEF PathTree
  <2>3. path[k - n] = tree[climb[n]].via
    <3>1. k - n \in 1..k /\ k - (k - n) = n
      BY <1>8
    <3>2. QED
      BY <1>5, <3>1
  <2>4. PICK a, b : /\ Hop(t, v, p, q, path[k - n], a, b)
                    /\ DeviceOf(t, a) = climb[n + 1] /\ DeviceOf(t, b) = climb[n]
    BY <1>1, <1>6, <2>2, <2>3 DEF PathTree
  <2>5. Ends(t.links[path[k - n]]) = {a, b} /\ DevicesAt(t, path[k - n]) = {climb[n], climb[n + 1]}
    <3>1. PICK l : l = path[k - n]
      OBVIOUS
    <3>2. Ends(t.links[l]) = {a, b} /\ DevicesAt(t, l) = {DeviceOf(t, a), DeviceOf(t, b)}
      BY <2>4, <3>1, HopsFine
    <3>3. QED
      BY <2>4, <3>1, <3>2
  <2>6. QED
    BY <2>2, <2>4, <2>5
<1>9. DOMAIN path = 1..k /\ Len(path) = k /\ path # <<>>
  BY <1>3, <1>5
<1>10. \A i \in 1..k : k - i \in Nat /\ k - i < k /\ k - (k - i) = i
  OBVIOUS
<1>11. /\ here \in DevicesAt(t, path[1])
       /\ IsServer(t, here) => p \in Ends(t.links[path[1]])
  <2>1. k - 1 \in Nat /\ k - 1 < k /\ k - (k - 1) = 1 /\ (k - 1) + 1 = k
    BY <1>3
  <2>2. PICK a, b : /\ Hop(t, v, p, q, path[1], a, b) /\ DeviceOf(t, a) = climb[k]
                    /\ DevicesAt(t, path[1]) = {climb[k - 1], climb[k]} /\ Ends(t.links[path[1]]) = {a, b}
    BY <1>8, <2>1
  <2>3. QED
    BY <1>7, <2>2 DEF Hop
<1>12. /\ there \in DevicesAt(t, path[k])
       /\ IsServer(t, there) => q \in Ends(t.links[path[k]])
  <2>1. 0 \in Nat /\ 0 < k /\ k - 0 = k
    BY <1>3
  <2>2. PICK a, b : /\ Hop(t, v, p, q, path[k], a, b) /\ DeviceOf(t, b) = climb[0]
                    /\ DevicesAt(t, path[k]) = {climb[0], climb[0 + 1]} /\ Ends(t.links[path[k]]) = {a, b}
    BY <1>8, <2>1
  <2>3. QED
    BY <1>6, <2>2 DEF Hop
<1>13. ASSUME NEW i \in 1..(k - 1)
       PROVE  \E d \in DevicesAt(t, path[i]) \cap DevicesAt(t, path[i + 1]) :
                 ~IsServer(t, d) /\ d \notin {here, there}
  <2>1. PICK n \in Nat : n = k - i /\ n < k /\ k - n = i /\ n # 0
    BY <1>3
  <2>2. PICK m \in Nat : m + 1 = n /\ m < k /\ k - m = i + 1
    BY <2>1
  <2>3. PICK d : d = climb[n]
    OBVIOUS
  <2>4. d \in DevicesAt(t, path[i]) /\ d # here
    BY <1>8, <2>1, <2>3
  <2>5. d # there
    <3>1. tree[d].cost = k - n
      BY <1>6, <2>1, <2>3
    <3>2. QED
      BY <1>2, <2>1, <3>1
  <2>6. PICK a, b : /\ Hop(t, v, p, q, path[i + 1], a, b) /\ DeviceOf(t, a) = d
                    /\ d \in DevicesAt(t, path[i + 1])
    BY <1>8, <2>2, <2>3
  <2>7. ~IsServer(t, d)
    BY <2>4, <2>6 DEF Hop
  <2>8. QED
    BY <2>4, <2>5, <2>6, <2>7
<1>14. there \in Within(Hops(t, v, p, q), here, k) \ Within(Hops(t, v, p, q), here, k - 1)
  <2>1. k - 1 \in Nat
    BY <1>3
  <2>2. /\ Within(Hops(t, v, p, q), here, k) = {c \in DOMAIN tree : tree[c].cost <= k}
        /\ Within(Hops(t, v, p, q), here, k - 1) = {c \in DOMAIN tree : tree[c].cost <= k - 1}
    BY <1>1, <2>1, WithinIs
  <2>3. QED
    BY <1>2, <2>2
<1>15. PathRight(t, v, p, q, path)
  <2>1. /\ there \in DevicesAt(t, path[Len(path)])
        /\ IsServer(t, there) => q \in Ends(t.links[path[Len(path)]])
    BY <1>9, <1>12
  <2>2. \A i \in 1..(Len(path) - 1) :
          \E d \in DevicesAt(t, path[i]) \cap DevicesAt(t, path[i + 1]) :
             ~IsServer(t, d) /\ d \notin {here, there}
    BY <1>9, <1>13
  <2>3. there \in Within(Hops(t, v, p, q), here, Len(path)) \ Within(Hops(t, v, p, q), here, Len(path) - 1)
    BY <1>9, <1>14
  <2>4. PICK x, y : x = DeviceOf(t, p) /\ y = DeviceOf(t, q) /\ x = here /\ y = there
    OBVIOUS
  <2>5. /\ path # <<>> /\ x \in DevicesAt(t, path[1]) /\ y \in DevicesAt(t, path[Len(path)])
        /\ IsServer(t, x) => p \in Ends(t.links[path[1]])
        /\ IsServer(t, y) => q \in Ends(t.links[path[Len(path)]])
        /\ y \in Within(Hops(t, v, p, q), x, Len(path)) \ Within(Hops(t, v, p, q), x, Len(path) - 1)
    BY <1>9, <1>11, <2>1, <2>3, <2>4
  <2>6. \A i \in 1..(Len(path) - 1) :
          \E d \in DevicesAt(t, path[i]) \cap DevicesAt(t, path[i + 1]) :
             ~IsServer(t, d) /\ d \notin {x, y}
    BY <2>2, <2>4
  <2>7. QED
    BY <2>4, <2>5, <2>6, Zenon DEF PathRight
<1>16. QED
  BY <1>5, <1>15

\* What cannot be reached one way cannot be reached the other way.
LEMMA NoWayBack ==
    ASSUME NEW t, IsDocument(t), Validate(t), NEW v, NEW p, NEW q,
           NEW here, here = DeviceOf(t, p), NEW there, there = DeviceOf(t, q),
           NEW tree, tree = Explored(Hops(t, v, p, q), here), there \notin DOMAIN tree,
           NEW back, back = Explored(Hops(t, v, q, p), there)
    PROVE  here \notin DOMAIN back
<1>1. SUFFICES ASSUME here \in DOMAIN back PROVE FALSE
  OBVIOUS
<1>2. PathTree(t, v, p, q, here, tree) /\ PathTree(t, v, q, p, there, back)
  BY PathTreeIs
<1>3. PICK k \in Nat : k = back[here].cost
  BY <1>1, <1>2 DEF PathTree
<1>4. PICK climb : Climbs(back, there, here, climb)
  BY <1>1, <1>2, WayIs DEF PathTree
<1>5. /\ climb[0] = here
      /\ \A n \in Nat : climb[n] \in DOMAIN back /\ climb[n + 1] = back[climb[n]].from
      /\ \A n \in Nat : n <= k => back[climb[n]].cost = k - n
  BY <1>3, <1>4 DEF Climbs
<1>6. ASSUME NEW n \in Nat, n < k
      PROVE  /\ climb[n] # there
             /\ \E l, a, b : /\ Hop(t, v, q, p, l, a, b)
                             /\ DeviceOf(t, a) = climb[n + 1] /\ DeviceOf(t, b) = climb[n]
  <2>1. back[climb[n]].cost # 0
    BY <1>5, <1>6
  <2>2. climb[n] \in DOMAIN back \ {there}
    BY <1>2, <1>5, <2>1 DEF PathTree
  <2>3. QED
    BY <1>2, <1>5, <2>2 DEF PathTree
\* No device on the way but the last is a server.
<1>7. ASSUME NEW n \in Nat, n # 0, n < k PROVE ~IsServer(t, climb[n])
  <2>1. PICK m \in Nat : m + 1 = n /\ m < k
    <3>1. n - 1 \in Nat /\ (n - 1) + 1 = n /\ n - 1 < k
      BY <1>7
    <3>2. QED
      BY <3>1
  <2>2. PICK l, a, b : Hop(t, v, q, p, l, a, b) /\ DeviceOf(t, a) = climb[n]
    BY <1>6, <2>1
  <2>3. climb[n] # there
    BY <1>6, <1>7
  <2>4. QED
    BY <2>2, <2>3 DEF Hop
<1> DEFINE X == {n \in Nat : n <= k => climb[n] \in DOMAIN tree}
<1>8. 0 \in X
  BY <1>2, <1>5 DEF PathTree
<1>9. ASSUME NEW n \in Nat, n \in X PROVE n + 1 \in X
  <2>1. SUFFICES ASSUME n + 1 <= k PROVE climb[n + 1] \in DOMAIN tree
    OBVIOUS
  <2>2. n < k /\ climb[n] \in DOMAIN tree
    BY <1>9, <2>1
  <2>3. PICK l, a, b : /\ Hop(t, v, q, p, l, a, b)
                       /\ DeviceOf(t, a) = climb[n + 1] /\ DeviceOf(t, b) = climb[n]
    BY <1>6, <2>2
  <2>4. IsServer(t, DeviceOf(t, b)) => b = p
    <3>1. CASE n = 0
      BY <1>5, <2>3, <3>1 DEF Hop
    <3>2. CASE n # 0
      BY <1>7, <2>2, <2>3, <3>2
    <3>3. QED
      BY <3>1, <3>2
  <2>5. Hop(t, v, p, q, l, b, a)
    BY <2>3, <2>4 DEF Hop
  <2>6. QED
    BY <1>2, <2>2, <2>3, <2>5 DEF PathTree
<1> HIDE DEF X
<1>10. Nat \subseteq X
  BY <1>8, <1>9, Inductive
<1>11. climb[k] \in DOMAIN tree
  BY <1>10 DEF X
<1>12. climb[k] = there
  <2>1. back[climb[k]].cost = 0 /\ climb[k] \in DOMAIN back
    BY <1>5
  <2>2. ASSUME climb[k] # there PROVE FALSE
    <3>1. back[climb[k]].cost = back[back[climb[k]].from].cost + 1 /\ back[back[climb[k]].from].cost \in Nat
      BY <1>2, <2>1, <2>2 DEF PathTree
    <3>2. QED
      BY <2>1, <3>1
  <2>3. QED
    BY <2>2
<1>13. QED
  BY <1>11, <1>12

-----------------------------------------------------------------------------
(* Warnings.                                                                *)

\* A port of the document is of a device of it, and its VLANs are the document's.
LEMMA PortThere ==
    ASSUME NEW t, IsDocument(t), Validate(t), NEW p \in DOMAIN t.ports
    PROVE  /\ t.ports[p].device \in DOMAIN t.devices /\ t.ports[p].device \in Devices
           /\ t.ports[p].set \in Settings /\ t.ports[p].set.tagged \subseteq t.vlans
           /\ t.ports[p].set.native \in t.vlans \cup {Unset} /\ p \in Ports
<1>1. t.ports[p] \in PortRecords
  BY DEF IsDocument, IsTable
<1>2. t.ports[p].device \in Devices /\ t.ports[p].set \in Settings
  BY <1>1 DEF PortRecords
<1>3. QED
  BY <1>2 DEF Validate, PortsValid, IsDocument, IsTable

\* What a configured group looks like.
LEMMA ConfiguredIs ==
    ASSUME NEW t, IsDocument(t), Validate(t), NEW l \in DOMAIN t.links,
           NEW native \in t.vlans, NEW tagged \in SUBSET t.vlans, NEW k \in Grouped(t, l)
    PROVE  LET after == Configured(t, l, native, tagged) IN
           /\ k \in DOMAIN t.links /\ Ends(after.links[k]) = Ends(t.links[k])
           /\ after.links[k].source = t.links[k].source /\ after.links[k].target = t.links[k].target
           /\ after.links[k].vlans = tagged \cup {native}
           /\ \A p \in Ends(t.links[k]) :
                after.ports[p].set.native = native /\ after.ports[p].set.tagged = tagged \ {native}
<1> DEFINE ends == UNION {Ends(t.links[m]) : m \in Grouped(t, l)}
           after == Configured(t, l, native, tagged)
<1>1. k \in DOMAIN t.links
  BY DEF Grouped, Validate, GroupsValid, GroupValid
<1>2. t.links[k] \in LinkRecords
  BY <1>1 DEF IsDocument, IsTable
<1>3. after.links = [m \in DOMAIN t.links |->
            IF m \in Grouped(t, l)
            THEN [t.links[m] EXCEPT !.primary = native, !.vlans = tagged \cup {native}] ELSE t.links[m]]
  BY DEF Configured, IsDocument
<1>4. after.links[k] = [t.links[k] EXCEPT !.primary = native, !.vlans = tagged \cup {native}]
  BY <1>1, <1>3
<1>5. after.ports = [p \in DOMAIN t.ports |->
            IF p \in ends
            THEN [t.ports[p] EXCEPT !.set.native = native, !.set.tagged = tagged \ {native}]
            ELSE t.ports[p]]
  BY DEF Configured, IsDocument
<1>6. ASSUME NEW p \in Ends(t.links[k])
      PROVE  after.ports[p].set.native = native /\ after.ports[p].set.tagged = tagged \ {native}
  <2>1. p \in DOMAIN t.ports /\ p \in ends
    BY <1>1, EndsThere DEF Validate
  <2>2. after.ports[p] = [t.ports[p] EXCEPT !.set.native = native, !.set.tagged = tagged \ {native}]
    BY <1>5, <2>1
  <2>3. t.ports[p] \in PortRecords /\ t.ports[p].set \in Settings
    BY <2>1 DEF IsDocument, IsTable, PortRecords
  <2>4. QED
    BY <2>2, <2>3 DEF PortRecords, Settings
<1>7. /\ after.links[k].source = t.links[k].source /\ after.links[k].target = t.links[k].target
      /\ after.links[k].vlans = tagged \cup {native}
  BY <1>2, <1>4 DEF LinkRecords
<1>8. Ends(after.links[k]) = Ends(t.links[k])
  BY <1>7 DEF Ends
<1>9. QED
  BY <1>1, <1>6, <1>7, <1>8

\* configureLink leaves no warning on the cable and its group.
LEMMA ConfiguredWarnsNot ==
    ASSUME NEW t, IsDocument(t), Validate(t), NEW l \in DOMAIN t.links,
           NEW native \in t.vlans, NEW tagged \in SUBSET t.vlans
    PROVE  LET after == Configured(t, l, native, tagged) IN
           /\ \A k \in Grouped(t, l) : ~Mismatched(after, k) /\ Dropped(after, k) = {}
           /\ \A g \in GroupsOf(t, l) : ~Uneven(after, g)
<1>0. PICK after : after = Configured(t, l, native, tagged)
  OBVIOUS
<1>1. ASSUME NEW k \in Grouped(t, l)
      PROVE  ~Mismatched(after, k) /\ Dropped(after, k) = {}
  <2> DEFINE link == after.links[k]
  <2>1. \A p \in Ends(t.links[k]) :
            after.ports[p].set.native = native /\ after.ports[p].set.tagged = tagged \ {native}
    BY <1>0, ConfiguredIs
  <2>2. Ends(link) = Ends(t.links[k]) /\ link.source \in Ends(link) /\ link.target \in Ends(link)
    BY <1>0, ConfiguredIs DEF Ends
  <2>3. ~Mismatched(after, k)
    BY <2>1, <2>2 DEF Mismatched, Several
  <2>4. native # Unset
    BY VlansAssumption DEF IsDocument
  <2>5. \A p, q \in Ends(link) : \A v \in after.ports[p].set.tagged : Carries(after, q, v)
    BY <2>1, <2>2, <2>4 DEF Carries
  <2>6. Dropped(after, k) = {}
    BY <2>2, <2>5 DEF Dropped
  <2>7. QED
    BY <2>3, <2>6
<1>2. ASSUME NEW g \in GroupsOf(t, l)
      PROVE  ~Uneven(after, g)
  <2>1. t.groups[g].members \subseteq Grouped(t, l)
    BY DEF GroupsOf, Grouped
  <2>2. after.groups = t.groups
    BY <1>0 DEF Configured, IsDocument
  <2>3. \A k \in t.groups[g].members : after.links[k].vlans = tagged \cup {native}
    BY <1>0, <2>1, ConfiguredIs
  <2>4. QED
    BY <2>2, <2>3 DEF Uneven, Several
<1>3. QED
  BY <1>0, <1>1, <1>2

\* Ports and cables without a VLAN.
LEMMA VlanGone ==
    ASSUME NEW t, IsDocument(t), Validate(t), NEW v \in t.vlans \ {1}
    PROVE  LET after == WithoutVlan(t, v) IN
           /\ after.groups = t.groups
           /\ \A l \in DOMAIN t.links :
                /\ after.links[l].source = t.links[l].source /\ after.links[l].target = t.links[l].target
                /\ after.links[l].vlans = t.links[l].vlans \ {v}
           /\ \A p \in DOMAIN t.ports :
                /\ after.ports[p].set.native =
                     IF t.ports[p].set.native = v THEN 1 ELSE t.ports[p].set.native
                /\ after.ports[p].set.tagged = t.ports[p].set.tagged \ {v}
<1> DEFINE Native(w) == IF w = v THEN 1 ELSE w
           after == WithoutVlan(t, v)
<1>1. /\ after.groups = t.groups
      /\ after.ports = [p \in DOMAIN t.ports |->
                  [t.ports[p] EXCEPT !.set.native = Native(t.ports[p].set.native),
                                     !.set.tagged = t.ports[p].set.tagged \ {v}]]
      /\ after.links = [l \in DOMAIN t.links |->
                  [t.links[l] EXCEPT !.primary = Native(t.links[l].primary),
                                     !.vlans = t.links[l].vlans \ {v}]]
  BY DEF WithoutVlan, IsDocument
<1>2. ASSUME NEW l \in DOMAIN t.links
      PROVE  /\ after.links[l].source = t.links[l].source /\ after.links[l].target = t.links[l].target
             /\ after.links[l].vlans = t.links[l].vlans \ {v}
  <2>1. t.links[l] \in LinkRecords
    BY DEF IsDocument, IsTable
  <2>2. after.links[l] = [t.links[l] EXCEPT !.primary = Native(t.links[l].primary),
                                            !.vlans = t.links[l].vlans \ {v}]
    BY <1>1
  <2>3. QED
    BY <2>1, <2>2 DEF LinkRecords
<1>3. ASSUME NEW p \in DOMAIN t.ports
      PROVE  /\ after.ports[p].set.native = Native(t.ports[p].set.native)
             /\ after.ports[p].set.tagged = t.ports[p].set.tagged \ {v}
  <2>1. t.ports[p] \in PortRecords /\ t.ports[p].set \in Settings
    BY DEF IsDocument, IsTable, PortRecords
  <2>2. after.ports[p] = [t.ports[p] EXCEPT !.set.native = Native(t.ports[p].set.native),
                                            !.set.tagged = t.ports[p].set.tagged \ {v}]
    BY <1>1
  <2>3. QED
    BY <2>1, <2>2 DEF PortRecords, Settings
<1>4. QED
  BY <1>1, <1>2, <1>3

\* The deletion of a VLAN adds no warning.
LEMMA DeletionWarnsNot ==
    ASSUME NEW t, IsDocument(t), Validate(t), NEW v \in t.vlans \ {1}
    PROVE  LET after == WithoutVlan(t, v) IN
           /\ \A l \in DOMAIN t.links :
                (Mismatched(after, l) => Mismatched(t, l)) /\ Dropped(after, l) \subseteq Dropped(t, l)
           /\ \A g \in DOMAIN t.groups : Uneven(after, g) => Uneven(t, g)
<1>0. PICK after : after = WithoutVlan(t, v)
  OBVIOUS
<1>1. v # Unset /\ v # 1 /\ Unset # 1
  BY VlansAssumption DEF IsDocument, Unset
<1>2. /\ \A l \in DOMAIN t.links :
            /\ after.links[l].source = t.links[l].source /\ after.links[l].target = t.links[l].target
            /\ after.links[l].vlans = t.links[l].vlans \ {v}
      /\ \A p \in DOMAIN t.ports :
            /\ after.ports[p].set.native = IF t.ports[p].set.native = v THEN 1 ELSE t.ports[p].set.native
            /\ after.ports[p].set.tagged = t.ports[p].set.tagged \ {v}
  BY <1>0, VlanGone
<1>3. after.groups = t.groups
  BY <1>0, VlanGone
<1>4. ASSUME NEW l \in DOMAIN t.links
      PROVE  (Mismatched(after, l) => Mismatched(t, l)) /\ Dropped(after, l) \subseteq Dropped(t, l)
  <2>1. PICK p \in DOMAIN t.ports, q \in DOMAIN t.ports : p = t.links[l].source /\ q = t.links[l].target
    BY EndsThere DEF Validate
  <2>2. Ends(t.links[l]) = {p, q} /\ Ends(after.links[l]) = {p, q}
    BY <1>2, <2>1 DEF Ends
  <2>3. Mismatched(after, l) => Mismatched(t, l)
    <3>1. \A u : Ends(u.links[l]) = {p, q} =>
            (Mismatched(u, l) <=>
                /\ u.ports[p].set.native # u.ports[q].set.native
                /\ u.ports[p].set.native # Unset /\ u.ports[q].set.native # Unset)
      BY DEF Mismatched, Several
    <3>2. QED
      BY <1>1, <1>2, <2>2, <3>1
  <2>4. \A x, y \in DOMAIN t.ports : \A w :
            w # v /\ Carries(t, y, w) => Carries(after, y, w)
    BY <1>1, <1>2 DEF Carries
  <2>5. QED
    BY <1>2, <2>1, <2>3, <2>4 DEF Dropped
<1>5. ASSUME NEW g \in DOMAIN t.groups, Uneven(after, g)
      PROVE  Uneven(t, g)
  <2>1. t.groups[g].members \subseteq DOMAIN t.links
    BY DEF Validate, GroupsValid, GroupValid
  <2>2. \A l \in t.groups[g].members : after.links[l].vlans = t.links[l].vlans \ {v}
    BY <1>2, <2>1
  <2>3. PICK l, m \in t.groups[g].members : after.links[l].vlans # after.links[m].vlans
    BY <1>3, <1>5 DEF Uneven, Several
  <2>4. t.links[l].vlans # t.links[m].vlans
    BY <2>2, <2>3
  <2>5. QED
    BY <2>4 DEF Uneven, Several
<1>6. QED
  BY <1>0, <1>4, <1>5

\* The warnings of a valid document are right.
LEMMA WarningsAreRight == ASSUME NEW t, IsDocument(t), Validate(t) PROVE WarningsRight(t)
BY ConfiguredWarnsNot, DeletionWarnsNot DEF WarningsRight

\* Without switch systems, the devices of a domain are switches that reach each other.
LEMMA DomainsReach ==
    ASSUME NEW t, IsDocument(t), Validate(t), DOMAIN t.teams = {}, NEW v, NEW p, NEW q,
           NEW here, here = DeviceOf(t, p), NEW there, there = DeviceOf(t, q),
           NEW D \in Domains(t, v), here \in D.bridges, there \in D.bridges,
           NEW tree, tree = Explored(Hops(t, v, p, q), here)
    PROVE  there \in DOMAIN tree
<1>0. LinksValid(t)
  BY DEF Validate
<1>1. PathTree(t, v, p, q, here, tree)
  BY PathTreeIs
<1>2. PICK E : E = Edges(t, v) /\ EdgesOK(E)
  BY <1>0, EdgesAre
<1>3. \A d : BridgeOf(t, d) = d
  BY DEF BridgeOf
<1>4. \A l : Pair(t, l) = DevicesAt(t, l)
  BY <1>3 DEF Pair
<1>5. \A d \in SwitchesOf(t) : ~IsServer(t, d)
  BY AnalysisAssumption DEF SwitchesOf, IsServer
<1>6. ASSUME NEW e \in E, NEW x \in e.pair, x \in DOMAIN tree, NEW y \in e.pair
      PROVE  y \in DOMAIN tree
  <2>1. SUFFICES ASSUME y # x PROVE y \in DOMAIN tree
    BY <1>6
  <2>2. PICK l \in Live(t, v) : Pair(t, l) = e.pair
    BY <1>0, <1>2, EdgesAre
  <2>3. l \in DOMAIN t.links /\ Eligible(t, v, l)
    BY DEF Live
  <2>4. PICK a, b : a = t.links[l].source /\ b = t.links[l].target
    OBVIOUS
  <2>5. Ends(t.links[l]) = {a, b} /\ e.pair = {DeviceOf(t, a), DeviceOf(t, b)}
    BY <1>4, <2>2, <2>4 DEF Ends, DevicesAt
  <2>6. /\ Carries(t, a, v) /\ Carries(t, b, v)
        /\ ~IsServer(t, DeviceOf(t, a)) /\ ~IsServer(t, DeviceOf(t, b))
    BY <1>4, <1>5, <2>2, <2>3, <2>5 DEF Eligible
  <2>7. ASSUME DeviceOf(t, b) = DeviceOf(t, q) PROVE ~IsServer(t, DeviceOf(t, q))
    BY <2>6, <2>7
  <2>8. ASSUME DeviceOf(t, a) = DeviceOf(t, q) PROVE ~IsServer(t, DeviceOf(t, q))
    BY <2>6, <2>8
  <2>9. Hop(t, v, p, q, l, a, b) /\ Hop(t, v, p, q, l, b, a)
    BY <2>3, <2>4, <2>6, <2>7, <2>8 DEF Hop
  <2>10. CASE x = DeviceOf(t, a) /\ y = DeviceOf(t, b)
    BY <1>1, <1>6, <2>9, <2>10 DEF PathTree
  <2>11. CASE x = DeviceOf(t, b) /\ y = DeviceOf(t, a)
    BY <1>1, <1>6, <2>9, <2>11 DEF PathTree
  <2>12. QED
    BY <1>6, <2>1, <2>5, <2>10, <2>11
<1>7. Closed(E, DOMAIN tree) /\ here \in DOMAIN tree
  <2>1. here \in DOMAIN tree
    BY <1>1 DEF PathTree
  <2>2. QED
    BY <1>6, <2>1 DEF Closed
<1>8. PICK c \in Active(t, v) : D = Domain(t, E, Component(E, c))
  BY <1>0, <1>2, DomainsAre
<1>9. D.bridges = Component(E, c)
  BY <1>0, <1>2, <1>8, DomainIs
<1>10. Component(E, here) = D.bridges
  BY <1>2, <1>9, ComponentsSame
<1>11. Component(E, here) \subseteq DOMAIN tree
  BY <1>2, <1>7, ComponentIs
<1>12. QED
  BY <1>10, <1>11

\* The answer for two ports of the VLAN at different devices.
LEMMA TraceIs ==
    ASSUME NEW t, NEW v, NEW p, NEW q, Carries(t, p, v), Carries(t, q, v),
           NEW here, here = DeviceOf(t, p), NEW there, there = DeviceOf(t, q), here # there,
           NEW tree, tree = Explored(Hops(t, v, p, q), here)
    PROVE  Trace(t, v, p, q) = IF there \in DOMAIN tree THEN {WayTo(tree, there)} ELSE {}
<1>1. Trace(t, v, p, q) =
        (CASE ~Carries(t, p, v) \/ ~Carries(t, q, v) -> {}
           [] DeviceOf(t, p) = DeviceOf(t, q) ->
                IF IsServer(t, DeviceOf(t, p)) /\ p # q THEN {} ELSE {<<>>}
           [] OTHER ->
                IF DeviceOf(t, q) \in DOMAIN Explored(Hops(t, v, p, q), DeviceOf(t, p))
                THEN {WayTo(Explored(Hops(t, v, p, q), DeviceOf(t, p)), DeviceOf(t, q))} ELSE {})
  BY Zenon DEF Trace
<1>2. DeviceOf(t, p) # DeviceOf(t, q)
  OBVIOUS
<1>3. Trace(t, v, p, q) =
        IF DeviceOf(t, q) \in DOMAIN Explored(Hops(t, v, p, q), DeviceOf(t, p))
        THEN {WayTo(Explored(Hops(t, v, p, q), DeviceOf(t, p)), DeviceOf(t, q))} ELSE {}
  BY <1>1, <1>2
<1>4. QED
  BY <1>3

\* TracePath finds a shortest path when there is one, the same way back, and
\* between the switches that the tree of the VLAN joins.
LEMMA TracesAreRight ==
    ASSUME NEW t, IsDocument(t), Validate(t)
    PROVE  TracesRight(t)
<1>1. ASSUME NEW v \in t.vlans, NEW p \in DOMAIN t.ports, NEW q \in DOMAIN t.ports,
             Carries(t, p, v), Carries(t, q, v), DeviceOf(t, p) # DeviceOf(t, q)
      PROVE  /\ \A path \in Trace(t, v, p, q) : PathRight(t, v, p, q, path)
             /\ Trace(t, v, p, q) = {} =>
                /\ DeviceOf(t, q) \notin Within(Hops(t, v, p, q), DeviceOf(t, p), Cardinality(DOMAIN t.devices))
                /\ Trace(t, v, q, p) = {}
                /\ DOMAIN t.teams = {} =>
                    ~\E D \in Domains(t, v) : {DeviceOf(t, p), DeviceOf(t, q)} \subseteq D.bridges
  <2>1. PICK here, there, n : here = DeviceOf(t, p) /\ there = DeviceOf(t, q) /\ here # there
                              /\ n = Cardinality(DOMAIN t.devices)
    BY <1>1
  <2>2. PICK tree, back : /\ tree = Explored(Hops(t, v, p, q), here)
                          /\ back = Explored(Hops(t, v, q, p), there)
    OBVIOUS
  <2>3. Trace(t, v, p, q) = IF there \in DOMAIN tree THEN {WayTo(tree, there)} ELSE {}
    BY <1>1, <2>1, <2>2, TraceIs
  <2>4. Trace(t, v, q, p) = IF here \in DOMAIN back THEN {WayTo(back, here)} ELSE {}
    BY <1>1, <2>1, <2>2, TraceIs
  <2>5. CASE there \in DOMAIN tree
    <3>1. PathRight(t, v, p, q, WayTo(tree, there))
      BY <2>1, <2>2, <2>5, PathIs
    <3>2. Trace(t, v, p, q) = {WayTo(tree, there)}
      BY <2>3, <2>5
    <3>3. QED
      BY <3>1, <3>2
  <2>6. CASE there \notin DOMAIN tree
    <3>1. Trace(t, v, p, q) = {} /\ Trace(t, v, q, p) = {}
      <4>1. here \notin DOMAIN back
        BY <2>1, <2>2, <2>6, NoWayBack
      <4>2. QED
        BY <2>3, <2>4, <2>6, <4>1
    <3>2. n \in Nat
      <4>1. DOMAIN t.devices \subseteq Devices
        BY DEF IsDocument, IsTable
      <4>2. IsFiniteSet(DOMAIN t.devices)
        BY <4>1, AnalysisAssumption, FS_Subset
      <4>3. QED
        BY <2>1, <4>2, FS_CardinalityType
    <3>3. there \notin Within(Hops(t, v, p, q), here, n)
      <4>1. Searched(Hops(t, v, p, q), here, tree)
        BY <2>2, HopsFine
      <4>2. Within(Hops(t, v, p, q), here, n) = {c \in DOMAIN tree : tree[c].cost <= n}
        BY <3>2, <4>1, WithinIs
      <4>3. QED
        BY <2>6, <4>2
    <3>4. ASSUME DOMAIN t.teams = {}, NEW D \in Domains(t, v), {here, there} \subseteq D.bridges PROVE FALSE
      <4>1. here \in D.bridges /\ there \in D.bridges
        BY <3>4
      <4>2. there \in DOMAIN tree
        BY <2>1, <2>2, <3>4, <4>1, DomainsReach
      <4>3. QED
        BY <2>6, <4>2
    <3>5. QED
      BY <2>1, <3>1, <3>3, <3>4
  <2>7. QED
    BY <2>5, <2>6
<1>2. QED
  BY <1>1, Zenon DEF TracesRight

\* What the analysis says of a stored document is so.
LEMMA AnalysesAreRight ==
    ASSUME IsDocument(doc), Validate(doc)
    PROVE  AnalysisRight
<1>1. Sound(doc) /\ LinksValid(doc)
  BY DEF Validate, Sound
<1>2. TreesRight(doc)
  <2>1. ASSUME NEW v \in doc.vlans
        PROVE  /\ DomainsRight(doc, v, Domains(doc, v)) /\ SparesTakeOver(doc, v, Domains(doc, v))
               /\ \A D \in Domains(doc, v) : TreeRight(doc, D)
    BY <1>1, DomainsAreRight, SparesDo, TreesAreRight
  <2>2. QED
    BY <2>1, Zenon DEF TreesRight
<1>3. TracesRight(doc) /\ WarningsRight(doc)
  BY TracesAreRight, WarningsAreRight
<1>4. QED
  BY <1>2, <1>3 DEF AnalysisRight

\* "Per-VLAN spanning-tree simulation with deterministic root election" and
\* "server-side detection of ... switching loops ... and forwarding paths".
THEOREM AnalysesRight == Spec => []AnalysisRight
<1>1. TypeOK => AnalysisRight
  BY AnalysesAreRight DEF TypeOK
<1>2. QED
  BY <1>1, DocumentTyped, PTL
=============================================================================
