\* Two edits of a map of switches or of panels, with an undo or a backup.
SPECIFICATION Spec
CONSTANTS
    m = m  k = k  x = x
    a = a  b = b  c = c
    a1 = a1  a2 = a2  a3 = a3  b1 = b1  b2 = b2  b3 = b3  c1 = c1  c2 = c2  c3 = c3
    l1 = l1  l2 = l2  l3 = l3  l4 = l4
    g = g  s = s
    n1 = n1  n2 = n2  n3 = n3  n4 = n4
    switch = switch  panel = panel  server = server
    Rooms = {m}
    Racks = {k}
    Devices = {a, b, c}
    Ports = {a1, a2, a3, b1, b2, b3, c1, c2, c3}
    Links = {l1, l2, l3, l4}
    Groups = {g}
    Teams = {s}
    Annotations = {x}
    Notes = {n1, n2, n3, n4}
    Kinds = {switch, panel, server}
    TeamKinds = {switch}
    Panel = panel
    Physical = {c1}
    Vlans = {1, 2}
    MaxHeight = 2
    Whole = Whole
    None = None
    Starts <- Documents
    RackInputs <- RackBodies
    DeviceInputs <- DeviceBodies
    PortSets <- PortBodies
    SettingInputs <- SettingBodies
    LinkInputs <- LinkBodies
    Batches <- LinkBatches
    GroupInputs <- GroupBodies
    TeamInputs <- TeamBodies
    NoteInputs <- NoteBodies
    MaxEdits = 2
    Switch = switch
    Server = server
    Rank <- Ranks
    Priorities <- StpPriorities
CHECK_DEADLOCK FALSE
INVARIANTS NeverRefused AnalysisRight
PROPERTIES OnlyDependentsGo GoneForGood
