\* The first map and two moves, or fewer and a mishap, with two edits.
SPECIFICATION Spec
CONSTANTS
    p = p  q = q  r = r
    Maps = {p, q, r}
    Existing = {p, q}
    None = None
    MaxEdits = 2
    MaxMoves = 2
    MaxMishaps = 1
    MaxActs = 4
SYMMETRY Alike
CHECK_DEADLOCK FALSE
INVARIANTS EditsKept FollowsShown
