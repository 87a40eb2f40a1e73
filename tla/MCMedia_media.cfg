\* Two requests at a time, on a map and copies of it.
SPECIFICATION MediaSpec
CONSTANTS
    m1 = m1  m2 = m2  a = a  b = b  c = c  r1 = r1  r2 = r2
    Maps = {m1, m2}
    Existing = {m1}
    Photos = {a, b, c}
    Requests = {r1, r2}
    MaxMishaps = 2
SYMMETRY Same
CHECK_DEADLOCK FALSE
INVARIANTS PhotosStored NothingStray
