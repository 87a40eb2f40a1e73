\* Two drags while another session moves and deletes, and calls are lost.
SPECIFICATION FairSpec
CONSTANTS
    da = da  db = db
    Devices = {da, db}
    u = u  a = a
    Units = {u}
    Points = {a}
    Over = Over
    Beyond = Beyond
    Gone = Gone
    MaxDrags = 2
    MaxOthers = 1
    MaxMishaps = 2
CHECK_DEADLOCK FALSE
INVARIANT ShownIsTrue
PROPERTIES StoredAsSeen DropsEnd
