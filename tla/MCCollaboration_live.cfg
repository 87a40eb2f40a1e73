\* Fair scheduling; three acts in all: edits of two clients, what they undo and
\* redo, and one write, reading or page that is lost.
SPECIFICATION FairSpec
CONSTANTS
    c1 = c1  c2 = c2
    e1 = e1  e2 = e2  e3 = e3
    Clients = {c1, c2}
    Edits = {e1, e2}
    Owner <- OwnersTwo
    NoEdit = NoEdit
    Ways = {"commit"}
    Clicks = {"undo", "redo"}
    Losses = {"write", "read", "page"}
    HistoryLimit = 1
    MaxClicks = 2
    MaxLosses = 1
    MaxActs = 3
CHECK_DEADLOCK FALSE
INVARIANT CurrentAtRest
PROPERTY Converges
