\* Two clients with an edit each, made on screen, by the server or past the queue
\* of writes; two edits, and an undo or a manual save, or the loss of a write,
\* a reading, a stream or a page.
SPECIFICATION Spec
CONSTANTS
    c1 = c1  c2 = c2
    e1 = e1  e2 = e2  e3 = e3
    Clients = {c1, c2}
    Edits = {e1, e2}
    Owner <- OwnersTwo
    NoEdit = NoEdit
    Ways = {"commit", "patch", "direct"}
    Clicks = {"undo", "save"}
    Losses = {"write", "read", "stream", "page"}
    HistoryLimit = 1
    MaxClicks = 1
    MaxLosses = 1
    MaxActs = 3
CHECK_DEADLOCK FALSE
INVARIANTS NoEditLost BaseKept CleanIsShared
PROPERTY WorkKept
