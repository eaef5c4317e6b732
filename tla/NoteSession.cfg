SPECIFICATION NoteSpec
CONSTANTS
    Client = {a, b}
    Edit = {e1, e2}
    Stored = stored
    MaxReconnects = 1
    MaxEvents = 2
    a = a
    b = b
    e1 = e1
    e2 = e2
SYMMETRY Symmetric
CHECK_DEADLOCK FALSE
INVARIANTS
    Converged
    FilledOnce
    LeftIsCleared
    EverythingIsSaved
