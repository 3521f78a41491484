CONSTANTS
    Loop = loop
    NullPtr = null
    Posters = {t1, t2}
    Callbacks = {c1, c2, c3}
    Objects = {o1, o2, o3}
    Fds = {f1}
    RunMode = "RunUntilExit"
    MaxRuns = 2
    MaxExits = 2
SPECIFICATION Spec
SYMMETRY Symmetry
INVARIANTS
    TypeOK
    PostArmed
    DeleteArmed
    ClearedVectorFrozen
    ClearDiscipline
    ReturnsPaidByExits
PROPERTIES
    PostsFIFO
    DeletesFIFO
\* A loop with nothing to do sleeps in the poll for ever.
CHECK_DEADLOCK FALSE
