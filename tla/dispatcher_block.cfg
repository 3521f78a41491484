CONSTANTS
    Loop = loop
    NullPtr = null
    Posters = {t1, t2}
    Callbacks = {c1, c2}
    Objects = {o1, o2}
    Fds = {}
    RunMode = "Block"
    MaxRuns = 2
    MaxExits = 1
SPECIFICATION FairSpec
PROPERTIES
    BlockReturnsDrained
    BlockTerminates
\* A loop with nothing to do sleeps in the poll for ever.
CHECK_DEADLOCK FALSE
