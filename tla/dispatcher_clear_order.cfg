CONSTANTS
    Loop = loop
    NullPtr = null
    Posters = {t1}
    Callbacks = {c1}
    Objects = {o1}
    Fds = {f1}
    RunMode = "RunUntilExit"
    MaxRuns = 1
    MaxExits = 1
SPECIFICATION Spec
PROPERTIES
    DeferredClearedBeforePosts
\* A loop with nothing to do sleeps in the poll for ever.
CHECK_DEADLOCK FALSE
