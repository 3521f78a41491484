CONSTANTS
    l1 = l1
    l2 = l2
    Loops <- TwoLoops
    Ready = ready
    NoLoop = noLoop
    Clients = {c1, c2}
    Nobody = nobody
    MaxBytes = 1
    FdLimits = {3}
SPECIFICATION Spec
INVARIANTS
    RemoveThreadSafe
\* The program stops when the server is gone or on undefined behaviour.
CHECK_DEADLOCK FALSE
