CONSTANTS
    l1 = l1
    l2 = l2
    Loops <- TwoLoops
    Ready = ready
    NoLoop = noLoop
    Clients = {c1, c2}
    Nobody = nobody
    MaxBytes = 2
    FdLimits = {2, 3}
SPECIFICATION Spec
INVARIANTS
    LiveHandlers
    DescriptorsHeld
    NothingLost
    RoundRobin
PROPERTIES
    ServerStarts
    ClientsServed
    ServerStops
\* The program stops when the server is gone or on undefined behaviour.
CHECK_DEADLOCK FALSE
