CONSTANTS
    Workers = {w1, w2}
    Clients = {t1, t2, t3}
    Tasks = {x1, x2, x3, x4, x5, x6}
    NoTask = none
    maxQueueSize_ = 2
SPECIFICATION Spec
SYMMETRY Symmetry
INVARIANTS
    TypeOK
    QueueBounded
    WorkersWoken
    CallersWoken
    StoppedWakesAll
PROPERTIES
    TasksFIFO
\* A stopped pool, or one whose tasks block all its workers, may do nothing more.
CHECK_DEADLOCK FALSE
