CONSTANTS
    Workers = {w1, w2}
    Clients = {t1, t2}
    Tasks = {x1, x2, x3, x4}
    NoTask = none
    maxQueueSize_ = 1
SPECIFICATION FairSpec
PROPERTIES
    TaskRuns
    StopReleases
\* A stopped pool, or one whose tasks block all its workers, may do nothing more.
CHECK_DEADLOCK FALSE
