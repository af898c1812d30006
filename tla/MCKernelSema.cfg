SPECIFICATION Spec
CONSTANTS
    Threads = {t1, t2, t3}
    MaxCount = 2
    Priorities = {0, 1}
    MaxCancels = 1
    NoThread = NoThread
INVARIANTS
    NoServableWaiter
    QueueIsBlockedThreads
    FreedIsQuiet
PROPERTIES
    ImplementsTokenPool
SYMMETRY Symmetry
CHECK_DEADLOCK FALSE
