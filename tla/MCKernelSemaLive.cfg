SPECIFICATION FairSpec
CONSTANTS
    Threads = {t1, t2, t3}
    MaxCount = 1
    Priorities = {0}
    MaxCancels = 1
    NoThread = NoThread
PROPERTIES
    WaitEnds
    DeleteEnds
CHECK_DEADLOCK FALSE
