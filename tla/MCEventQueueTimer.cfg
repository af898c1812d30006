SPECIFICATION RepeatingSpec
CONSTANTS
    t1 = t1
    t2 = t2
    t3 = t3
    Threads = {t1, t2}
    Kind <- Repeating
    Sizes = {1}
    MaxPending = 1
    MaxTriggers = 0
INVARIANTS
    TimersAreWatched
CHECK_DEADLOCK FALSE
