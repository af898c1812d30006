SPECIFICATION QueuesSpec
CONSTANTS
    t1 = t1
    t2 = t2
    t3 = t3
    Threads = {t1, t2, t3}
    Kind <- Signals
    Sizes = {1, 2}
    MaxPending = 1
    MaxTriggers = 3
    Watchers = {k1, k2}
    Nobody = Nobody
    Notes = {n1}
    ClearedNotes = {n1}
    MaxActivations = 2
    NoThread = NoThread
    Slots = {s1, s2}
    Locks = {l1, l2}
    Null = Null
    Destroyed = Destroyed
    MaxReads = 1
    DestroyHeld = FALSE
SYMMETRY Symmetries
INVARIANTS
    NoStrandedWaiter
    NoCompletionIsLost
    NoMissedActivation
    RwlockExcludes
    NoMissedNotify
CHECK_DEADLOCK FALSE
