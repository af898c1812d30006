SPECIFICATION PartsSpec
CONSTANTS
    Threads = {t1, t2, t3, t4}
    MaxReaders = 2
    PreferReaders = {TRUE, FALSE}
    Lockers = {t1, t2, t3}
    NoThread = NoThread
    TimedCalls = {"lock", "wait", "cv"}
    Words = {w1, w2}
    Values = {v1, v2}
    Counts = {0, 2}
    MaxCount = 2
INVARIANTS
    SleeperHasBit
    NoStrandedWaiter
    GrantedIsOwner
    MutexWaiterIsNotStranded
    CvWaiterIsReachable
    NoMissedWrite
    NoStrandedSleeper
SYMMETRY Symmetry
CHECK_DEADLOCK FALSE
