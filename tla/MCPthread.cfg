SPECIFICATION PartsSpec
CONSTANTS
    Threads = {x1, x2, x3}
    NoThread = NoThread
    Recursive = TRUE
    MaxCount = 2
    MaxTokens = 1
    MaxCancels = 2
    Callers = {c1, c2}
    Records = {x1, x2, x3}
    Storages = {s1}
    Stacks = {k1, k2}
    None = None
    Parkers = {c1, c2}
    Interrupted = {c1, c2}
    Mutexes = {m1, m2}
INVARIANTS
    NoStrandedToken
    CanceledIsWoken
    CancelerIsFreed
    RecordsAreCounted
    JoinerIsWoken
    StacksAreNotShared
    WakeIsOnItsWay
SYMMETRY Symmetry
CHECK_DEADLOCK FALSE
