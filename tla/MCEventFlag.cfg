SPECIFICATION Spec
CONSTANTS
    Threads = {t1, t2, t3}
    Bits = {b1, b2}
    WaitModes <- Modes
    Creator = creator
    Opens = {o1}
    MaxCancels = 1
    NoThread = NoThread
    NoHandle = NoHandle
INVARIANTS
    NoMissedSet
    ListIsWaiters
    DeliveryMeetsCondition
    DeletedIsQuiet
PROPERTIES
    TimeoutKeepsDelivery
SYMMETRY Symmetry
CHECK_DEADLOCK FALSE
