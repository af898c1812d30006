SPECIFICATION Spec
CONSTANTS
    Threads = {t1, t2, t3}
    NoThread = NoThread
    Slots = {s1}
    Locks = {l1, l2}
    Null = Null
    Destroyed = Destroyed
    MaxReads = 2
    DestroyHeld = TRUE
PROPERTIES
    WaitingWriterHoldsBackNewReaders
SYMMETRY Symmetry
CHECK_DEADLOCK FALSE
