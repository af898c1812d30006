SPECIFICATION Spec
CONSTANTS
    Threads = {t1, t2, t3, t4}
    MaxReaders = 2
    PreferReaders = {TRUE, FALSE}
INVARIANTS
    WaitersGoOn
SYMMETRY Symmetry
