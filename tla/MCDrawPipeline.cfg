SPECIFICATION FairSpec
CONSTANTS
    Places = {p1}
    Nowhere = Nowhere
    MaxWrites = 4
    MaxErrors = 1
    JobDepth = 2
    Depth = 2
INVARIANTS
    CommitsInOrder
    ReadsSeeLatest
    NobodySleepsInVain
    JobsEndWithSubmission
CHECK_DEADLOCK FALSE
PROPERTIES
    WorkerGoesOn
