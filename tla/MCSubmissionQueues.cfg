SPECIFICATION Spec
CONSTANTS
    q0 = q0
    q1 = q1
    a = a
    b = b
    Queues <- MCQueues
    Graphics = q0
    t1 = t1
    t2 = t2
    Titles <- MCTitles
    Labels <- MCLabels
    NoLabel = NoLabel
    Programs <- MCPrograms
    MaxSubmissions = 3
    Depth = 2
    MayFail = TRUE
    MayStop = TRUE
SYMMETRY MCSymmetry
INVARIANTS
    CompletedIsDone
    NoLostWakeup
    NoOrderDeadlock
PROPERTIES
    RunsInOrder
    FlipsInOrder
CHECK_DEADLOCK FALSE
