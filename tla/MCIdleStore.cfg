SPECIFICATION Spec
CONSTANTS
    Graphics = q0
    Others = {q1}
    MaxSubmissions = 2
INVARIANT ResultsAreStored
CHECK_DEADLOCK FALSE
