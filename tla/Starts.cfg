SPECIFICATION Spec
CONSTANTS
    Workers = {w1, w2, w3}
    Ids = {i1, i2, i3, i4, i5}
    NoId = NoId
    Questions = {q1}
    Ops <- StartOps
    MaxAttempts = 2
    MaxViolations = 1
    TimeLimit = 1
    AllowPause = FALSE
    RequireAllAnswers = FALSE
    AutomaticGrading = FALSE
    SerialClient = FALSE
    CacheFaults = TRUE
    MaxNow = 0
    MaxCrashes = 1
SYMMETRY Symmetry
INVARIANTS AttemptsBounded NumbersBounded ActiveBounded
CHECK_DEADLOCK FALSE
