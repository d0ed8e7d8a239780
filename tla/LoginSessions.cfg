SPECIFICATION Spec
CONSTANTS
    Workers = {w1, w2}
    Ids = {i1, i2}
    NoId = NoId
    Ops = {"login", "logout", "terminate", "logoutAll", "request", "list"}
    MaxSessions = 1
    MaxLosses = 1
SYMMETRY Symmetry
INVARIANTS TypeOK IndexComplete SessionsBounded SweepComplete
PROPERTY RegisterSpec
CHECK_DEADLOCK FALSE
