SPECIFICATION Spec
CONSTANTS
    Workers = {w1, w2}
    Users = {host, u1, u2}
    Host = host
    Capacities = {1, 2}
    MaxRequests = 4
    MaxLosses = 1
SYMMETRY Symmetry
INVARIANTS TypeOK CountTruthful CapacityHeld EndIsSeen LiveHasRoom
CHECK_DEADLOCK FALSE
