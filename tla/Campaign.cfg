SPECIFICATION Spec
CONSTANTS
    Rows = {r1, r2}
    Requests = {q1, q2}
    Jobs = {1, 2}
    Ops = {"send", "pause", "resume"}
    BatchSize = 1
    Slots = 2
    Attempts = 2
    MaxStalls = 1
    MaxCrashes = 1
    MaxFaults = 0
SYMMETRY Symmetry
INVARIANTS TypeOK MailsBounded SentComplete SendingHasJob StopsWithinBatch
PROPERTY MailingSpec
CHECK_DEADLOCK FALSE
