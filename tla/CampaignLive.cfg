SPECIFICATION FairSpec
CONSTANTS
    Rows = {r1}
    Requests = {q1}
    Jobs = {1, 2}
    Ops = {"send", "schedule", "pause", "resume", "cancel", "delete"}
    BatchSize = 1
    Slots = 2
    Attempts = 2
    MaxStalls = 1
    MaxCrashes = 2
    MaxFaults = 1
PROPERTY SendingEnds
CHECK_DEADLOCK FALSE
