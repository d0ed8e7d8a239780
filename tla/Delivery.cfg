SPECIFICATION FairSpec
CONSTANTS
    Channels = {inApp, email, sms}
    InApp = inApp
    Sms = sms
    Preferences = {{}, {inApp, email}, {sms}}
    Jobs = {1, 2}
    Request = 0
    Slots = 4
    Attempts = 3
    MaxStalls = 1
    MaxCrashes = 2
    MaxFaults = 1
INVARIANTS TypeOK SendsBounded RowsSettle ColumnTruthful NoneAfterDelete
PROPERTIES Attempted OutboxSpec
CHECK_DEADLOCK FALSE
