SPECIFICATION Spec
CONSTANTS
    Payments = {}
    Lapses = {l1}
    AdminCommands = {"STOP"}
    Concurrency = 2
    MaxAttempts = 2
    MaxCrashes = 0
INVARIANTS DuplicatesCollapsed
CHECK_DEADLOCK FALSE
