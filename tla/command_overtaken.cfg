SPECIFICATION Spec
CONSTANTS
    Payments = {p1}
    Lapses = {l1}
    AdminCommands = {"DELETE"}
    Concurrency = 1
    MaxAttempts = 2
    MaxCrashes = 0
PROPERTIES InOrder
CHECK_DEADLOCK FALSE
