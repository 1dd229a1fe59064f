SPECIFICATION Spec
CONSTANTS
    Payments = {p1}
    Lapses = {l1}
    AdminCommands = {}
    Concurrency = 1
    MaxAttempts = 1
    MaxCrashes = 1
INVARIANTS PayingUserAlwaysServed
CHECK_DEADLOCK FALSE
