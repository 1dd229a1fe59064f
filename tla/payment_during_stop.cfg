SPECIFICATION Spec
CONSTANTS
    Payments = {p1}
    Lapses = {l1}
    AdminCommands = {}
    Concurrency = 2
    MaxAttempts = 2
    MaxCrashes = 0
INVARIANTS PayingUserAlwaysServed
CHECK_DEADLOCK FALSE
