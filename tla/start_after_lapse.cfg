SPECIFICATION Spec
CONSTANTS
    Payments = {p1}
    Lapses = {l1, l2}
    AdminCommands = {}
    Concurrency = 1
    MaxAttempts = 2
    MaxCrashes = 0
INVARIANTS LapsedUserAlwaysStopped
CHECK_DEADLOCK FALSE
