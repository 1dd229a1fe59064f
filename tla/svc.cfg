SPECIFICATION FairSpec
CONSTANTS
    Payments = {p1}
    Lapses = {l1}
    AdminCommands = {"DELETE"}
    Concurrency = 2
    MaxAttempts = 2
    MaxCrashes = 1
INVARIANTS PayingUserServed LapsedUserStopped
PROPERTIES DeleteIsFinal CommandsSettle
CHECK_DEADLOCK FALSE
