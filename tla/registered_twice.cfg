SPECIFICATION Spec
CONSTANTS
    Callers = {"payment"}
    Ticks = {t1}
    Retries = {r1}
    Reprovisions = {s1}
    Concurrency = 1
    MaxAttempts = 2
    MaxLost = 1
    MaxCrashes = 0
INVARIANTS RegisteredOnce
CHECK_DEADLOCK FALSE
