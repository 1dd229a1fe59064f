SPECIFICATION Spec
CONSTANTS
    Callers = {"payment"}
    Ticks = {t1}
    Retries = {r1}
    Reprovisions = {s1}
    Concurrency = 2
    MaxAttempts = 2
    MaxLost = 0
    MaxCrashes = 0
INVARIANTS CompletedMeansLive
CHECK_DEADLOCK FALSE
