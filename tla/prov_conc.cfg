SPECIFICATION FairSpec
CONSTANTS
    Callers = {"payment"}
    Ticks = {t1, t2}
    Retries = {r1}
    Reprovisions = {s1}
    Concurrency = 2
    MaxAttempts = 2
    MaxLost = 0
    MaxCrashes = 1
INVARIANTS OneLiveHedge RegisteredOnce
PROPERTIES StoredKeyKept Settles
CHECK_DEADLOCK FALSE
