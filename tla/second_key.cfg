SPECIFICATION Spec
CONSTANTS
    Callers = {"payment"}
    Ticks = {t1}
    Retries = {r1}
    Reprovisions = {s1}
    Concurrency = 1
    MaxAttempts = 2
    MaxLost = 0
    MaxCrashes = 1
INVARIANTS OneKeyIssued
CHECK_DEADLOCK FALSE
