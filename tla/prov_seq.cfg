SPECIFICATION Spec
CONSTANTS
    Callers = {"payment", "onboarding"}
    Ticks = {t1, t2}
    Retries = {r1, r2}
    Reprovisions = {s1, s2}
    Concurrency = 1
    MaxAttempts = 2
    MaxLost = 0
    MaxCrashes = 1
INVARIANTS CompletedMeansLive TriggeredInEitherOrder ResumesWithItsInputs
SYMMETRY Symmetry
CHECK_DEADLOCK FALSE
