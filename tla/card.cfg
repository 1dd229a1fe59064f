SPECIFICATION Spec
CONSTANTS
    Forms = {broker, prop}
    Period = 1
    Grace = 1
    MaxTime = 2
    MaxEvents = 3
    MaxFailures = 1
    MaxExtra = 1
INVARIANTS AnsweredIsDone AgreesWithStripe CancelAgrees ActiveIsSubscribed OnboardingEnds
SYMMETRY Symmetry
CHECK_DEADLOCK FALSE
