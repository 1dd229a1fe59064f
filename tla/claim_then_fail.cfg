SPECIFICATION Spec
CONSTANTS
    Orders = {o1}
    None = None
    Handlers = {h1}
    Period = 2
    Window = 1
    Grace = 1
    MaxTime = 2
    MaxFailures = 1
    MaxCrashes = 0
    Overlap = FALSE
INVARIANTS PaymentIsHonoured
SYMMETRY Symmetry
CHECK_DEADLOCK FALSE
