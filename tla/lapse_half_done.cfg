SPECIFICATION Spec
CONSTANTS
    Orders = {o1}
    None = None
    Handlers = {h1}
    Period = 1
    Window = 1
    Grace = 1
    MaxTime = 6
    MaxFailures = 0
    MaxCrashes = 1
    Overlap = FALSE
INVARIANTS UnpaidIsInactive
SYMMETRY Symmetry
CHECK_DEADLOCK FALSE
