SPECIFICATION Spec
CONSTANTS
    Orders = {o1}
    None = None
    Handlers = {h1}
    Period = 2
    Window = 1
    Grace = 1
    MaxTime = 4
    MaxFailures = 0
    MaxCrashes = 0
    Overlap = TRUE
INVARIANTS PaidDaysServed
SYMMETRY Symmetry
CHECK_DEADLOCK FALSE
