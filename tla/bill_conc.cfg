SPECIFICATION Spec
CONSTANTS
    Orders = {o1}
    None = None
    Handlers = {h1, h2}
    Period = 2
    Window = 1
    Grace = 1
    MaxTime = 2
    MaxFailures = 2
    MaxCrashes = 1
    Overlap = TRUE
INVARIANT ActivatedOnce
SYMMETRY Symmetry
CHECK_DEADLOCK FALSE
