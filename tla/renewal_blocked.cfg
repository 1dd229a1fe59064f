SPECIFICATION Spec
CONSTANTS
    Orders = {o1, o2}
    None = None
    Handlers = {h1}
    Period = 3
    Window = 2
    Grace = 1
    MaxTime = 4
    MaxFailures = 1
    MaxCrashes = 0
    Overlap = FALSE
PROPERTIES RenewalOffered
SYMMETRY Symmetry
CHECK_DEADLOCK FALSE
