SPECIFICATION Spec
CONSTANTS
    Orders = {o1, o2}
    None = None
    Handlers = {h1, h2}
    Period = 2
    Window = 1
    Grace = 1
    MaxTime = 2
    MaxFailures = 0
    MaxCrashes = 0
    Overlap = TRUE
PROPERTIES PaymentExtends
SYMMETRY Symmetry
CHECK_DEADLOCK FALSE
