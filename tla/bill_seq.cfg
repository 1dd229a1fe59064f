SPECIFICATION Spec
CONSTANTS
    Orders = {o1, o2}
    None = None
    Handlers = {h1}
    Period = 3
    Window = 2
    Grace = 1
    MaxTime = 6
    MaxFailures = 0
    MaxCrashes = 0
    Overlap = FALSE
INVARIANTS PaymentIsHonoured PaidDaysServed
PROPERTIES PaymentExtends RenewalOffered
SYMMETRY Symmetry
CHECK_DEADLOCK FALSE
