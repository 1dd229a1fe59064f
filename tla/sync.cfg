SPECIFICATION SyncSpec
CONSTANTS
    Props = {p1, p2, p3}
    Brokers = {b1, b2, b3}
    FirstProp = p1
    FirstBroker = b1
    Nobody = Nobody
    Clients = {k1, k2}
    MaxRequests = 3
    MaxTries = 2
    MaxFailures = 1
INVARIANTS HedgeIsRegistered HedgeIsCurrent
SYMMETRY Symmetry
CHECK_DEADLOCK FALSE
