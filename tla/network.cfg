SPECIFICATION FairSpec
CONSTANTS
    u1 = u1
    u2 = u2
    old = old
    new = new
    None = None
    Users = {u1, u2, u3}
    Movers = {m1}
    Trees <- AllLinks
    Payments = {p1}
    PayerOf <- U1Pays
    Plans = {old, new}
    MinDirects <- TwoLevels
    Freezers = {f1}
    MaxUplineWalk = 5
    MaxChanges = 1
INVARIANT CompressesToNearest
PROPERTIES NoNewCycle RunEnds
CHECK_DEADLOCK FALSE
