SPECIFICATION FairSpec
CONSTANTS
    Challenges = {c1, c2}
    Plans = {p1, p2, p3, p4}
    Admins = {a1, a2}
    Readers = {d1, d2}
    Top = 2
    MaxTime = 3
    MaxEdits = 3
    MaxFailures = 1
INVARIANT WindowIsCovered
PROPERTIES ExpiredAreFrozen AdminTransitionsStand OthersDeactivated
CHECK_DEADLOCK FALSE
