SPECIFICATION FairSpec
CONSTANTS
    Requests = {r1, r2, r3}
    Profiles = {r3}
    MaxLogins = 2
    MaxFailures = 1
INVARIANTS OneRefresh StoredIsShown
PROPERTIES ValidSessionKept CallsSettle
CHECK_DEADLOCK FALSE
