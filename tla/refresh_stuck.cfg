SPECIFICATION FairSpec
CONSTANTS
    Requests = {r1, r2}
    Profiles = {}
    MaxLogins = 2
    MaxFailures = 0
PROPERTIES ExpiredTokenIsRefreshed
CHECK_DEADLOCK FALSE
