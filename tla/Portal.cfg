SPECIFICATION FairSpec
CONSTANTS
    Routes <- MCRoutes
    MaxRenders = 2
    MaxCalls = 2
    MaxLogins = 2
    Admins = {1}
    MaxActs = 3
INVARIANTS OneLiveView ExpiresOnlyOffline LoggedOutSeesLogin
PROPERTY RejectedReachesLogin
CHECK_DEADLOCK FALSE
