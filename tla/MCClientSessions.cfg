CONSTANTS
    Installations = {me, other}
    Me = me
    RequestIds = {1, 2}
    MaxActive = 1
    MaxAccess = 1
    MaxPairs = 3
    MaxSessions = 2
    MaxPassword = 1
    MaxRequests = 2
    MaxFaults = 1
    MaxLapses = 1
    MaxStray = 1
SPECIFICATION FairSpec
CHECK_DEADLOCK FALSE
INVARIANTS RotationIsAChain LiveSessionsAreProved SessionLimits
    HonestSessionKept LeftForGood
PROPERTIES LogoutReturns
