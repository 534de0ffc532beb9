CONSTANTS
    Installations = {me}
    Me = me
    RequestIds = {1}
    MaxActive = 1
    MaxAccess = 1
    MaxPairs = 2
    MaxSessions = 1
    MaxPassword = 0
    MaxRequests = 1
    MaxFaults = 0
    MaxLapses = 1
    MaxStray = 0
SPECIFICATION ConnectedSpec
CHECK_DEADLOCK FALSE
PROPERTIES RetryRecovers
