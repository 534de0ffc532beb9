CONSTANTS
    Installations = {me}
    Me = me
    RequestIds = {1, 2}
    MaxActive = 1
    MaxAccess = 1
    MaxPairs = 2
    MaxSessions = 1
    MaxPassword = 0
    MaxRequests = 2
    MaxFaults = 0
    MaxLapses = 0
    MaxStray = 0
    MaxUpdates = 1
SPECIFICATION SpecUpdates
CHECK_DEADLOCK FALSE
INVARIANTS HonestSessionKept
