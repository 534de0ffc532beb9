CONSTANTS
    Accounts = {a1, a2}
    Guest = guest
    Nobody = nobody
    MaxReplacements = 4
SPECIFICATION RuntimesSpec
INVARIANTS SignedOutSeesNone
CHECK_DEADLOCK FALSE
