CONSTANTS
    Accounts = {a1}
    Guest = guest
    Nobody = nobody
    MaxReplacements = 2
SPECIFICATION RuntimesSpec
INVARIANTS SignedOutSeesLogin
CHECK_DEADLOCK FALSE
