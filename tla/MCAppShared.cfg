CONSTANTS
    Accounts = {a1, a2}
    Guest = guest
    Nobody = nobody
    MaxReplacements = 3
SPECIFICATION RuntimesSpec
INVARIANTS ShownIsOpen
CHECK_DEADLOCK FALSE
