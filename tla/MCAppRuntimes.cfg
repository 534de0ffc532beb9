CONSTANTS
    Accounts = {a1, a2}
    Guest = guest
    Nobody = nobody
    MaxReplacements = 6
SPECIFICATION FairRuntimesSpec
INVARIANTS OthersAreNotShown NothingLeftOpen
PROPERTIES SignedInSeesCollection
CHECK_DEADLOCK FALSE
