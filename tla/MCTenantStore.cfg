CONSTANTS
    Accounts = {a1, a2}
    Callers = {t1, t2}
    Erasers = {t2}
    Reservations = {1, 2}
    MaxCachedStores = 1
    MaxTenant = 3
    MinFree = 1
    Disk = 5
SPECIFICATION FairSpec
INVARIANTS NoWorkDuringErasure StoresHaveDatabases ErasedStaysErased
    LimitsRespected
PROPERTIES EraseReturns
