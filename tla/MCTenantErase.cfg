CONSTANTS
    Accounts = {a1}
    Callers = {t1, t2, t3}
    Erasers = {t2, t3}
    Reservations = {1}
    MaxCachedStores = 1
    MaxTenant = 1
    MinFree = 1
    Disk = 2
SPECIFICATION Spec
INVARIANTS ErasedStaysErased
