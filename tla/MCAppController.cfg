CONSTANTS
    Issues = {i1}
    Edits = {e1}
    Remotes = {r1}
    Gone = gone
    Ops = {o1, o2}
    Tasks = {t1, t2}
    MaxEvents = 2
SPECIFICATION FairSpec
INVARIANTS OneSynchronization ClosedIsDrained NoPhantoms
PROPERTIES CloseReturns ListCatchesUp
CHECK_DEADLOCK FALSE
