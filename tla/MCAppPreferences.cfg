CONSTANTS
    Issues = {i1}
    Edits = {e1}
    Remotes = {r1}
    Gone = gone
    Ops = {o1, o2}
    Tasks = {t1, t2}
    MaxEvents = 2
SPECIFICATION Spec
INVARIANTS PreferencesAgree
CHECK_DEADLOCK FALSE
