CONSTANTS
    LastIssue = 2
    Base <- MCBase
    Names = {"Marko"}
    Series = {s1}
    Editions <- MCEditions
    Pool <- MCPool
    Releases = {r1}
    GradeChips = {4, 5}
    BatchStart <- MCBatchStart
    MaxShown = 2
    BatchNumbers = {1, 2, 3}
    MaxPatches = 2
    MaxScans = 3
    Positions = {p1, p2}
    Items = {x1}
    Members = {m1}
    FirstPosition = p1
    MaxDelivery = 2
SPECIFICATION PrototypeSpec
INVARIANTS ShownIssueIsCurrent DoneIsOwned BackLeadsOut
