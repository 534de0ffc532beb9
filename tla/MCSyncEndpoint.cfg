CONSTANTS
    i1 = i1
    i2 = i2
    c1 = c1
    c2 = c2
    v0 = v0
    v1 = v1
    Issues <- MCIssues
    Copies <- MCCopies
    Barcodes = {}
    Values <- MCValues
    DefaultValue = v0
    MutationIds <- MCMutationIds
    InternalIds <- MCInternalIds
    PageLimit = 2
    CacheLimit = 2
    Requests <- MCRequests
    LegacyGroups <- MCLegacyGroups
    MaxServerId = 2
SPECIFICATION Spec
INVARIANTS RecordedOnce ReceiptsMatchLog EntitiesReplayLog
    SurvivorKeepsUserFields AnswerIsHistory
    DerivedFlagsAgree
PROPERTIES HistoryIsAppendOnly ObservedRemove
