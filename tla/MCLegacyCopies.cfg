CONSTANTS
    d1 = d1
    i1 = i1
    c1 = c1
    c2 = c2
    c3 = c3
    b1 = b1
    v0 = v0
    v1 = v1
    v2 = v2
    Devices <- MCDevices
    Issues <- MCIssues
    Copies <- MCCopies
    Barcodes = {b1}
    Values = {v0, v1, v2}
    DefaultValue = v0
    PrimaryCopy <- MCPrimary
    SecondaryCopy <- MCSecondary
    Rank <- MCRank
    MutationIds <- MCMutationIds
    InternalIds = {}
    MaxChanges = 4
    PageLimit = 1
    BatchLimit = 10
    MaxUpload = 10
    CacheLimit = 0
    ComicInputs <- MCInputs
    CopyInputs <- MCFirst
    BarcodeInputs = {i1}
    MaxWrites = 1
    MaxLosses = 1
    MaxRebinds = 1
    MaxTroubles = 1
    MaxServerId = 1
    OldComics <- MCOld
    SharedComic <- MCBoth
    ElsewhereComics <- MCElsewhere
    MaxElsewhere = 0
    MaxClock = 3
SPECIFICATION LegacySpec
INVARIANT NoEditIsLost
