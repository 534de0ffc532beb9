CONSTANTS
    d1 = d1
    d2 = d2
    i1 = i1
    c1 = c1
    c2 = c2
    b1 = b1
    v0 = v0
    v1 = v1
    Devices <- MCDevices
    Issues <- MCIssues
    Copies <- MCCopies
    Barcodes = {}
    Values = {v0, v1}
    DefaultValue = v0
    PrimaryCopy <- MCPrimary
    SecondaryCopy <- MCSecondary
    Rank <- MCRank
    MutationIds <- MCMutationIds
    InternalIds = {}
    MaxChanges = 2
    PageLimit = 1
    BatchLimit = 2
    MaxUpload = 3
    CacheLimit = 0
    ComicInputs <- FewComics
    CopyInputs <- FewCopyEdits
    BarcodeInputs = {}
    MaxWrites = 2
    MaxLosses = 1
    MaxRebinds = 0
    MaxServerId = 1
SPECIFICATION FairSpec
PROPERTIES SharesOneHistory EventuallyConverged
