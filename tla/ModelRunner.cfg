\* Three requests, two of which share a page; buckets 2 and 3, none for one
\* request, and one that is larger than any batch.
CONSTANTS
    BlockSize = 2
    r1 = r1
    r2 = r2
    r3 = r3
    Requests = {r1, r2, r3}
    Text <- MCText
    PromptLen <- MCPromptLen
    NumPages = 5
    MaxModelLen = 5
    MaxNumSeqs = 3
    MaxNumBatchedTokens = 4
    MaxBatches = 3
    BatchSizes = {2, 3, 8}
    Configs <- MCConfigs
    MaxEngines = 2
    NoRequest = NoRequest
SPECIFICATION Spec
INVARIANTS
    RunnerTypeOK
    MetadataAccepted
    ForwardIsReference
    SamplesReachTheirRequest
    QuietWhenIdle
    CountersAccountForBatches
    OneCaptureSession
CHECK_DEADLOCK FALSE
