CONSTANTS
    r1 = r1
    r2 = r2
    t1 = t1
    NoHash = NoHash
    Request = {r1, r2}
    NumGpuBlocks = 5
    SharedBlocks = 1
    BlockSize = 2
    MaxModelLen = 5
    AttnKind = "chunked"
    AttnSize = 4
    UseEagle = FALSE
    MaxNumBatchedTokens = 4
    WatermarkBlocks = 0
    MaxNew = 2
    MaxDraft = 1
    Lookahead = {0}
    Ticket = {t1}
    Evictable = {1}
    Hash <- MCHash
    BlockHash <- MCBlockHash
    PromptLen <- MCPromptLen
SPECIFICATION Spec
INVARIANTS
    TypeOK
    RefCntExact
    FreeQueueExact
    CacheMapExact
    BlocksMatchPrefix
    TailIsPrivate
    GateCoversAllocation
    WindowResident
    EventsReplayCache
