CONSTANTS
    r1 = r1
    r2 = r2
    r3 = r3
    NoHash = NoHash
    Request = {r1, r2, r3}
    Alone = {r2}
    SharedBlocks = 1
    Prompt1 = 4
    Prompt2 = 3
    Prompt3 = 3
    Out1 = 2
    Out2 = 2
    Out3 = 2
    NumGpuBlocks = 5
    BlockSize = 2
    MaxModelLen = 8
    AttnKind = "full"
    AttnSize = 1
    UseEagle = FALSE
    MaxNumBatchedTokens = 5
    WatermarkBlocks = 0
    Policy = "priority"
    AsyncScheduling = FALSE
    BatchQueueSize = 1
    MaxNumRunning = 2
    NumSpecTokens = 1
    NumLookahead = 0
    ReserveFullISL = FALSE
    ChunkedPrefill = TRUE
    LongPrefill = 2
    DeferBlockFree = FALSE
    MayStop = TRUE
    Calls = {"abort"}
    Hash <- MCHash
    BlockHash <- MCBlockHash
    PromptLen <- MCPromptLen
    MaxTokens <- MCMaxTokens
    Rank <- MCRank
SPECIFICATION Spec
INVARIANTS
    QueuesMatchStatus
    StepConstraints
    CascadePrefixShared
    NoOrphanBlocks
    
PROPERTIES
    RequestsFinish
