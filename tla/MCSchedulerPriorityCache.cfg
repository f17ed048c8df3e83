CONSTANTS
    r1 = r1
    r2 = r2
    r3 = r3
    NoHash = NoHash
    Request = {r1, r2}
    Alone = {}
    SharedBlocks = 0
    Prompt1 = 2
    Prompt2 = 7
    Prompt3 = 3
    Out1 = 2
    Out2 = 1
    Out3 = 2
    NumGpuBlocks = 9
    BlockSize = 1
    MaxModelLen = 9
    AttnKind = "full"
    AttnSize = 1
    UseEagle = FALSE
    MaxNumBatchedTokens = 4
    WatermarkBlocks = 0
    Policy = "priority"
    AsyncScheduling = FALSE
    BatchQueueSize = 1
    MaxNumRunning = 2
    NumSpecTokens = 0
    NumLookahead = 0
    ReserveFullISL = FALSE
    ChunkedPrefill = TRUE
    LongPrefill = 2
    DeferBlockFree = FALSE
    MayStop = FALSE
    Calls = {}
    Hash <- MCHash
    BlockHash <- MCBlockHash
    PromptLen <- MCPromptLen
    MaxTokens <- MCMaxTokens
    Rank <- MCRank
SPECIFICATION SafetySpec
INVARIANTS
    PrefixComputed
