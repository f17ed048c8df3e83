CONSTANTS
    r1 = r1
    r2 = r2
    r3 = r3
    NoHash = NoHash
    Request = {r1, r2}
    Alone = {}
    SharedBlocks = 1
    Prompt1 = 4
    Prompt2 = 3
    Prompt3 = 3
    Out1 = 2
    Out2 = 3
    Out3 = 2
    NumGpuBlocks = 6
    BlockSize = 2
    MaxModelLen = 8
    AttnKind = "sliding"
    AttnSize = 3
    UseEagle = FALSE
    MaxNumBatchedTokens = 4
    WatermarkBlocks = 1
    Policy = "fcfs"
    AsyncScheduling = TRUE
    BatchQueueSize = 2
    MaxNumRunning = 2
    NumSpecTokens = 0
    NumLookahead = 0
    ReserveFullISL = TRUE
    ChunkedPrefill = FALSE
    LongPrefill = 0
    DeferBlockFree = FALSE
    MayStop = FALSE
    Calls = {"reset", "force_reset", "pause"}
    Hash <- MCHash
    BlockHash <- MCBlockHash
    PromptLen <- MCPromptLen
    MaxTokens <- MCMaxTokens
    Rank <- MCRank
SPECIFICATION SafetySpec
INVARIANTS
    OutputInOrder
    PrefixComputed
    ForcedResetSucceeds
