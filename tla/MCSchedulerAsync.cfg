CONSTANTS
    r1 = r1
    r2 = r2
    r3 = r3
    NoHash = NoHash
    Request = {r1, r2, r3}
    Alone = {r2}
    SharedBlocks = 2
    Prompt1 = 4
    Prompt2 = 3
    Prompt3 = 5
    Out1 = 2
    Out2 = 3
    Out3 = 2
    NumGpuBlocks = 5
    BlockSize = 2
    MaxModelLen = 8
    AttnKind = "full"
    AttnSize = 1
    UseEagle = TRUE
    MaxNumBatchedTokens = 4
    WatermarkBlocks = 0
    Policy = "fcfs"
    AsyncScheduling = TRUE
    BatchQueueSize = 2
    MaxNumRunning = 2
    NumSpecTokens = 1
    NumLookahead = 1
    ReserveFullISL = FALSE
    ChunkedPrefill = TRUE
    LongPrefill = 0
    DeferBlockFree = TRUE
    MayStop = FALSE
    Calls = {"abort"}
    Hash <- MCHash
    BlockHash <- MCBlockHash
    PromptLen <- MCPromptLen
    MaxTokens <- MCMaxTokens
    Rank <- MCRank
SPECIFICATION Spec
INVARIANTS
    PlaceholdersExact
    ComputedAgrees
    OutputInOrder
    PrefixComputed
    CachedTokensKnown
    InFlightWritesHeld
PROPERTIES
    RequestsFinish
