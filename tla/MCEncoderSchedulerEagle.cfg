CONSTANTS
    r1 = r1
    r2 = r2
    r3 = r3
    A = A
    B = B
    C = C
    Requests = {r1, r2, r3}
    CacheSize = 3
    EncoderBudget = 2
    MaxNumBatchedTokens = 1
    KVTokens = 8
    BatchQueueSize = 2
    AsyncScheduling = TRUE
    Policy = "fcfs"
    UseEagle = TRUE
    DisableChunkedMMInput = {FALSE}
    MaxResets = 1
    CanAbort = {r1}
    Length <- MCLength
    Embeds <- MCEmbeds
    Features <- MCFeatures
    NumTokens <- MCNumTokens
    Priority <- MCPriority
SPECIFICATION Spec
INVARIANTS
    EmbeddingsPresent
CHECK_DEADLOCK FALSE
