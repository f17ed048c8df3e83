CONSTANTS
    q1 = q1
    q2 = q2
    Engines = {e0, e1}
    Rank0 = e0
    FrontEnds = {f}
    SyncEvery = 2
    Workloads <- MCWorkloads
SPECIFICATION FairSpec
INVARIANTS
    SameCollective
    PausedStaysIdle
    IdleIsKnown

    
CHECK_DEADLOCK FALSE
