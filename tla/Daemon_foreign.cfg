SPECIFICATION Spec
CONSTANTS
    MaxSvrId = 2
    FirstSvrId <- FirstTwo
    ProcName <- Mixed
    InitialScore = 1
    Score <- OtherScore
    RandomFactor = 4
    FAIL_COUNT_LIMIT = 0
    WindowFactor = 3
    UINT32 = 8
    Push = {p1}
    ChunksPerPush = 2
    MaxRegistrations = 3
CHECK_DEADLOCK FALSE
INVARIANT DrawsProducers
