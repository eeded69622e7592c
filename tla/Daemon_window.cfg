SPECIFICATION LiveSpec
CONSTANTS
    MaxSvrId = 2
    FirstSvrId <- FirstTwo
    ProcName <- Mixed
    InitialScore = 1
    Score <- OtherScore
    RandomFactor = 4
    FAIL_COUNT_LIMIT = 0
    WindowFactor = 1
    UINT32 = 8
    Push = {p1}
    ChunksPerPush = 3
    MaxRegistrations = 2
CHECK_DEADLOCK FALSE
INVARIANTS Backpressure TaskCountExact IdleExact
PROPERTIES BeginPushReturns TriedUntilDone
