SPECIFICATION Spec
CONSTANTS
    MaxSvrId = 1
    FirstSvrId <- FirstOne
    ProcName <- Producers
    InitialScore = 2
    Score <- OneScore
    RandomFactor = 2
    FAIL_COUNT_LIMIT = 1
    WindowFactor = 3
    UINT32 = 8
    Push = {p1}
    ChunksPerPush = 3
    MaxRegistrations = 3
CONSTRAINT FirstStays
PROPERTY DisconnectsTheFailing
