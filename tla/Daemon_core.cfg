SPECIFICATION Spec
CONSTANTS
    MaxSvrId = 2
    FirstSvrId <- FirstTwo
    ProcName <- Producers
    InitialScore = 2
    Score <- OneScore
    RandomFactor = 2
    FAIL_COUNT_LIMIT = 1
    WindowFactor = 3
    UINT32 = 8
    Push = {p1, p2}
    ChunksPerPush = 2
    MaxRegistrations = 3
SYMMETRY PushSymmetry
INVARIANTS TypeOK SendingCountExact TaskCountExact IdleExact TablesAgree NoCrash
PROPERTIES DispatchToRegistered BreakerHasCause ImplementsDelivery
