SPECIFICATION LiveSpec
CONSTANTS
    Proc = {p1, p2}
    MaxSvrId = 5
    FirstSvrId <- FirstOne
    MaxCalls <- TwoCalls
    MaxFaults = 2
INVARIANTS TypeOK HeartBeatHasId OneProcessPerId RegisteredIsKnown
PROPERTIES NotThrownOut Settles
