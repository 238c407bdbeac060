SPECIFICATION AllSpec
CONSTANTS
    NoPod = NoPod
    Pod = {p1, p2}
    Name = {n1}
    MaxOps = 2
    MaxTokens = 3
    MaxHiccups = 1
    MaxLapses = 2
    Loop = {"digest", "reaper", "runner"}
    MaxLoops = 2
    MaxOutages = 1
    Caller = {"c1", "c2", "c3"}
    Limit = 2
    MaxDrops = 2
    MaxLimiterFaults = 1
    Ships <- Rolling
    Bare = {2}
    Statements = 2
    Retries = 2
    MaxFailures = 2
    BatchSize = 1
    MaxPublished = 2
    MaxFaults = 1
INVARIANTS
    LoopsHold
    SharedStateHolds
PROPERTIES
    PeerLockUntouched
    ProcessesRecover
CHECK_DEADLOCK FALSE
