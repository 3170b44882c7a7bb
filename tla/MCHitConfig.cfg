SPECIFICATION WholeSpec
CONSTANTS
    NoEntry = NoEntry
    NoResult = NoResult
    NoJob = NoJob
    Content <- MCContent
    Req = {r1, r2, r3}
    Worker = {w1}
    Domain = {d1}
    QueueCap = 1
    FirstRev = 0
    MaxFeed = 0
    MaxConfig = 1
    MayClose = FALSE
SYMMETRY Symmetry
INVARIANTS
    HitConfigCurrent
CHECK_DEADLOCK FALSE
