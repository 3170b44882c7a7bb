SPECIFICATION WholeSpec
CONSTANTS
    NoEntry = NoEntry
    NoResult = NoResult
    NoJob = NoJob
    Content <- MCContent
    Req = {r1, r2}
    Worker = {w1}
    Domain = {d1}
    QueueCap = 1
    FirstRev = 0
    MaxFeed = 0
    MaxConfig = 0
    MayClose = FALSE
SYMMETRY Symmetry
PROPERTIES
    NewerEvaluationKept
CHECK_DEADLOCK FALSE
