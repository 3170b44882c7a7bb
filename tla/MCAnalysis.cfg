SPECIFICATION SuiteSpec
CONSTANTS
    NoEntry = NoEntry
    NoResult = NoResult
    NoJob = NoJob
    Content <- MCContent
    Req = {r1, r2}
    Worker = {w1, w2}
    Domain = {d1, d2}
    QueueCap = 1
    FirstRev = 1
    MaxFeed = 1
    MaxConfig = 1
    MayClose = FALSE
SYMMETRY Symmetry
INVARIANTS
    FeedNeverOlder
    InFlightExact
CHECK_DEADLOCK FALSE
