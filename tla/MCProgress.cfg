SPECIFICATION SuiteSpec
CONSTANTS
    r1 = r1
    r2 = r2
    w1 = w1
    absent = absent
    NoEntry = NoEntry
    NoResult = NoResult
    NoJob = NoJob
    Sources <- MCSources
    Mode = {"suffix", "exact"}
    Policy = {"p0"}
    Defaults <- MCDefaults
    MaxVersion = 2
    MaxChanges = 0
    MaxFaults = 2
PROPERTIES
    ListsKept
    ListsCurrent
    WarningEnforced
    WorkEnds
CHECK_DEADLOCK FALSE
