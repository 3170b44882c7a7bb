SPECIFICATION SuiteSpec
CONSTANTS
  t1 = t1
  t2 = t2
  Task = {t1, t2}
  Order <- MCOrder
  Enabled = {t1, t2}
  Interval <- MCInterval
  QueueSize = 1
  MaxTime = 2
  MaxTriggers = 1
  Request = {"r1", "r2"}
  Buffer = 1
  Channels = {"webhook", "chat"}
  PageSize = 2
  MaxPages = 1
  MinEvents = 1
  MaxEvents = 3
  MaxSeconds = 1
  MaxFaults = 2
INVARIANTS StopIsFinal AtLeastOnce StoreOutlivesUsers
PROPERTIES EngineProgress BacklogDrains ShutdownEnds
CHECK_DEADLOCK FALSE
