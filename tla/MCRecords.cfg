SPECIFICATION SuiteSpec
CONSTANTS
  daemon = daemon
  cli = cli
  s1 = s1
  s2 = s2
  a = a
  c = c
  p = p
  Writer = {daemon, cli}
  Source = {s1, s2}
  Cycle <- MCCycle
  Domain = {a, c, p}
  Listings <- MCListings
  Refused = {p}
  ChurnProne = {c}
  TTL = 3
  ChurnTTLs = {0, 1, 2}
  Interval = 1
  CheckedInterval = 1
  StaleAfter = 1
  BatchSize = 1
  MinWrites = 1
  MaxTime = 2
  MaxRevision = 1
  MaxFaults = 1
  Host = {"h", "i"}
  Address = {"i"}
  Resource = {"r", "q"}
  Limits = {0, 1}
  MaxBad = 1
  MaxLines = 3
  NameCount = 3
  Lookback = 1
  MinOccurrences = 1
  MaxPerCycle = 2
  Reviewed = {"d", "sub.d"}
  Walk <- MCWalk
  Registrable = {"d", "sub.d"}
  ProposalTTL = 1
  Retention = 0
  Flagged = {"sub.d"}
  MaxProposals = 2
  MaxReports = 1
  Event = {"e1", "e2", "e3"}
  Persisted = {"e1", "e2"}
  Caller = {"c1", "c2"}
  Capacity = 2
  MaxRows = 1
  LabelRetention = 0
  MaxKey = 2
  LabelTime = 1
  Session = {"s1", "s2"}
  SessionTTL = 1
  KeepRows = 1
  SessionTime = 2
INVARIANTS
  ListedProtected
  PlanMatchesEvidence
  PassedWasAudited
PROPERTIES
  LiveFeedSurvives
  DecisionsStand
  FeedbackKept
  LogoutIsFinal
CHECK_DEADLOCK FALSE
