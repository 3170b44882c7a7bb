SPECIFICATION SuiteSpec
CONSTANTS
  core = core
  rec = rec
  sub = sub
  admin = admin
  imp = imp
  a = a
  b = b
  s = s
  k0 = k0
  k1 = k1
  none = none
  Node = {core}
  Proc = {rec, sub, admin, imp}
  NodeOf <- MCNodeOf
  RoleOf <- MCRoleOf
  Lists <- MCLists
  Domain = {a, b, s}
  Safe = {a, b}
  Floors = {0, 1}
  MinPercent = 60
  MaxSnapshots = 2
  MaxRevision = 2
  MaxImports = 2
  MaxFaults = 1
  Name <- MCName
  PublicSuffix <- MCPublicSuffix
  SourceId = {"s1"}
  Category = {"ads"}
  Id = {"e1", "e2"}
  MaxEntries = 2
  RuleSources <- MCRuleSources
  Sections = {"tracking"}
  MatchMode = "suffix"
  MaxLines = 3
INVARIANTS RevisionTellsSet RulesDecide LiftsExactly
PROPERTIES PopulatedStays Converges FollowsStore MarksHeal
CHECK_DEADLOCK FALSE
