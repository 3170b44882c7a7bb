SPECIFICATION SuiteSpec
CONSTANTS
    Label = {"com", "x", "a"}
    Name <- MCName
    PublicSuffix <- MCPublicSuffix
    Group = {"kids"}
    Setting <- MCSetting
    Result <- MCResult
    Content <- MCContent
    MaxChanges = 1
    MaxFaults = 1
    ClientKey = {"a", "b", "c", "d"}
    Burst = 2
    Unit = 2
    Rate = 1
    MaxKeys = 3
    IdleThreshold = 1
    MaxHits = 2
    LimiterTime = 3
    Width = 2
    MappedPrefix <- MCMappedPrefix
    Client <- MCClient
    Proxy <- MCProxy
    Loopback <- MCLoopback
    Network <- MCNetwork
    Legacy <- MCLegacy
    ClientGroup = {"g1", "g2"}
    MaxForged = 2
    MaxHops = 2
    MaxMappings = 2
    HostName = {"news", "other", "localhost"}
    Local = {"localhost"}
    Addr = {"public", "private"}
    NonRoutable = {"private"}
    Official = {"news"}
    InsecureHTTP = FALSE
    MaxRedirects = 3
    MaxFlips = 1
    Process = {"api", "resolver"}
    Writer = "api"
    Brand = {"b1", "b2"}
    Default = {"b1"}
    TTL = 1
    EntryTTL = 1
    MaxEdits = 1
    BrandFaults = 1
    BrandTime = 4
    Domain = {"d1", "d2"}
    Source = {"s1", "s2"}
    HostOf <- MCHostOf
    Configs <- MCConfigs
    MaxReports = 1
    MaxPublished = 0
    LookupFaults = 1
INVARIANTS
    TableSound
    ClientIdentified
    PolicySound
    OutboundConfined
    ListBounded
    ReportsSound
PROPERTIES
    RightKeysGo
CHECK_DEADLOCK FALSE
