SPECIFICATION MCSpec
CONSTANTS
    p1 = p1
    p2 = p2
    a1 = a1
    a2 = a2
    a3 = a3
    None = None
    Products <- MCProducts
    Advisories = {a1, a2, a3}
    About <- MCAbout
    Matching = {a1, a3}
    Exploited = {a1}
    Handlers = {h1}
    Threads = {"t1", "t2"}
    MaxClock = 2
    Services = {"s1", "s2", "s3"}
    Versioned = {"s1", "s2"}
    Identified = {"s1", "s2", "s3"}
    WithCpe = {"s1"}
    Vulners = FALSE
    Cves = {"c1", "c2", "c3"}
    Returned <- MCReturned
    Mentions <- MCMentions
    Scored = {"c1", "c3"}
    Cvss <- MCCvss
    Catalog = {"c1"}
    MaxLookups = 2
    MaxCves = 2
    FailTTL = 1
    KevTTL = 1
    Scans <- MCScans
    Urls = {"u1", "u2"}
    TTL = 1
    MaxEntries = 1
    Labels = {"10.0.0.5"}
    Addresses = {"10.0.0.5"}
    Includes <- MCIncludes
    Local = {}
    Devices <- MCDevices
    Domains = {"d1", "bad"}
    Malformed = {"bad"}
    Sites = {"d1"}
    TelemetryTTL = 2
    TabsTTL = 1
    DestTTL = 2
    RecentTTL = 1
    Window = 0
    MaxEvents = 2
    Reports <- MCReports
    Observers = {"10.0.0.5"}
    Payloads <- MCPayloads
    MaxTime = 2
    MaxHits = 2
    Agents = {"a1", "a2"}
    Nets = {"n1", "n2", "n3", "n4"}
    PrivateV4 = {"n1", "n2", "n3"}
    ReservedV4 = {"n4"}
    Prefix31 = {}
    HostCount <- MCHostCount
    MaxHosts = 4
    Explicit = {}
    WiFi = TRUE
    Ssids = {"w1"}
    Worlds <- MCWorlds
    Findings = {"f1", "f2"}
    Network = {"f1"}
    Android = {"f2"}
    Marked = {"f1"}
    Paths = {"path"}
    Workers = {"w1", "w2"}
    Kinds = {"shell", "manual"}
    Scripts = {"shell"}
    Answers <- MCAnswers
    MaxRows = 1
    Keys = {"k1"}
    Rate = 1
    Burst = 2
    EvictTTL = 2
    Threshold = 0
    MaxNow = 3
    MaxChecks = 4
    Emails = {"e1", "e2"}
    Passwords = {"x", "y"}
    MaxChanges = 1
    MaxRegistered = 2
    MaxHops = 2
    PathsPerTarget = 2
    TopK = 3
    MaxCandidates = 3
    Graphs <- MCGraphs
    Ranges <- MCRanges
    Upgrades <- MCUpgrades
    Facts <- MCFacts
    UrlChecks <- MCUrlChecks
    Rows <- MCRows
    EndpointFindings <- MCEndpointFindings
    AiVerdicts <- MCAiVerdicts
INVARIANTS
    SourcesHonest
    ProbesHonest
    FeedKept
    CoverageHonest
    DefensiveOnly
    AccessSound
    RiskSound
    UpgradeHelps
    ExposureShows
    EvidenceRaises
PROPERTIES
    FailureNotCleared
    FirstAdvisoryFound
CHECK_DEADLOCK FALSE
