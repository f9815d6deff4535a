SPECIFICATION MCSpec
CONSTANTS
    ip1 = ip1
    ip2 = ip2
    b1 = b1
    b2 = b2
    p1 = p1
    p2 = p2
    None = None
    Nil = Nil
    Labels = {ip1, ip2}
    Addresses = {ip1, ip2}
    Includes <- MCIncludes
    Local = {}
    Devices <- MCDevices
    Domains = {p1}
    Malformed = {}
    Sites = {p1, p2}
    Handlers = {k1}
    TelemetryTTL = 1
    TabsTTL = 1
    DestTTL = 1
    RecentTTL = 1
    Observers = {ip1}
    Payloads <- MCPayloads
    MaxTime = 3
    MaxHits = 1
    Browsers = {b1, b2}
    Dbs <- MCDbs
    Pages = {p1}
    Registrable <- MCRegistrable
    Named <- MCNamed
    MaxRows = 1
    MaxTabs = 1
    ExtensionTTL = 1
    Cooldown = 2
    Host = ip1
INVARIANTS
    
    MissedForAReason
CHECK_DEADLOCK FALSE
