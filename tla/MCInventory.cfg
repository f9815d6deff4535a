SPECIFICATION MCSpec
CONSTANTS
    a = a
    gw = gw
    c1 = c1
    n1 = n1
    h1 = h1
    h2 = h2
    s1 = s1
    s2 = s2
    g1 = g1
    g2 = g2
    Machines = {a, gw}
    Gateway = gw
    Vulns = {c1, n1}
    ConfigVulns = {n1}
    Critical = {c1}
    High = {}
    Assess <- MCAssess
    None = None
    Requests = {h1, h2}
    Payloads <- MCPayloads
    Scans <- MCScans
    Detections <- MCDetections
    Triage = {"accepted"}
    PatchLevels = {"low"}
    Devices = {d1, d2}
    Doubles = {d1, d2}
    Hosts = {d1}
    Nets = {s1, s2}
    Agents = {g1, g2}
    Handlers = {k1}
    MaxSlots = 1
    Gap = 0
    Stale = 0
    Roaming = FALSE
    Anonymous = FALSE
    Scanning = FALSE
SYMMETRY Interchangeable
INVARIANTS
    RiskCurrent
    OfflineNotPresent
PROPERTIES
    TriageStands
    SeenIsOnline
    OthersUntouched
