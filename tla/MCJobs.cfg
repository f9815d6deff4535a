SPECIFICATION JobsSpec
CONSTANTS
    d1 = d1
    d2 = d2
    A = A
    B = B
    host = host
    n1 = n1
    other = other
    None = None
    OrgOrder <- MCOrgs
    ByIp <- MCByIp
    Owner <- MCOwner
    Self = {host}
    Failing = {host}
    Devices = {d1, d2}
    Chats = {c1, c2}
    Findings <- MCFindings
    Name <- OwnNames
    MaxCrashes = 1
    MaxFailures = 1
    MaxChanges = 2
INVARIANTS
    SentOnce
PROPERTIES
    AlertsReported
    WithdrawnByNextTick
    EveryDeviceScanned
CHECK_DEADLOCK FALSE
