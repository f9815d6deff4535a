SPECIFICATION LiveSpec
CONSTANTS
    Devices = {d1}
    Doubles = {d1}
    Hosts = {d1}
    Nets = {n1, n2}
    Agents = {a1}
    None = None
    Handlers = {h1}
    MaxSlots = 2
    Gap = 0
    Stale = 0
    Roaming = TRUE
    Anonymous = TRUE
    Scanning = TRUE
INVARIANTS
    SessionsSound
PROPERTIES
    Unbroken
    GoneGoesOffline
