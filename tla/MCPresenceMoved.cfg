SPECIFICATION Spec
CONSTANTS
    Devices = {d1}
    Doubles = {}
    Hosts = {}
    Nets = {n1, n2}
    Agents = {a1}
    None = None
    Handlers = {h1}
    MaxSlots = 2
    Gap = 1
    Stale = 3
    Roaming = TRUE
    Anonymous = FALSE
    Scanning = FALSE
PROPERTIES
    SeenIsOnline
