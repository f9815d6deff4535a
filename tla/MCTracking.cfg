SPECIFICATION LiveSpec
CONSTANTS
    d1 = d1
    d2 = d2
    out = out
    Sessions = {s1}
    Devices = {d1, d2}
    Addresses <- Wire
    None = None
    Handlers = {h1, h2, h3}
    MaxPackets = 2
    Eager = FALSE
    SniffFails = TRUE
    Slow = FALSE
    DbFails = TRUE
INVARIANTS
    SavedMatches
PROPERTIES
    StopAnswered
    CaptureEnds
