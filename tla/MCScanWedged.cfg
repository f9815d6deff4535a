SPECIFICATION LiveSpec
CONSTANTS
    A = A
    B = B
    host = host
    n1 = n1
    n2 = n2
    other = other
    OrgOrder <- MCOrgs
    ByIp <- MCDevices
    Owner <- MCOwner
    Self = {host}
    Failing = {host}
    None = None
PROPERTIES
    NoWedge
