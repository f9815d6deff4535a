SPECIFICATION LiveSpec
CONSTANTS
    o1 = o1
    o2 = o2
    d1 = d1
    d2 = d2
    Orgs <- MCOrgs
    Keys <- MCKeys
    OrgOf <- MCOrgOf
    Items = {i1, i2}
    None = None
    Handlers = {h1}
    Failing <- SecondFails
INVARIANTS
    FindingsCurrent
PROPERTIES
    TriageIsolated
    EventuallyCorrelated
