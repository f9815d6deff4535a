SPECIFICATION Spec
CONSTANTS
    Agents = {a1, a2}
    DemoAgents = {a2}
    Orgs = {o1, o2}
    Handlers = {h1}
    None = None
    MaxSessions = 3
    MaxTokens = 3
    MaxFaults = 1
INVARIANTS
    CredentialKept
    OneWaitingDemo
PROPERTIES
    ImplementsOneTimePairing
