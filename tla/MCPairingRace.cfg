SPECIFICATION Spec
CONSTANTS
    Agents = {a1, a2}
    DemoAgents = {}
    Orgs = {o1}
    Handlers = {h1, h2}
    None = None
    MaxSessions = 2
    MaxTokens = 4
    MaxFaults = 0
INVARIANTS
    CredentialIsolation
    OfferIsRegistered
