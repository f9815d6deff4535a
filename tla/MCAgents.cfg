SPECIFICATION AgentsSpec
CONSTANTS
    Agents = {a1}
    DemoAgents = {}
    Orgs = {o1}
    Handlers = {h1}
    None = None
    MaxSessions = 5
    MaxTokens = 5
    MaxFaults = 2
    MaxAttempts = 5
    PhoneFaults = 1
PROPERTIES
    DesktopPaired
    DesktopReports
    PhoneReports
