CONSTANTS
    c1 = c1
    c2 = c2
    c3 = c3
    Contacts <- MCContacts
    Segments <- MCSegments
    Pending <- MCPending
    Runs = {r1, r2}
    Users = {u1, u2}
    NoContact = NoContact
    NoRun = NoRun
    BatchSize = 2
    Openings <- MCOpenings
    Limit = 2
    Environments <- MCEnvironments
    Attempts = 2
    MaxStalls = 1
    Audience = {a, b}
    Conditions <- MCConditions
    TickBatch = 1
    Tickers = {t, u}
    Purse = 3
    SequenceEnvironments <- MCSequenceEnvironments
    Inbound = {m1, m2}
    Keywords = {m1}
    Kind <- MCKind
    Leads <- MCLeads
    Failing <- MCFailing
    Credit = 2
    Allowance = 1
    Hands = {h1, h2}
    AutomationEnvironments <- MCAutomationEnvironments
SPECIFICATION CampaignsSpec
INVARIANTS
    CampaignsTypeOK
    ChargedAndCounted CancelStopsLaunch NothingLeftBehind
    StepChargedOnce
    EachOnce
PROPERTIES LaunchEnds EverybodyFollowedUp ExecutionEnds
CHECK_DEADLOCK FALSE
