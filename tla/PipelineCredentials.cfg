CONSTANTS
    Messages = {m1}
    Single = {m1}
    Workers = {w1, w2}
    NoMessage = NoMessage
    NoWorker = NoWorker
    MaxAttempts = 3
    MaxStalls = 1
    Price = 1
    Opening = 1
    AcceptBound = 2
    Simulation = FALSE
    Environments <- CredentialsOnly
SPECIFICATION Spec
INVARIANTS MissingCredentialsFailMessage
CHECK_DEADLOCK FALSE
