CONSTANTS
    Messages = {m1, m2}
    Single = {m1}
    Workers = {w1, w2}
    NoMessage = NoMessage
    NoWorker = NoWorker
    MaxAttempts = 2
    MaxStalls = 1
    Price = 1
    Opening = 1
    AcceptBound = 2
    Simulation = TRUE
    Environments <- NoHardFaults
SPECIFICATION FairSpec
INVARIANTS SettledExactlyOnce
PROPERTIES EventuallySettled
CHECK_DEADLOCK FALSE
