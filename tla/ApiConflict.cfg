CONSTANTS
    Requests = {r1, r2, r3}
    Payloads = {p1, p2}
    LockTime = 2
    Ttl = 3
    MaxDuration = 1
    MaxClock = 5
    ApiEnvironments <- EarlyOnly
SPECIFICATION ApiSpec
INVARIANTS ConflictRefused
SYMMETRY MCSymmetry
CHECK_DEADLOCK FALSE
