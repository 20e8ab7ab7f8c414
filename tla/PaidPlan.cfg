SPECIFICATION Spec
CONSTANTS
    Paid = {Starter, Growth}
    Users = {u1}
    Changes = {ch1}
    Orders = {o1}
    NoChange = NoChange
    Period = 2
    Grace = 1
    MaxTime = 4
    Environments <- SchedulerOnly
    Checkouts = {c1}
    Pages = {page}
    Hooks = {hook}
    Scans = {job}
    Reviewers = {r1}
    Expiry = 1
    MaxAttempts = 2
    NoCheckout = NoCheckout
PROPERTY
    PaidPlanKept
CHECK_DEADLOCK FALSE
