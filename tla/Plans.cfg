SPECIFICATION FairSpec
CONSTANTS
    Paid = {Growth}
    Users = {u1}
    Changes = {ch1}
    Orders = {o1}
    NoChange = NoChange
    Period = 2
    Grace = 1
    MaxTime = 4
    Environments <- MCEnvironments
    Checkouts = {c1}
    Pages = {page}
    Hooks = {hook}
    Scans = {job}
    Reviewers = {r1}
    Expiry = 1
    MaxAttempts = 2
    NoCheckout = NoCheckout
INVARIANTS
    AppliedOnce
    ActivatedOnce
PROPERTIES
    ClosedNeverApplies
    JobsKeepPaidPeriod
    EventuallyDecided
    CancellationCarriedOut
CHECK_DEADLOCK FALSE
