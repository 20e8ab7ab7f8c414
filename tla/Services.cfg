CONSTANTS
    Purchases = {p1}
    Verifiers = {v1, v2}
    Deliveries = {d1, d2, d3}
    NoPurchase = NoPurchase
    NoEvent = NoEvent
    Amount = 2
    Opening = 1
    Faults <- FaultKinds
    Requests = {q1, q2, q3}
    Payloads = {b1}
    LockTime = 2
    Ttl = 3
    MaxDuration = 1
    MaxClock = 4
    ApiEnvironments <- MCApiEnvironments
    Refunds = {f1, f2}
    Amounts = {1, 2}
    InvoiceTotal = 2
    Handlers = {h1}
    MaxReconciliations = 1
    RefundEnvironments <- MCRefundEnvironments
    Publishers = {e1, e2}
    Endpoints = 2
    Workers = {w1, w2}
    Admins = {a1}
    OutboxAttempts = 2
    MaxOutboxStalls = 1
    MaxRecoveries = 1
    OutboxEnvironments <- MCOutboxEnvironments
    Scripts = {o1, o2}
    Kinds = {"DEPLOY", "RESTORE"}
    Lifetime = 2
    MaxTime = 2
    OperationEnvironments <- MCOperationEnvironments
SPECIFICATION ServicesSpec
INVARIANTS
    ServicesTypeOK
    CreditedOnce AcknowledgedIsDecided
    KeyGuardsEffects
    BooksFollowMoney
    NotifiedOnce
    OneOperation WorksUnderMaintenance
PROPERTIES RefinesLedger PaidIsFinal
SYMMETRY MCSymmetry
CHECK_DEADLOCK FALSE
