CONSTANTS
    Purchases = {p1}
    Verifiers = {v1, v2}
    Deliveries = {d1, d2, d3}
    NoPurchase = NoPurchase
    NoEvent = NoEvent
    Amount = 2
    Opening = 1
    Faults <- DatabaseOnly
SPECIFICATION Spec
INVARIANTS RetryReprocesses
SYMMETRY MCSymmetry
CHECK_DEADLOCK FALSE
