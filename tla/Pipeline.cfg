CONSTANTS
    Messages = {m1}
    Single = {m1}
    Workers = {w1, w2}
    NoMessage = NoMessage
    NoWorker = NoWorker
    MaxAttempts = 2
    MaxStalls = 1
    Price = 1
    Opening = 1
    AcceptBound = 2
    Simulation = TRUE
    Environments <- AllFaults
SPECIFICATION Spec
INVARIANTS CanceledNeverSent ExclusiveSender SentOnce
PROPERTIES RefinesLedger DeliveryMonotone NoResendAfterRecord
SYMMETRY MCSymmetry
CHECK_DEADLOCK FALSE
