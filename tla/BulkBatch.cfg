CONSTANTS
    Messages = {m1, m2}
    Cancels = {c1, c2}
    NoMessage = NoMessage
    MaxAttempts = 2
    Price = 1
    Opening = 2
    Reports <- MCReports
    Environments <- MCEnvironments
    Rows = {1, 2, 3, 4}
    Unusable = {4}
    Phones = {"x"}
    Phone <- MCPhone
    Country <- MCCountry
    Clicks = {k1, k2}
    Threads = {t1, t2}
    RowBatch = 2
    Attempts = 2
    MaxStalls = 1
    Strategies = {"SKIP_EXISTING", "UPDATE_EXISTING"}
    ImportEnvironments <- MCImportEnvironments
SPECIFICATION BulkSpec
INVARIANTS
    BulkTypeOK
    CanceledBatchNeverSent RefundedOnce BatchFailedMeansAllFailed FailuresCountedOnce
    ImportEndsAsAsked
PROPERTIES RefinesLedger
SYMMETRY MCSymmetry
CHECK_DEADLOCK FALSE
