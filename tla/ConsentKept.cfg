CONSTANTS
    Rows = {1}
    Unusable = {}
    Phones = {"x"}
    Phone <- MCPhone
    Country <- MCCountry
    Clicks = {k1}
    Threads = {t1}
    RowBatch = 1
    Attempts = 1
    MaxStalls = 0
    Strategies = {"UPDATE_EXISTING"}
    ImportEnvironments <- MCEnvironments
SPECIFICATION ImportSpec
INVARIANTS ConsentKept
CHECK_DEADLOCK FALSE
