SPECIFICATION DownSpec
CONSTANTS
    r1 = r1
    r2 = r2
    f1 = f1
    Lookup <- Lookups
    Fetcher <- Fetchers
    MaxRetries = 1
CHECK_DEADLOCK FALSE
INVARIANTS OneProbe NoLostWakeup
PROPERTIES RequestsEnd FetchReturns
