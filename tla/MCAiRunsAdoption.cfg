SPECIFICATION FairSpec
CONSTANTS
    Workers = {w1}
    MaxRuns = 1
    MaxRetries = 1
    ScanLimit = 2
    MaxTurns = 2
    ToolTurns = TRUE
    Ttl = 1
    RetryDelay = 1
    MaxLag = 0
    None = None
PROPERTIES ExpiredLeaseRecovered
CHECK_DEADLOCK FALSE
