SPECIFICATION FairSpec
CONSTANTS
    Workers = {w1, w2}
    MaxRuns = 1
    MaxRetries = 2
    ScanLimit = 2
    MaxTurns = 2
    ToolTurns = TRUE
    Ttl = 2
    RetryDelay = 1
    MaxLag = 1
    None = None
INVARIANTS TurnSentOnce
PROPERTIES OwnLeaseRecovered
CHECK_DEADLOCK FALSE
