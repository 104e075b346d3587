SPECIFICATION FairSpec
CONSTANTS
    Workers = {w1, w2}
    Cleaners = {c1, c2}
    MaxRuns = 1
    MaxRetries = 1
    Ttl = 1
    RetryDelay = 1
    MaxLag = 0
    MaxThreads = 2
    ClaimTtl = 1
    CleanupTtl = 1
    CleanupDelay = 1
    MaxCleanups = 1
    None = None
PROPERTIES CleanupConverges
CHECK_DEADLOCK FALSE
