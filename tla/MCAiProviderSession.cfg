SPECIFICATION Spec
CONSTANTS
    Workers = {w1}
    Cleaners = {c1, c2}
    MaxRuns = 2
    MaxRetries = 0
    Ttl = 1
    RetryDelay = 1
    MaxLag = 0
    MaxThreads = 2
    ClaimTtl = 1
    CleanupTtl = 1
    CleanupDelay = 1
    MaxCleanups = 1
    None = None
SYMMETRY Symmetry
INVARIANTS ThreadMirrorsTranscript PromptInContext ContentNeverOrphaned
CHECK_DEADLOCK FALSE
