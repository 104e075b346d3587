SPECIFICATION Spec
CONSTANTS
    Workers = {w1, w2}
    MaxRuns = 2
    MaxRetries = 1
    ScanLimit = 2
    MaxTurns = 1
    ToolTurns = FALSE
    Ttl = 1
    RetryDelay = 1
    MaxLag = 1
    None = None
SYMMETRY Symmetry
INVARIANTS ClaimableWellFormed
    AnsweredOnce AnswerNeverLost AnswerIsBilled AdvertisedAdmission
PROPERTIES ImplementsLedger
CHECK_DEADLOCK FALSE
