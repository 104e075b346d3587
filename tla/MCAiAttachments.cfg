\* One attachment, one removal and two cleanup workers at a time.
SPECIFICATION FairSpec
CONSTANTS
    Attachments = {a1}
    Removers = {m1}
    Cleaners = {c1, c2}
    TicketTtl = 1
    ProcessingTtl = 1
    CleanupTtl = 1
    RetryDelay = 1
    PurgeDelay = 1
    MaxLag = 0
    ProviderFileDelete = TRUE
    None = None
CHECK_DEADLOCK FALSE
INVARIANTS LinkedStaysReadable ObjectsAccounted
PROPERTIES MaintenanceEnds
