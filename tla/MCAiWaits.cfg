\* One run, every wait it may ask for, two of each actor.
SPECIFICATION Spec
CONSTANTS
    Workers = {w1, w2}
    Pollers = {p1, p2}
    Reconcilers = {q1, q2}
    MaxRuns = 1
    Kinds = {"approval", "subscription", "background"}
    MaxRetries = 1
    Ttl = 1
    RetryDelay = 1
    MaxLag = 0
    ClaimTtl = 1
    WaitTtl = 2
    PollTtl = 1
    MaxLog = 3
    MaxEvents = 2
    ReconcileTtl = 1
    MaxReconciles = 1
    None = None
CHECK_DEADLOCK FALSE
SYMMETRY Symmetry
INVARIANTS EffectApprovedOnce FirstMatchDelivered SentOnceAndHeld ChargedWithItsEnd RunWaitsWithItsWait
PROPERTIES AuthorityFinal
