\* One run and one of each actor, under fairness.
SPECIFICATION FairSpec
CONSTANTS
    Workers = {w1}
    Pollers = {p1}
    Reconcilers = {q1}
    MaxRuns = 1
    Kinds = {"approval", "subscription", "background"}
    MaxRetries = 1
    Ttl = 1
    RetryDelay = 1
    MaxLag = 0
    ClaimTtl = 1
    WaitTtl = 2
    PollTtl = 1
    MaxLog = 3
    MaxEvents = 2
    ReconcileTtl = 1
    MaxReconciles = 1
    None = None
CHECK_DEADLOCK FALSE
PROPERTIES DeadWaitCloses SubscriptionWaitEnds BackgroundEndsUndisturbed
