SPECIFICATION Spec
CONSTANTS
    shared = shared
    own = own
    r1 = r1
    r2 = r2
    None = None
    Policies <- MCPolicies
    Renewed <- MCRenewed
    AppliesTo <- MCAppliesTo
    Ceilings <- MCCeilings
    Runs <- MCRuns
    MaxKeys = 2
    MaxEstimate = 1
    Consumed <- MCConsumed
    MaxStored = 3
    PeriodLength = 2
    LeaseTtl = 2
    MinimumAge = 0
    MaxNow = 2
    MaxGen <- MCMaxGen
    MaxLag = 0
INVARIANTS CountersBalance ChargedOnce EstimatedOnlyWhenOver
PROPERTIES CeilingRespected
CHECK_DEADLOCK FALSE
