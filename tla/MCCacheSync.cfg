SPECIFICATION CacheSpec
CONSTANTS
    Resources = {r1}
    Workers = {w1, w2}
    Owners = {o1, o2}
    Attempts = {a1}
    Ttls <- MCTtls
    MaxTime = 6
    MaxToken = 2
    MaxVersion = 4
    ClockSkew = 1
    FreshFor = 1
    Cooldown = 2
    LeaseFor = 2
    RetryBackoff = 1
    MaxBackoff = 2
    Watchers = {s1}
    Capacity = 1
    MaxSource = 1
    None = None
SYMMETRY Symmetry
INVARIANTS Fencing NoLostUpdate FreshMeansRecent NoMissedGeneration
PROPERTIES NewerNeverReplaced AttemptsSpaced
CHECK_DEADLOCK FALSE
