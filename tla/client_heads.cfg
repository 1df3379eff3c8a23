\* Two callers, two nodes, one of which may lag: delayed and overtaking heads.
SPECIFICATION ClientSafety
CONSTANTS
    a = a
    b = b
    Callers = {a, b}
    HealthTracking = TRUE
    NodeCount = 2
    Methods = {"get_dynamic_global_properties"}
    HeadMethod = "get_dynamic_global_properties"
    Reachable = {0, 1}
    Lags <- AnyLag
    GenesisHead = 4
    timeout = 1
    passes = 1
    initial_backoff = 2
    BackoffCap = 1
    MaxCalls = 2
    node_cooldown = 2
    api_cooldown = 1
    failures_before_cooldown = 2
    api_failures_before_cooldown = 2
    stale_block_threshold = 1
    head_block_ttl = 5
    block_interval = 2
    CounterMax = 1
    Heads = {}
    LockWait = 0
    MaxTime = 2
SYMMETRY CallerSymmetry
CHECK_DEADLOCK FALSE
INVARIANTS
    InSyncNeverDemoted
    LaggardIsCaught
