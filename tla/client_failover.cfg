\* Two callers, two nodes, two methods, two passes: failover, cooldowns, backoff.
SPECIFICATION ClientSpec
CONSTANTS
    a = a
    b = b
    Callers = {a, b}
    HealthTracking = TRUE
    NodeCount = 2
    Methods = {"get_dynamic_global_properties", "other"}
    HeadMethod = "get_dynamic_global_properties"
    Reachable = {}
    Lags <- OnlyInSync
    GenesisHead = 0
    timeout = 1
    passes = 2
    initial_backoff = 2
    BackoffCap = 1
    MaxCalls = 1
    node_cooldown = 2
    api_cooldown = 1
    failures_before_cooldown = 2
    api_failures_before_cooldown = 2
    stale_block_threshold = 2
    head_block_ttl = 2
    block_interval = 1
    CounterMax = 2
    Heads = {}
    LockWait = 0
    MaxTime = 0
CHECK_DEADLOCK FALSE
INVARIANTS
    ClientTypeOK
    CallBudget
PROPERTIES
    KeepsPromise
