\* Two nodes and two methods, every policy threshold reachable, the failure
\* counters saturating at CounterMax and the clock bounded by MaxTime.
SPECIFICATION HealthSpec
CONSTANTS
    m1 = m1
    m2 = m2
    NodeCount = 2
    Methods = {m1, m2}
    node_cooldown = 2
    api_cooldown = 1
    failures_before_cooldown = 2
    api_failures_before_cooldown = 2
    stale_block_threshold = 1
    head_block_ttl = 1
    block_interval = 2
    CounterMax = 2
    Heads = {1, 4}
    LockWait = 1
    MaxTime = 2
SYMMETRY MethodSymmetry
CHECK_DEADLOCK FALSE
INVARIANTS
    HealthTypeOK
    BroadlyBrokenOnly
    StreakIsCounted
    CooldownsExpire
    SomeNodeIsCurrent
