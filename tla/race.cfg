\* Three nodes raced by two tasks with widths below, within and above the list;
\* ranges of one and several blocks, one backwards, up to some nodes' heads.
SPECIFICATION AsyncSpec
CONSTANTS
    a = a
    b = b
    Tasks = {a, b}
    Widths = {0, 2, 4}
    NodeCount = 3
    Methods = {"get_dynamic_global_properties", "other"}
    HeadMethod = "get_dynamic_global_properties"
    timeout = 1
    MaxRaces = 1
    node_cooldown = 2
    api_cooldown = 1
    failures_before_cooldown = 2
    api_failures_before_cooldown = 1
    stale_block_threshold = 1
    head_block_ttl = 2
    block_interval = 1
    CounterMax = 2
    Heads = {1, 4}
    LockWait = 0
    MaxTime = 1
    Ranges <- MCRanges
    Concurrencies = {0, 2, 3}
    MaxBlock = 6
    Lowest = 2
    Highest = 4
CHECK_DEADLOCK FALSE
INVARIANTS
    OneTimeoutAtMost
    LostOnlyByAll
    JudgedOnOutcomes
    EachBlockOnce
    InBlockOrder
PROPERTIES
    RaceEnds
    WindowEnds
