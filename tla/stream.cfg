\* Two nodes at different heights, a stream of either mode, one outage.
SPECIFICATION Spec
CONSTANTS
    a = a
    b = b
    Nodes = {a, b}
    Modes = {"Irreversible", "Head"}
    Starts = {0, 1, 3}
    stop = 4
    FirstHead = 2
    LastHead = 5
    Confirmations = 1
    Forks = 1
    Outages = 1
CHECK_DEADLOCK FALSE
INVARIANTS
    Consecutive
    WaitsForFinality
PROPERTIES
    CatchesUp
