\* Two nodes, two signings, two broadcasts: failover and races, lost and late requests, restarts.
SPECIFICATION DeliverySpec
CONSTANTS
    a = a
    b = b
    Nodes = {a, b}
    OpBatches <- MCBatches
    KeyTexts = {"k1"}
    WalletKeys <- MCWalletKeys
    Setups <- MCSetups
    Signer = "alice"
    MaxRefAge = 1
    MAX_EXPIRATION_SECS = 2
    MAX_CUSTOM_OPS_PER_BLOCK = 3
    MaxOps = 2
    MaxKeys = 1
    MaxSignings = 2
    MaxBroadcasts = 2
    MaxCalls = 3
    MaxTime = 1
SYMMETRY NodeSymmetry
CHECK_DEADLOCK FALSE
INVARIANTS
    LandsAsSigned
    SendsNothingDiscarded
    BudgetIsKept
    SignedByEachKeyOnce
    VerifiedIsSigned
    ConclusiveIsFinal
    SignsWhatWasGiven
