\* Two refreshers that overtake each other, one signer, a window of six blocks
\* that the budgets only just fit into; or two processes with one wallet, two
\* keys, two passphrases: saves that fail or are cut short.
SPECIFICATION LocalSpec
CONSTANTS
    a = a
    b = b
    k1 = k1
    k2 = k2
    Refreshers = {a, b}
    Signers = {"signer"}
    max_age = 2
    MaxExpiration = 3
    Expirations = {0, 1, 3, 4}
    Window = 6
    block_interval = 2
    FetchBudget = 1
    HoldBudget = 1
    MaxLag = 1
    GenesisHead = 3
    MaxTime = 11
    Handles = {a, b}
    Keys = {k1, k2}
    Passphrases = {"old", "new"}
    MaxSalts = 2
SYMMETRY LocalSymmetry
CHECK_DEADLOCK FALSE
INVARIANTS
    ReferenceOutlivesTransaction
    OnePassphraseOpensAll
    NeverTruncated
    AcknowledgedIsDurable
PROPERTY
    RegressIsBounded
