\* One process: the passphrase of a locked wallet.
SPECIFICATION LocalSpec
CONSTANTS
    a = a
    b = b
    k1 = k1
    k2 = k2
    Refreshers = {a}
    Signers = {"signer"}
    max_age = 1
    MaxExpiration = 1
    Expirations = {1}
    Window = 6
    block_interval = 2
    FetchBudget = 1
    HoldBudget = 1
    MaxLag = 1
    GenesisHead = 3
    MaxTime = 2
    Handles = {a}
    Keys = {k1, k2}
    Passphrases = {"old", "new"}
    MaxSalts = 2
CHECK_DEADLOCK FALSE
PROPERTY
    LockedKeepsItsPassphrase
