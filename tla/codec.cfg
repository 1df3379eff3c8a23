\* Every operation, every boundary value of its fields one at a time, two legs.
SPECIFICATION OfflineSpec
CONSTANTS
    MaxAuthorityMembership = 4
    MAX_TITLE_LEN = 2
    MAX_PERMLINK_LEN = 2
    MAX_MEMO_LEN = 2
    MAX_PROPOSAL_SUBJECT_LEN = 2
    MAX_WITNESS_URL_LEN = 2
    MAX_CUSTOM_ID_LEN = 2
    MAX_CUSTOM_DATA_LEN = 127
    MAX_PROPOSAL_IDS = 2
    MAX_BENEFICIARIES = 2
    Built <- MCBuilt
    Foreign <- MCForeign
    History <- MCHistory
    BLOCK = 4
    Parties = {"alice", "bob", "carol"}
    Nonces = {1, 2}
    Texts <- MCTexts
    REGENERATION_SECONDS = 5
    MaxRcs = {0, 1, 3, 7, 14}
    I64Max = 15
    MANTISSA = 7
    Costs = {1, 5}
    Horizon = 9
    MaxLegs = 2
CHECK_DEADLOCK FALSE
INVARIANTS
    ReadsBack
    Settles
    DamageDetected
    ValidatedIsCanonical
    NeverSignable
    OpensForItsEnds
    ExtrapolatesTheChain
