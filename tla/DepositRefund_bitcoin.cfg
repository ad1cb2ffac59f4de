CONSTANTS
    None = None
    Utxo = {u1, u2}
    SafeDeposit = {u1}
    PresetAddress = {u1}
    Account = {alice, dao}
    FastTrack = {dao}
    Variant = {v1}
    BranchOf <- OneBranch
    UpgradeTimes = {}
    Zcash = FALSE
    PromiseId = {p1, p2, p3}
    refund_timelock_sec = 1
    unsafe_refund_timelock_sec = 2
    MaxTime = 2
    PendingTxLimit = 1
    MintCallbackMayDie = TRUE
    TrustedDAO = TRUE
SYMMETRY PromiseSymmetry
SPECIFICATION Spec
INVARIANTS
    TypeOK
    NeverMintedAndRefunded
    MintedAtMostOnce
    MintIsBacked
    VerifiedForOneReason
PROPERTIES
    ClaimSpec
