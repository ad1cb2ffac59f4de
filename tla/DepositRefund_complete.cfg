CONSTANTS
    None = None
    Utxo = {u1}
    SafeDeposit = {u1}
    PresetAddress = {u1}
    Account = {alice}
    FastTrack = {}
    Variant = {v1}
    BranchOf <- OneBranch
    UpgradeTimes = {}
    Zcash = FALSE
    PromiseId = {p1}
    refund_timelock_sec = 1
    unsafe_refund_timelock_sec = 1
    MaxTime = 1
    PendingTxLimit = 1
    MintCallbackMayDie = TRUE
    TrustedDAO = FALSE
SPECIFICATION Spec
PROPERTIES
    CompletedIsNotRefunded
