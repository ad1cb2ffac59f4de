CONSTANTS
    None = None
    Utxo = {u1}
    SafeDeposit = {u1}
    PresetAddress = {}
    Account = {alice}
    FastTrack = {}
    Variant = {1, 2}
    BranchOf <- TwoBranches
    UpgradeTimes = {2}
    Zcash = TRUE
    PromiseId = {p1, p2}
    refund_timelock_sec = 1
    unsafe_refund_timelock_sec = 1
    MaxTime = 2
    PendingTxLimit = 1
    MintCallbackMayDie = FALSE
    TrustedDAO = TRUE
SPECIFICATION DrivenSpec
PROPERTIES
    MintResolves
    RefundCompletes
