CONSTANTS
    None = None
    Utxo = {u1}
    SafeDeposit = {u1}
    PresetAddress = {}
    Account = {alice, dao}
    FastTrack = {dao}
    Variant = {v1, v2}
    BranchOf <- OneBranch
    UpgradeTimes = {}
    Zcash = TRUE
    PromiseId = {p1, p2, p3}
    refund_timelock_sec = 1
    unsafe_refund_timelock_sec = 2
    MaxTime = 3
    PendingTxLimit = 2
    MintCallbackMayDie = TRUE
    TrustedDAO = TRUE
SYMMETRY PromiseSymmetry
SPECIFICATION Spec
INVARIANTS
    ListsMatchStages
    StaleOnlyAfterRefund
PROPERTIES
    ExecutedIsIrrevocable
    UnsafeRefundWaits
