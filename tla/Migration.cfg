CONSTANTS
    None = None
    Absent = Absent
    Account = {alice}
    Tx = {t1, t2}
    d1 = d1
    d2 = d2
    Output = {d1, d2}
    Balance <- MCBalance
    Limit = {1, 2}
    HomeChain = mainnet
    Confirmations = 3
    Delta = 1
    ExtraDelta = {0}
    SLACK = 5
CONSTRAINT OneListAtATime
SYMMETRY Symmetric
SPECIFICATION Spec
INVARIANTS
    TypeOK
    RingCountsAccepted
    LostIsRecoverable
PROPERTIES
    RegistrySpec
    UpgradeIsInvisible
CHECK_DEADLOCK FALSE
