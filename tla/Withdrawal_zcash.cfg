CONSTANTS
    None = None
    user = user
    operator = operator
    c1 = c1
    c2 = c2
    t1 = t1
    t2 = t2
    t3 = t3
    t4 = t4
    Account = {user, operator}
    Operators = {operator}
    DAO = {operator}
    Coin = {c1}
    Value <- MCValue
    Tx = {t1, t2, t3}
    Amount = {5}
    Gas = {1}
    CancelGas = {2, 4, 5}
    fee_min = 2
    fee_rate = 0
    protocol_fee_rate = 1
    MAX_RATIO = 2
    GasMustRise = FALSE
    rbf_num_limit = 2
    pending_tx_limit = 2
    MaxInputs = 1
    FeeDeposit = {2}
    MaxCollected = 4
SPECIFICATION Spec
SYMMETRY Symmetric
INVARIANTS
    LedgerBalances
    ReservedIsExact
    SettlementCannotPanic
CHECK_DEADLOCK FALSE
