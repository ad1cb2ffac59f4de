CONSTANTS
    None = None
    c1 = c1
    c2 = c2
    d = d
    Upgrade <- MCUpgrade
    expiry_height_gap = 1
    Value <- MCValue
    Deposit = d
    DepositValue = 5
    amount = 6
    withdraw_fee = 1
    refund_gas_fee = 2
    min_btc_gas_fee = 2
    max_btc_gas_fee = 4
    min_change_amount = 1
    max_change_amount = 6
    max_change_number = 2
    max_withdrawal_input_number = 2
    rbf_num_limit = 1
    Receivers <- MCReceivers
    RefundReceivers = {"transparent", "orchard"}
    Vout <- MCVout
    Orchard <- MCOrchard
    FirstHeight = 2
    MaxHeight = 5
    MaxLag = 1
    MaxSigning = 1
    MaxRecords = 2
SPECIFICATION Spec
INVARIANTS
    SignaturesAreValid
    MinedUnderItsId
    PaysWhatIsRecorded
    NeverStranded
CHECK_DEADLOCK FALSE
