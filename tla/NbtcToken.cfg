CONSTANTS
    None = None
    Bridge = bridge
    Token = token
    User = {alice, bob}
    Receipt = {r1, r2}
    Withdrawals = {w1}
    MintAmount = {2}
    TransferAmount = {1, 2}
    FeeAmount = {0, 1}
    fee_min = 1
    ProtocolRate = {0, 1}
    MAX_RATIO = 1
    MaxPostActions = 1
    MaxCustody = 3
SYMMETRY Symmetric
SPECIFICATION Spec
INVARIANTS
    SupplyIsSum
    BridgeCovers
    SupplyIsBacked
CHECK_DEADLOCK FALSE
