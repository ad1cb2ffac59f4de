CONSTANTS
    None = None
    d1 = d1
    d2 = d2
    d3 = d3
    d4 = d4
    Deposit = {d1, d2, d3}
    Height <- MCHeight
    Amount <- MCAmount
    SLACK = 1
    Tier = {5, 10}
    Confirmations = {2, 3, 8}
    Delta = {0, 1}
    InitialConfig <- MCConfig
    MayReconfigure = TRUE
    MaxHeight = 7
    MaxStale = 2
SPECIFICATION Spec
PROPERTIES
    TierOfBlockSum
CHECK_DEADLOCK FALSE
