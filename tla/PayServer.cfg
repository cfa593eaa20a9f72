CONSTANTS
    o1 = o1
    d1 = d1
    d2 = d2
    m1 = m1
    m2 = m2
    m3 = m3
    w1 = w1
    w2 = w2
    Nobody = Nobody
    Orders = {o1}
    Outputs = {d1, d2}
    Wallets = {w1, w2}
    Merchants = {m1, m2, m3}
    Refunds = {}
    Order <- OneOrder
    Output <- GoodAndStray
    MaxInt64 = 9
    Unaddressed = {}
    WalletOf <- LastShared
    MerchantSeq <- ThreeMerchantSeq
    MaxHeight = 2
    MaxCursor = 20
    MaxTime = 1
    PageSize = 2
    ScanConfs = 2
    MaxReorgs = 1
    MaxFaults = 1
SPECIFICATION PSpec
INVARIANTS
    LogReflected
    StreamOrdered
    ConfirmedHeightCurrent
