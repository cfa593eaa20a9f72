CONSTANTS
    o1 = o1
    d1 = d1
    d2 = d2
    m1 = m1
    m2 = m2
    m3 = m3
    w1 = w1
    w2 = w2
    Nobody = Nobody
    Orders = {o1}
    Outputs = {d1, d2}
    Wallets = {w1, w2}
    Merchants = {m1, m2, m3}
    Refunds = {}
    Order <- OtherOrder
    Output <- StrayAndGood
    MaxInt64 = 9
    Unaddressed = {}
    WalletOf <- SharedWallet
    MerchantSeq <- ThreeMerchantSeq
    MaxHeight = 2
    MaxCursor = 20
    MaxTime = 0
    PageSize = 2
    ScanConfs = 2
    MaxReorgs = 0
    MaxFaults = 0
SPECIFICATION FairPSpec
PROPERTIES
    CatchesUp
