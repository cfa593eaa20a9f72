CONSTANTS
    o1 = o1
    d1 = d1
    d2 = d2
    m1 = m1
    m2 = m2
    m3 = m3
    w1 = w1
    w2 = w2
    Nobody = Nobody
    Orders = {o1}
    Outputs = {d1}
    Wallets = {w1}
    Merchants = {m1}
    Refunds = {}
    Order <- OneOrder
    Output <- OneNote
    MaxInt64 = 9
    Unaddressed = {}
    WalletOf <- OneWallet
    MerchantSeq <- OneMerchantSeq
    MaxHeight = 3
    MaxCursor = 20
    MaxTime = 0
    PageSize = 2
    ScanConfs = 2
    MaxReorgs = 1
    MaxFaults = 1
SPECIFICATION FairPSpec
PROPERTIES
    CatchesUp
    Settles
