CONSTANTS
    o1 = o1
    d1 = d1
    d2 = d2
    d3 = d3
    m1 = m1
    w1 = w1
    r1 = r1
    Nobody = Nobody
    Orders = {o1}
    Outputs = {d1, d2, d3}
    Wallets = {w1}
    Merchants = {m1}
    Refunds = {r1}
    Order <- MCOrder
    Output <- MCOutput
    MaxInt64 = 9
    Unaddressed = {d3}
    WalletOf <- MCWalletOf
    MaxHeight = 2
    MaxCursor = 2
    MaxTime = 2
SPECIFICATION Spec
PROPERTIES
    Implements
    SameCalls
