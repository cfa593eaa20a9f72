CONSTANTS
    o1 = o1
    d1 = d1
    d2 = d2
    m1 = m1
    m2 = m2
    w1 = w1
    w2 = w2
    r1 = r1
    Nobody = Nobody
    Orders = {o1}
    Outputs = {d1, d2}
    Wallets = {w1, w2}
    Merchants = {m1, m2}
    Refunds = {r1}
    Order <- LateOrder
    Output <- SameKeyNotes
    MaxInt64 = 9
    Unaddressed = {}
    WalletOf <- TwoWallets
    MaxHeight = 2
    MaxCursor = 2
    MaxTime = 2
SPECIFICATION Spec
INVARIANTS
    PaidAnnounced
    NoSilentDeposit
    StatusExplained
    EventsOwned
PROPERTIES
    LatePaymentReviewed
