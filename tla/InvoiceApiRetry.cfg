CONSTANTS
    r1 = r1
    r2 = r2
    r3 = r3
    r4 = r4
    o1 = o1
    o2 = o2
    Requests = {r1, r2}
    Orders = {o1, o2}
    OrderOf <- MCOrderOf
    AmountOf <- MCAmountOf
    Serialized = TRUE
    Nothing = Nothing
    MaxFaults = 0
SPECIFICATION Spec
INVARIANTS
    RetryGetsInvoice
CHECK_DEADLOCK FALSE
