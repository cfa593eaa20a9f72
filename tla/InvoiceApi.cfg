CONSTANTS
    r1 = r1
    r2 = r2
    r3 = r3
    r4 = r4
    o1 = o1
    o2 = o2
    Requests = {r1, r2, r3, r4}
    Orders = {o1, o2}
    OrderOf <- MCOrderOf
    AmountOf <- MCAmountOf
    Serialized = FALSE
    Nothing = Nothing
    MaxFaults = 1
SPECIFICATION Spec
INVARIANTS
    AddressUnique
    TokenHolds
    CreatedOnce
PROPERTIES
    EveryAnswered
CHECK_DEADLOCK FALSE
