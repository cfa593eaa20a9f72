CONSTANTS
    e1 = e1
    e2 = e2
    e3 = e3
    s1 = s1
    s2 = s2
    m1 = m1
    m2 = m2
    Events = {e1, e2, e3}
    Sinks = {s1, s2}
    Merchants = {m1, m2}
    EventMerchant <- MCEventMerchant
    SinkMerchant <- MCSinkMerchant
    Confirming = {s1}
    BatchSize = 2
    MaxAttempts = 2
    Delay <- BackoffDelay
    MaxAge = 1
    MaxFaults = 1
SPECIFICATION FairSpec
INVARIANTS
    TypeOK
    DeliveredReceived
    GivesUpHonestly
    DuplicatesBounded
    BatchCurrent
PROPERTIES
    SettledStays
    EverySettled
