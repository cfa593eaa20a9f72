CONSTANTS
    i1 = i1
    i2 = i2
    Invoices = {i1, i2}
    Writers = {"ingest", "admin"}
    Serialized = TRUE
    PageLimit = 2
    MaxId = 3
    MaxDisturbances = 2
SPECIFICATION Spec
INVARIANTS
    TypeOK
    HistoryExact
    StreamExact
PROPERTIES
    EventuallyShown
    EventuallyStreamed
CHECK_DEADLOCK FALSE
