SPECIFICATION SessionSpec
CONSTANTS
    Sessions = {s1, s2}
    Tls = TRUE
    MaxConnections = 2
    PoolLimit = 1
    MaxRequests = 2
SYMMETRY Symmetry
INVARIANTS OneThingOutstanding BookkeepingAgrees DrainServesOneMore
