SPECIFICATION FairSpec
CONSTANTS
    Sessions = {s1, s2}
    Tls = FALSE
    MaxConnections = 1
    PoolLimit = 1
    MaxRequests = 1
    IoThreads = 2
INVARIANTS ForcedMeansClosed NothingAfterReturn
PROPERTIES SessionsUndisturbed ShutdownEnds RequestsEnd DrainEmpties
