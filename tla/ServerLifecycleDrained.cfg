SPECIFICATION Spec
CONSTANTS
    Sessions = {s1}
    Tls = FALSE
    MaxConnections = 1
    PoolLimit = 1
    MaxRequests = 1
    IoThreads = 2
INVARIANTS DrainedMeansIdle
