SPECIFICATION Spec
CONSTANTS
    Logins = {ann, ANN}
    Accounts = {a}
    NormalLogin <- MCNormalLogin
    Ips = {i1, i2}
    Calls = {c1, c2}
    AccountLimit = 1
    IpLimit = 2
    Window = 1
    BaseLockout = 1
    MaxLockout = 2
    MaxAccounts = 1
    MaxIps = 1
    PruneEvery = 2
    TicksPerMilli = 2
    MillisPerSecond = 1
    MaxRetry = 4
    Instants = {1, 2, 4, 5, 9}
SYMMETRY Symmetry
INVARIANTS NoGuessDuringLock RetryIsEnough
PROPERTIES LockHolds LockoutDoubles
