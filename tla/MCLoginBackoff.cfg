SPECIFICATION Spec
CONSTANTS
    Logins = {ann, ANN}
    Accounts = {a}
    NormalLogin <- MCNormalLogin
    Ips = {i1}
    Calls = {c1}
    AccountLimit = 2
    IpLimit = 9
    Window = 1
    BaseLockout = 1
    MaxLockout = 2
    MaxAccounts = 1
    MaxIps = 1
    PruneEvery = 256
    TicksPerMilli = 1
    MillisPerSecond = 1
    MaxRetry = 9
    Instants = {1, 2, 3, 4, 5}
SYMMETRY Symmetry
PROPERTIES ResetNeedsQuiet
