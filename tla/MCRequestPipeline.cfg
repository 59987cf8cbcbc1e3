SPECIFICATION FairSpec
CONSTANTS
    TrustedNetworks <- MCNetworks
    MaxHeaderBytes = 8
    MaxHops = 3
    Decodes <- MCDecodes
    Undecodable = Undecodable
    MaxRequests = 1
    Window = 2
    MaxBuckets = 2
    CleanupEvery = 2
    RegistrationEnabled = TRUE
    MetricsAuthentication = TRUE
    Threads = {t1, t2}
    Workloads <- MCWorkloads
    ValidIds = {"mine"}
    AllowedOrigins = {"https://a"}
    AllowedHeaders = {"content-type"}
    PathIntegers = {"1"}
    RawTexts = {"raw"}
    HstsEnabled = TRUE
    MaxPage = 2
    MaxTime <- MCMaxTime
    None = None
INVARIANTS ClientIsLastUntrusted RoutedAsRegistered BurstBounded EventsNameTheirRequest
    ChangesAreRecorded PagesMissNothing
PROPERTIES EveryRequestAnswered
CHECK_DEADLOCK FALSE
