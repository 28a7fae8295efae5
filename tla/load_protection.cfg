SPECIFICATION Spec
CONSTANTS
    w1 = w1  w2 = w2  a1 = a1  a2 = a2
    None = None
    Worker <- TwoWorkers
    Addr <- TwoAddresses
    CookieRefreshTime = 1
    Burst = 2
    MaxTime = 2
    MaxMessages = 2
    MaxSecrets = 2
    MaxKeys = 2
INVARIANTS
    CookieFromItsAddress
    TickerWatchesTable
    BurstPerEntry
PROPERTIES
    CookieNeverOlder
SYMMETRY AllAlike
CHECK_DEADLOCK FALSE
