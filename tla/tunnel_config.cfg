SPECIFICATION Spec
CONSTANTS
    d1 = d1  d2 = d2
    wifi = wifi  mobile = mobile
    App = App
    Daemon <- OneDaemon
    Gateway <- Gateways
    MaxClicks = 3
    MaxMoves = 3
    Modes <- Userspace
    MayFail = TRUE
INVARIANTS
    UpMeansConfigured
CHECK_DEADLOCK FALSE
