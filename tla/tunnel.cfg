SPECIFICATION FairSpec
CONSTANTS
    d1 = d1  d2 = d2
    wifi = wifi  mobile = mobile
    App = App
    Daemon <- TwoDaemons
    Gateway <- OneGateway
    MaxClicks = 3
    MaxMoves = 0
    Modes <- BothModes
    MayFail = TRUE
PROPERTIES
    DisconnectEndsAll
CHECK_DEADLOCK FALSE
