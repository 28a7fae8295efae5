SPECIFICATION Spec
CONSTANTS
    p1 = p1  p2 = p2  p3 = p3  Nil = Nil
    Peer <- ThreePeers
    Family <- OneFamily
    Width = 2
    MaxPeers = 2
    AllowedIp <- Some
    Intervals <- Off
INVARIANTS
    TrieShape
    LongestPrefixWins
    RoutesToConfiguredPeers
    AcceptedPeersRun
PROPERTIES
    ImplementsRoutes
SYMMETRY Symmetry
