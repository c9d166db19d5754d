SPECIFICATION FairSpec
CONSTANTS
    b1 = b1
    b2 = b2
    k1 = k1
    k2 = k2
    k3 = k3
    Blocks = {b1, b2}
    NoBlock = NoBlock
    Conns = {k1, k2, k3}
    NoConn = NoConn
    ConfirmAttempts = 2
    MaxCommands = 1
    MaxTroubles = 1
INVARIANTS
    TypeOK
    FreshUnlessCut
PROPERTIES
    EveryReadEnds
    PollCatchesUp
