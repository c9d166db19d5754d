SPECIFICATION FairSpec
CONSTANTS
    b1 = b1
    b2 = b2
    k1 = k1
    k2 = k2
    k3 = k3
    Blocks = {b1, b2}
    NoBlock = NoBlock
    Conns = {k1, k2, k3}
    NoConn = NoConn
    ConfirmAttempts = 1
    MaxCommands = 0
    MaxTroubles = 1
PROPERTIES
    RegistryCatchesUp
