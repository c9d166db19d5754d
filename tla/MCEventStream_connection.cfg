SPECIFICATION FairSpec
CONSTANTS
    d1 = d1
    d2 = d2
    Devices = {d1, d2}
    Sentinel = Sentinel
    QueueSize = 2
    Burst = 2
    WireSize = 1
    MaxChanges = 2
INVARIANTS
    TypeOK
    NoSilentLoss
PROPERTIES
    ChangesAreTold
    HandlerReturns
