SPECIFICATION FairSpec
CONSTANTS
    c1 = c1
    c2 = c2
    c3 = c3
    d1 = d1
    d2 = d2
    Cmds = {c1, c2}
    Devices = {d1, d2}
    NoLock = NoLock
    Requests <- HouseRequests
    Capabilities <- HouseCapabilities
    Ranges <- HouseRanges
    Boot <- HouseBoot
    Reachability = {"ONLINE", "OFFLINE"}
    MaxLocks = 2
    MaxTracked = 2
INVARIANTS
    TrailAgrees
    DoorStaysLocked
PROPERTIES
    
    EveryCommandSettles
