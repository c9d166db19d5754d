SPECIFICATION Spec
CONSTANTS
    c1 = c1
    c2 = c2
    c3 = c3
    d1 = d1
    d2 = d2
    Cmds = {c1, c2, c3}
    Devices = {d1, d2}
    NoLock = NoLock
    Requests <- PowerRequests
    Capabilities <- AllCapabilities
    Ranges <- NoRanges
    Boot <- PowerBoot
    Reachability = {"ONLINE"}
    MaxLocks = 2
    MaxTracked = 2
SYMMETRY Symmetric
INVARIANTS
    TypeOK
    NoOverlappingWrites
PROPERTIES
    ForgottenOnlyWhenFull
    ServesInOrder
