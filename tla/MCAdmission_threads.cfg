SPECIFICATION Spec
CONSTANTS
    w1 = w1
    w2 = w2
    Workers = {w1, w2}
    Clients = {c1}
    Nobody = Nobody
    Peers = {p1, p2}
    MaxOutstanding = 1
    TTL = 1
    Burst = 2
    Cost = 1
    MaxKeys = 1
    MaxTime = 1
    MaxClockSteps = 2
    MaxRequests = 4
SYMMETRY Symmetric
INVARIANTS
    TypeOK
    TicketsHonoured
    NeverRefusedEarly
CHECK_DEADLOCK FALSE
