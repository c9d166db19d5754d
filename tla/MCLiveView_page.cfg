SPECIFICATION FairSpec
CONSTANTS
    Nothing = Nothing
    ResyncRequired = ResyncRequired
    Sockets = {s1, s2}
    MaxSessions = 2
    MaxChanges = 1
    MaxBurst = 2
    MaxTroubles = 2
    MaxPresses = 2
    MaxDials = 2
    MaxFetches = 1
    QueueSize = 1
    WireSize = 1
INVARIANTS
    TypeOK
    DivergesOnlyWithExcuse
    LastPressWins
    OneCommandInFlight
PROPERTIES
    StoppedStaysStopped
    Reconnects
    ControlSettles
CHECK_DEADLOCK FALSE
