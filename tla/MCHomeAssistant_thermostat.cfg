SPECIFICATION FairSpec
CONSTANTS
    Junk = Junk
    NoMapping = NoMapping
    NoRequest = NoRequest
    Entities <- MCEntities
    Requests <- MCRequests
    ConfirmAttempts = 2
    MaxChanges = 2
    MaxTroubles = 2
    MaxCommands = 1
INVARIANTS
    TypeOK
    HeldIsCurrent
    AppliedWasSeen
PROPERTY CatchesUp
CHECK_DEADLOCK FALSE
