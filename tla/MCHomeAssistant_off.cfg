SPECIFICATION Spec
CONSTANTS
    Junk = Junk
    NoMapping = NoMapping
    NoRequest = NoRequest
    Entities <- MCEntities
    Requests <- MCRequests
    ConfirmAttempts = 2
    MaxChanges = 1
    MaxTroubles = 0
    MaxCommands = 0
INVARIANT OffIsNotHeating
CHECK_DEADLOCK FALSE
