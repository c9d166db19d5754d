SPECIFICATION MCSpec
CONSTANTS
    ProfileError = ProfileError
    Rejected = Rejected
    Unreadable = Unreadable
    Nowhere = Nowhere
    Junk = Junk
    NoMapping = NoMapping
    Answers <- MCAnswers
    Writes <- MCWrites
    Offers <- MCOffers
    Sendable <- MCSendable
    Garbage <- MCGarbage
    ChunkSizes <- MCChunkSizes
    MaxFrames = 5
INVARIANTS
    WriteArrivesAsMeant
    SetpointStaysInRange
    OfferedIsAnswered
    WireIsExact
CHECK_DEADLOCK FALSE
