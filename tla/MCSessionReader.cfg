SPECIFICATION Spec
CONSTANTS
    Kinds <- MCKinds
    Names <- MCNames
    LongNames <- MCLongNames
    MaxDictEntries = 2
    MaxEventsPerChunk = 2
    MaxEventPayload = 3
    MaxChunkPayload = 5
    Files <- MCFiles
INVARIANTS TruncationSafe FailClosed TornTailReported
PROPERTY Terminates
CHECK_DEADLOCK FALSE
