SPECIFICATION Spec
CONSTANTS
    Kinds <- MCKinds
    Names <- MCNames
    LongNames <- MCLongNames
    MaxDictEntries = 2
    MaxEventsPerChunk = 2
    MaxEventPayload = 3
    MaxChunkPayload = 5
    PartialWrites = TRUE
    InternInputs <- MCFewInterns
    EventInputs <- MCFewEvents
    MaxEvents = 3
    MaxFaults = 1
INVARIANT StableRecoverable
CHECK_DEADLOCK FALSE
