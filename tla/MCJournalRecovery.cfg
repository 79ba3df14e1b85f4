SPECIFICATION RSpec
CONSTANTS
    Kinds <- MCKinds
    Names <- MCNames
    LongNames = {}
    MaxDictEntries = 2
    MaxEventsPerChunk = 2
    MaxEventPayload = 3
    MaxChunkPayload = 5
    PartialWrites = TRUE
    InternInputs <- MCInternInputs
    EventInputs <- MCEventInputs
    MaxEvents = 3
    MaxFaults = 1
INVARIANTS NeverRejects ReadsPrefix ReadsStable
CHECK_DEADLOCK FALSE
