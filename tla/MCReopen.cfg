SPECIFICATION Spec
CONSTANTS
    None = None
    Agents = {me}
    Me = me
    FileNames = {f, g}
    Kinds <- MCKinds
    Names <- MCNames
    LongNames = {}
    MaxDictEntries = 1
    MaxEventsPerChunk = 2
    MaxEventPayload = 1
    MaxChunkPayload = 2
    PartialWrites = FALSE
    InternInputs <- MCInternInputs
    EventInputs <- MCEventInputs
    MaxEvents = 2
    MaxSessions = 2
    MaxFaults = 0
PROPERTY AckedSurviveOpen
CHECK_DEADLOCK FALSE
