SPECIFICATION Spec
CONSTANTS
    None = None
    Agents = {me, a, b}
    Me = me
    FileNames = {f, g}
    Kinds <- MCKinds
    Names <- MCNames
    LongNames = {}
    MaxDictEntries = 1
    MaxEventsPerChunk = 2
    MaxEventPayload = 1
    MaxChunkPayload = 2
    PartialWrites = FALSE
    InternInputs <- MCInternInputs
    EventInputs <- MCEventInputs
    MaxEvents = 1
    MaxSessions = 2
    MaxFaults = 1
INVARIANTS PromisedReadable AckedNotLost RaceHasWinner
PROPERTIES FrameServed AgentEnds
CONSTRAINT OneAtATime
CHECK_DEADLOCK FALSE
