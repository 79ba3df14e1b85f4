SPECIFICATION Spec
CONSTANTS
    Kinds <- MCKinds
    Names <- MCNames
    LongNames <- MCLongNames
    MaxDictEntries = 1
    MaxEventsPerChunk = 2
    MaxEventPayload = 3
    MaxChunkPayload = 5
    PartialWrites = FALSE
    InternInputs <- MCInternInputs
    EventInputs <- MCEventInputs
    MaxEvents = 3
    MaxFaults = 1
INVARIANTS TypeOK RecoverablePrefix RefsRecoverable StableRecoverable
    NothingLostWhileOpen DictionaryConsistent IndInv
PROPERTY ImplementsLog
CHECK_DEADLOCK FALSE
