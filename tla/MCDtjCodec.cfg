SPECIFICATION Spec
CONSTANTS
    Entries <- MCEntries
    Payloads <- MCPayloads
    MaxDictEntries = 2
    MaxNameLen = 3
    MaxFields = 2
    MaxBytesValue = 2
INVARIANTS RustRoundTrip PrefixRejected
CHECK_DEADLOCK FALSE
