SPECIFICATION Spec
CONSTANTS
    None = None
    Undeclared = Undeclared
    Procs = {p1, p2}
    RustProcs = {p1}
    Sessions = {s1, s2}
    Captured = {s1}
    Stem <- MCStem
    MaxChanges = 2
    MaxTime = 2
    MaxCalls = 2
    RequiredKeys <- MCRequiredKeys
    OptionalKeys <- MCOptionalKeys
    ConfigInputs <- MCConfigInputs
    RegistryDocs <- MCRegistryDocs
    Payloads <- MCPayloads
    ConfigFiles <- MCConfigFiles
INVARIANTS IndexTrue AnswerTrue ConfigTrue CatalogTrue
PROPERTY RequestAnswered
CHECK_DEADLOCK FALSE
