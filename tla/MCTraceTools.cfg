SPECIFICATION Spec
CONSTANTS
    None = None
    Lower <- MCLower
    In <- MCIn
    MaxLimit = 5
    MaxOffset = 1
    Blanked <- MCBlanked
    EventPairs <- MCEventPairs
    RedFlags <- MCRedFlags
    EventKinds <- MCEventKinds
    Filters <- MCFilters
    Limits = {1, 2}
    Correlations = {"x", "y"}
    Durations = {"ms"}
    MaxEvents = 4
    MaxBusy = 3
    MaxCaptures = 2
INVARIANTS PagesComplete CategorySpellingOnly SessionsAgree PairsAgree WindowsComplete
    ChainIsHistory SummariesAddUp BaselineTrue
CHECK_DEADLOCK FALSE
