SPECIFICATION Spec
CONSTANTS
    MaxSearches = 4
    Faulty = FALSE
    MaxActs = 3
    MaxMutations = 1
    MaxBuilds = 1
INVARIANTS
    ClearedStaysCleared
    SettledShowsCriteria
PROPERTIES
    ShowsOnlyLatest
    ComesToRest
    RefreshCatchesUp
