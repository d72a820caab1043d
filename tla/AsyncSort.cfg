SPECIFICATION Spec
CONSTANTS
    NumFiles = 3
    BatchSize = 2
    MaxClicks = 2
    MaxSearches = 2
INVARIANTS
    TypeOK
    DrainedBeforeReuse
    OnlyReorderingMixesRows
    SettledInOrder
PROPERTIES
    ComesToRest
CHECK_DEADLOCK FALSE
