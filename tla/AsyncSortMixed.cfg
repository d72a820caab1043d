SPECIFICATION Spec
CONSTANTS
    NumFiles = 3
    BatchSize = 2
    MaxClicks = 2
    MaxSearches = 2
INVARIANTS
    RowsShowTheirOwnSize
CHECK_DEADLOCK FALSE
