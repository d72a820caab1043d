SPECIFICATION Spec
CONSTANTS
    MaxSearches = 3
    Tasks = 2
    CanThrow = TRUE
INVARIANTS
    TypeOK
    SupersededScanCancelled
PROPERTIES
    ImplementsSearchService
    CancelHitsOnlyCurrent
    DestructorTerminates
