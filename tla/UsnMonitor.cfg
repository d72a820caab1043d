CONSTANTS
    QueueSize = 1
    MaxErrors = 2
    MaxRecords = 3
    MaxStarts = 1
    MayThrow = TRUE
    StopsFirst = TRUE
SPECIFICATION Spec
INVARIANTS
    NothingSkipped
    NoSilentStop
    NoSilentStall
    NoHandleLeak
    QueueOutlivesWorkers
    PopulationEnds
PROPERTIES
    CallsReturn
    CatchesUp
