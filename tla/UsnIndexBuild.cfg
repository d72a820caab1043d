CONSTANTS
    QueueSize = 1
    MaxErrors = 1
    MaxRecords = 2
    MaxStarts = 1
    MayThrow = FALSE
    StopsFirst = TRUE
SPECIFICATION SessionSpec
INVARIANTS
    StopsSerialized
    FailedBuildStopsMonitor
PROPERTIES
    MonitorQuietWhileCrawling
    BuildEnds
CHECK_DEADLOCK FALSE
