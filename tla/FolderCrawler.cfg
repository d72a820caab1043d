CONSTANTS
    Workers = {w1, w2}
    First = w1
    Dirs <- TreeDirs
    Files <- TreeFiles
    Root = "root"
    Parent <- TreeParent
    BatchSize = 2
    MaxFaults = 1
SPECIFICATION Spec
INVARIANTS
    NoFalseZero
    FoundIsIndexed
    TakenOnce
PROPERTIES
    CrawlEnds
CHECK_DEADLOCK FALSE
