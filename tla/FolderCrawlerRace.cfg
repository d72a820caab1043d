CONSTANTS
    Workers = {w1, w2}
    First = w1
    Dirs <- TreeDirs
    Files <- TreeFiles
    Root = "root"
    Parent <- TreeParent
    BatchSize = 2
    MaxFaults = 0
SPECIFICATION Spec
INVARIANT CompletedListsAll
CHECK_DEADLOCK FALSE
