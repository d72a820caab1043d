CONSTANTS
    Records = {r1, r2, r3}
    Names = {a, b}
    MaxParentWalk = 4
    MaxOps = 5
    MaxBuffer = 4
SPECIFICATION Spec
SYMMETRY Symmetry
INVARIANTS
    TypeOK
    ConvergesUnlessMisread
    BareNamesWait
    PathsFollowParents
    WaitersArePlaceholders
CHECK_DEADLOCK FALSE
