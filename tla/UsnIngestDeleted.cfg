CONSTANTS
    Records = {r1, r2, r3}
    Names = {a, b}
    MaxParentWalk = 4
    MaxOps = 3
    MaxBuffer = 4
SPECIFICATION Spec
INVARIANTS
    ShowsVolume
CHECK_DEADLOCK FALSE
