CONSTANTS
    Callers = {ui, reader}
    MaxRows = 2
    MaxGen = 3
    MaxLog = 3
SPECIFICATION Spec
INVARIANTS
    ReadyMeansExact
PROPERTIES
    BuildSettles
CHECK_DEADLOCK FALSE
