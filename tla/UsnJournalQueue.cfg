CONSTANTS
    Producers = {p}
    Consumers = {c}
    Capacity = 2
    MaxBuffers = 8
SPECIFICATION Spec
INVARIANTS
    WakeupNotLost
PROPERTIES
    ImplementsChannel
