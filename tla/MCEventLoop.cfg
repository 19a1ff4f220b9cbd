SPECIFICATION LoopSpec
CONSTANTS
    MaxGeneration = 2
    MaxUpdates = 1
INVARIANTS
    LoopTypeOK
    GuestFramesCurrent
    WaitsAreBounded
PROPERTIES
    StopEnds
    ImplementsLifecycle
CHECK_DEADLOCK FALSE
