SPECIFICATION SuiteSpec
CHECK_DEADLOCK FALSE
CONSTANTS
    RingValues = {f1, f2}
    RingCapacity = 3
    RingSlots = 4
    RingCursors = 8
    MaxBatch = 3
INVARIANTS
    SlotsOwned
    HostTypeOK
    RecordsTrue
    GuestOutcome
    ManifestSound
    ClientsServed
