SPECIFICATION SuiteSpec
CHECK_DEADLOCK FALSE
CONSTANTS
    Values = {a1, a2}
    Capacity = 3
    SlotCount = 4
    CursorSpace = 8
    EventBudget = 1
    StepBudget = 2
    ByteBudget = 3
    BufferCount = 1
    ReadCapacity = 2
    QueueCapacity = 1
    MaxPending = 2
    Streams = {s1}
    Others = {u1}
    EventCapacity = 1
    MaxRegistrations = 2
INVARIANTS
    SlotsSound
    TurnHonest
    EdgesDelivered
    NetTypeOK
    NoLostWakeup
    StreamsIntact
    MessagesFramed
PROPERTY ImplementsQueue
