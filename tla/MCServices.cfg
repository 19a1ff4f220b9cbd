SPECIFICATION SuiteSpec
CHECK_DEADLOCK FALSE
CONSTANTS
    MaxStarts = 2
    MaxVmCrashes = 1
    MaxRetries = 5
    MaxNetworks = 2
    MaxEvents = 2
    RingCapacity = 1
    ChannelCapacity = 1
    CommandCapacity = 1
    Steps = 2
    RetryDelay = 1
    RetryMaxDelay = 2
    BootInbox = 2
    MaxGenerations = 2
    MaxFailures = 3
    MaxCrashes = 1
    CredTasks = {1, 2}
    CredCapacity = 1
    MaxIssued = 3
    MaxCredFaults = 1
    RouteInstances = {1, 2}
    RouteKeys = {"p", "q"}
    ServeAttempts = 2
    MaxUpdates = 3
    MaxServeFaults = 1
    Prs = {"p"}
    AgentSessions = {"s", "t"}
    PrTasks = {1}
    MaxPrEvents = 2
    MaxPrCalls = 2
    MaxPrFaults = 1
INVARIANTS
    MachinesSound
    OneNetwork
    ProgressTrue
    SignInKept
    RoutesRecorded
    EventsToldOnce
    ServicesTypeOK
    AnswersAdmitted
