SPECIFICATION FairRuntimeSpec
CONSTANTS
    Agents = {a1}
    Owners = {o1}
    Runtimes = {r1}
    Conversations = {c1}
    Reports = {done}
    Messages = {}
    NoOwner = NoOwner
    NoRuntime = NoRuntime
    NoConversation = NoConversation
    NoReport = NoReport
    LeaseDuration = 1
    MaxActiveAgentsPerConversation = 1
    MaxActiveAgentsTotal = 1
    MaxGeneration = 1
    MaxTime = 1
    MaxMessageId = 0
    ForkAgents = {a1}
    MayCrash = {}
    MayShutDown = {r1}
    EarlyInitialize = FALSE
    StoreFails = FALSE
    ClockGoesBack = TRUE
    LastRenewal = 1
PROPERTIES
    CancellationFinishes
    ShutdownFinishes
    StaleWorkersStop
