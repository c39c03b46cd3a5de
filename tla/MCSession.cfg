SPECIFICATION RuntimeSpec
CONSTANTS
    Agents = {a1}
    Owners = {o1}
    Runtimes = {r1}
    Conversations = {c1, c2}
    Reports = {done}
    Messages = {}
    NoOwner = NoOwner
    NoRuntime = NoRuntime
    NoConversation = NoConversation
    NoReport = NoReport
    LeaseDuration = 1
    MaxActiveAgentsPerConversation = 1
    MaxActiveAgentsTotal = 1
    MaxGeneration = 2
    MaxTime = 0
    MaxMessageId = 0
    ForkAgents = {}
    MayCrash = {}
    MayShutDown = {r1}
    EarlyInitialize = FALSE
    StoreFails = TRUE
    ClockGoesBack = FALSE
    LastRenewal = 0
SYMMETRY Symmetry
INVARIANTS
    ShutdownLeavesNothing
    ShutdownStopsWhatItAwaits
    LaunchedAgentsStay
    WorkersAreWatched
PROPERTIES
    ClaimOutlivesClient
