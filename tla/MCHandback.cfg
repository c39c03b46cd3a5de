SPECIFICATION RuntimeSpec
CONSTANTS
    Agents = {a1}
    Owners = {o1}
    Runtimes = {r1}
    Conversations = {c1}
    Reports = {done}
    Messages = {}
    NoOwner = NoOwner
    NoRuntime = NoRuntime
    NoConversation = NoConversation
    NoReport = NoReport
    LeaseDuration = 1
    MaxActiveAgentsPerConversation = 1
    MaxActiveAgentsTotal = 1
    MaxGeneration = 2
    MaxTime = 1
    MaxMessageId = 0
    ForkAgents = {a1}
    MayCrash = {r1}
    MayShutDown = {r1}
    EarlyInitialize = FALSE
    StoreFails = FALSE
    ClockGoesBack = FALSE
    LastRenewal = 1
SYMMETRY Symmetry
INVARIANTS
    ForgottenClaimsAreReleased
