SPECIFICATION PumpSpec
CONSTANTS
    Agents = {a1}
    Owners = {o1}
    Runtimes = {r1}
    Conversations = {c1}
    Reports = {done}
    Messages = {m1, m2}
    NoOwner = NoOwner
    NoRuntime = NoRuntime
    NoConversation = NoConversation
    NoReport = NoReport
    LeaseDuration = 1
    MaxActiveAgentsPerConversation = 1
    MaxActiveAgentsTotal = 1
    MaxGeneration = 2
    MaxTime = 1
    MaxMessageId = 2
    Busy = TRUE
    MaxLostReplies = 2
SYMMETRY Symmetry
INVARIANTS
    DeliveredInOrder
    DeliveredOnce
PROPERTIES
    DeletedOnlyIfAccepted
