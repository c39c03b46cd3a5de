SPECIFICATION Spec
CONSTANTS
    Agents = {a1, a2}
    Owners = {o1}
    Runtimes = {r1, r2}
    Conversations = {c1, c2}
    Reports = {done}
    Messages = {m1}
    NoOwner = NoOwner
    NoRuntime = NoRuntime
    NoConversation = NoConversation
    NoReport = NoReport
    LeaseDuration = 2
    MaxActiveAgentsPerConversation = 2
    MaxActiveAgentsTotal = 2
    MaxGeneration = 2
    MaxTime = 3
    MaxMessageId = 0
SYMMETRY Symmetry
INVARIANTS
    TypeOK
    RowsAgree
    ConversationsAreDistinct
PROPERTIES
    TerminalRunsAreFinal
    ConversationsStick
    FencedSpec
