SPECIFICATION MailSpec
CONSTANTS
    Agents = {a1, a2}
    Owners = {o1, o2}
    Runtimes = {r1}
    Conversations = {c1}
    Reports = {done}
    Messages = {}
    NoOwner = NoOwner
    NoRuntime = NoRuntime
    NoConversation = NoConversation
    NoReport = NoReport
    LeaseDuration = 1
    MaxActiveAgentsPerConversation = 1
    MaxActiveAgentsTotal = 1
    MaxGeneration = 2
    MaxTime = 1
    MaxMessageId = 0
    Earlier = {a1}
    Waited = {a1}
SYMMETRY Symmetry
INVARIANTS
    MailTellsTheOutcome
    WaitedOutcomesStayRead
PROPERTIES
    EndedRunsAreReported
    FirstStartsAreAnnounced
    RecipientsAreTheTeam
    ReceiptsAreExact
