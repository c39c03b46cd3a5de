SPECIFICATION Spec
CONSTANTS
    Agents = {a1, a2}
    Owners = {o1}
    Runtimes = {r1}
    Conversations = {c1, c2}
    Reports = {done}
    Messages = {m1}
    NoOwner = NoOwner
    NoRuntime = NoRuntime
    NoConversation = NoConversation
    NoReport = NoReport
    LeaseDuration = 1
    MaxActiveAgentsPerConversation = 1
    MaxActiveAgentsTotal = 1
    MaxGeneration = 2
    MaxTime = 1
    MaxMessageId = 2
SYMMETRY Symmetry
INVARIANTS
    HeldMessageIsQueued
    LimitsHold
    GuidanceFollowsTheAgent
PROPERTIES
    GuidanceIsNotLost
