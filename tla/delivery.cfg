SPECIFICATION Spec
CONSTANTS
    u1 = u1
    u2 = u2
    s1 = s1
    s2 = s2
    m1 = m1
    m2 = m2
    q1 = q1
    n1 = n1
    i1 = i1
    i2 = i2
    t1 = t1
    t2 = t2
    None = None
    Nobody = None
    Users <- TwoUsers
    Owners <- TwoUsers
    Sockets <- TwoSockets
    MessageIds <- TwoMessages
    ChatEvents <- TwoMessagesOneRequest
    MemberEvents <- OneNotice
    Installations <- TwoInstallations
    Tokens <- TwoTokens
    Attempts = 2
CONSTRAINT Subjects
INVARIANTS
    DeliveryInv
    OnlineHearsUnlessOpening
    LastMessageUnlessOverlap
    PushedOnceUnlessUnanswered
PROPERTIES
    OnlyDeadTokensPrunedUnlessInvalid
    WorkSettles
CHECK_DEADLOCK FALSE
