SPECIFICATION Spec
CONSTANTS
    u1 = u1
    u2 = u2
    k1 = k1
    k2 = k2
    m1 = m1
    m2 = m2
    c1 = c1
    c2 = c2
    Users <- TwoUsers
    RequestIds <- TwoRequests
    RoomIds <- TwoRooms
    Calls <- TwoCalls
    Handlers <- AllHandlers
CONSTRAINT OneSubject
SYMMETRY Symmetry
INVARIANTS
    ChatInv
    OnePendingUnlessOverlap
    OneRoomUnlessOverlap
    AnsweredOnce
    GreetingArrivesUnlessFailed
PROPERTIES
    AnswerStandsUnlessOverlap
    ImplementsIntroductions
CHECK_DEADLOCK FALSE
