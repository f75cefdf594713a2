SPECIFICATION FairSpec
CONSTANTS
    r1 = r1
    r2 = r2
    a1 = a1
    a2 = a2
    Requests <- TwoRequests
    Admins <- TwoAdmins
INVARIANTS
    BanInv
    BanHoldsUnlessFilling
PROPERTIES
    ClosedIsRefused
