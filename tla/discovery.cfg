SPECIFICATION Spec
CONSTANTS
    u1 = u1
    u2 = u2
    c1 = c1
    c2 = c2
    Members <- TwoMembers
    Calls <- TwoCalls
    Fields <- ThreeFields
    Lists <- ArrayFields
    Sections <- TwoSections
    Patches <- ThreePatches
    Handlers <- AllHandlers
CONSTRAINT OneSubject
SYMMETRY Symmetry
INVARIANTS
    DiscoveryInv
    OnboardedUnlessOverlap
    SentinelNeverDiscovered
    SavedNotBlockedUnlessOverlap
    NoticedOnceUnlessOverlap
CHECK_DEADLOCK FALSE
