SPECIFICATION Spec
CONSTANTS
    a1 = a1
    a2 = a2
    a3 = a3
    b1 = b1
    b2 = b2
    b3 = b3
    c1 = c1
    c2 = c2
    None = None
    Photos <- ThreePhotos
    Pictures <- ThreePictures
    Calls <- TwoCalls
    Handlers <- AllHandlers
    Limit = 2
    AutoApproved = FALSE
CONSTRAINT OneSubject
SYMMETRY Symmetry
INVARIANTS
    MediaInv
    GalleryLimit
    ApprovedPhotosReviewed
    PictureReviewedUnlessReplaced
    PictureHasFileUnlessFailed
    GalleryHasFilesUnlessOverlap
PROPERTIES
    ImplementsMemberMedia
CHECK_DEADLOCK FALSE
