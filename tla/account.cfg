SPECIFICATION SubjectSpec
CONSTANTS
    r1 = r1
    r2 = r2
    pw1 = pw1
    pw2 = pw2
    google = google
    apple = apple
    NoPassword = NoPassword
    Requests <- TwoRequests
    Passwords <- OnePassword
    Providers <- OneProvider
    Handlers <- AllHandlers
    MinCode = 10
    MaxCode = 11
    MaxAttempts = 2
    MaxIds = 2
    CanFail = TRUE
SYMMETRY Symmetry
CHECK_DEADLOCK FALSE
INVARIANTS
    AuthInv
    TombstoneScrubbedUnlessCrowded
    PasswordConfirmedUnlessStray
    NoAccessWithoutEvidence
PROPERTIES
    VerifiedNeverRemoved
    ImplementsLifecycle
    OnlyActivationRevives
    ResendReplacesCodeUnlessOutdated
