SPECIFICATION Spec
CONSTANTS
    r1 = r1
    r2 = r2
    pw1 = pw1
    pw2 = pw2
    google = google
    apple = apple
    NoPassword = NoPassword
    Requests <- TwoRequests
    Passwords <- OnePassword
    Providers <- TwoProviders
    Handlers <- SocialHandlers
    MinCode = 10
    MaxCode = 11
    MaxAttempts = 2
    MaxIds = 1
    CanFail = FALSE
SYMMETRY Symmetry
CHECK_DEADLOCK FALSE
INVARIANTS
    AccountsLinked
