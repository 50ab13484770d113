\* Two sign-ins of an ONLY_ONE account whose goroutines run in either order.
CONSTANTS
    u1 = u1
    u2 = u2
    p1 = p1
    p2 = p2
    Users = {u1}
    Platforms = {p1}
    LoginLimit <- LimitOnlyOne
    MaxSigns = 2
    AccessTTL = 1
    RefreshTTL = 2
    MaxTime = 2
    MaxStoreFailures = 0
    CtxCancelledOnReturn = FALSE
    RefreshKeyedByTokenID = FALSE
    VerifiedKinds = {"access", "refresh"}
SPECIFICATION Spec
INVARIANT
    NewestSessionSurvives
