\* The ctx of the sign-in request is cancelled when the request returns.
CONSTANTS
    u1 = u1
    u2 = u2
    p1 = p1
    p2 = p2
    Users = {u1}
    Platforms = {p1}
    LoginLimit <- LimitOnlyOne
    MaxSigns = 2
    AccessTTL = 1
    RefreshTTL = 2
    MaxTime = 2
    MaxStoreFailures = 0
    CtxCancelledOnReturn = TRUE
    RefreshKeyedByTokenID = FALSE
    VerifiedKinds = {"access", "refresh"}
SPECIFICATION Spec
PROPERTY
    LimitEventuallyEnforced
