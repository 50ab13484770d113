\* One failing store call during checkLoginLimit.
CONSTANTS
    u1 = u1
    u2 = u2
    p1 = p1
    p2 = p2
    Users = {u1}
    Platforms = {p1}
    LoginLimit <- LimitOnlyOne
    MaxSigns = 2
    AccessTTL = 1
    RefreshTTL = 2
    MaxTime = 2
    MaxStoreFailures = 1
    CtxCancelledOnReturn = FALSE
    RefreshKeyedByTokenID = FALSE
    VerifiedKinds = {"access", "refresh"}
SPECIFICATION Spec
INVARIANT
    LimitWriteAttempted
