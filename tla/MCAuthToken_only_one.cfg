\* An ONLY_ONE account and an UNLIMITED one, two sign-ins, a reliable store,
\* a ctx that outlives the request.
CONSTANTS
    u1 = u1
    u2 = u2
    p1 = p1
    p2 = p2
    Users = {u1, u2}
    Platforms = {p1}
    LoginLimit <- LimitOnlyOne
    MaxSigns = 2
    MaxStoreFailures = 0
    CtxCancelledOnReturn = FALSE
    RefreshKeyedByTokenID = FALSE
    VerifiedKinds = {"access", "refresh"}
    AccessTTL = 1
    RefreshTTL = 2
    MaxTime = 2
SPECIFICATION Spec
INVARIANTS
    TypeOK
    SettledWithinLimit
PROPERTIES
    LimitEventuallyEnforced
