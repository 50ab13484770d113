\* A PLATFORM_ONE account signing in from two platforms, with store calls that
\* fail and request contexts cancelled when SignToken returns.
CONSTANTS
    u1 = u1
    u2 = u2
    p1 = p1
    p2 = p2
    Users = {u1}
    Platforms = {p1, p2}
    LoginLimit <- LimitPlatformOne
    MaxSigns = 2
    MaxStoreFailures = 1
    CtxCancelledOnReturn = TRUE
    RefreshKeyedByTokenID = FALSE
    VerifiedKinds = {"access"}
    AccessTTL = 1
    RefreshTTL = 2
    MaxTime = 2
SPECIFICATION Spec
INVARIANTS
    SiblingRevokedTogether
    RevokedOnlyByPolicy
PROPERTIES
    PrunesOnlyUndecodable
    ImplementsLoginSessions
