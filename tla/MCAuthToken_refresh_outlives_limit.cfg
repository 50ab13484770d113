\* Three sign-ins of a PLATFORM_ONE account across the expiry of the first
\* access token, with every checkLoginLimit goroutine finishing before the
\* clock ticks or the next sign-in starts; access and refresh claims verified.
CONSTANTS
    u1 = u1
    u2 = u2
    p1 = p1
    p2 = p2
    Users = {u1}
    Platforms = {p1, p2}
    LoginLimit <- LimitPlatformOne
    MaxSigns = 3
    AccessTTL = 1
    RefreshTTL = 2
    MaxTime = 2
    MaxStoreFailures = 0
    CtxCancelledOnReturn = FALSE
    RefreshKeyedByTokenID = FALSE
    VerifiedKinds = {"access", "refresh"}
SPECIFICATION Spec
ACTION_CONSTRAINT PromptGoroutines
INVARIANT
    SettledWithinLimitAnyToken
