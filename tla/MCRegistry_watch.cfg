\* One Register of s1 after the resolver's first Next, and no Stop: the
\* resolver goroutine is left blocked in Next.
CONSTANTS
    Servers = {s1}
    NACOS = NACOS
    K8S = K8S
    AppName = s1
    AppId = app
    WatchedName = s1
    MaxAppOps = 1
    MaxReads = 0
SPECIFICATION Spec
PROPERTIES
    RegistrationEventuallyListed
CHECK_DEADLOCK FALSE
