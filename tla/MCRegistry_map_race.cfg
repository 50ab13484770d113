\* The application's Register overlapping an IsFixedEndpoint request on the
\* unlocked services map, after Init chose the local registry.
CONSTANTS
    Servers = {s1}
    NACOS = NACOS
    K8S = K8S
    AppName = s1
    AppId = app
    WatchedName = s1
    MaxAppOps = 1
    MaxReads = 1
SPECIFICATION Spec
INVARIANTS MapAccessExclusive
CHECK_DEADLOCK FALSE
