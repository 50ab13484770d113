\* Every configuration of two servers and every construction outcome, then
\* the application's Register and Deregister of its own instance of s1
\* (three calls: register, deregister, register again), the resolver
\* watching s1 and two IsFixedEndpoint or GetServiceFixedEndpoint requests.
\* The service stops after a failed Init, and all goroutines finish after
\* Stop.
CONSTANTS
    Servers = {s1, s2}
    NACOS = NACOS
    K8S = K8S
    AppName = s1
    AppId = app
    WatchedName = s1
    MaxAppOps = 3
    MaxReads = 2
SPECIFICATION Spec
INVARIANTS
    TypeOK
    FixedEndpointFound
    FirstNextOnly
PROPERTIES
    WatcherReleasedByStop
CHECK_DEADLOCK FALSE
