-------------------------- MODULE RegistrySelection --------------------------
(***************************************************************************)
(* registrypkg.Init (src/registry/registry.go) and the two package globals *)
(* it sets.  Init builds the local registry from the                       *)
(* configured local and remote servers, then picks the default registry:   *)
(* the local one when local servers are configured, else a nacos or a k8s  *)
(* registry, whose construction may fail.  k8s.NewRegistry starts one      *)
(* informer client for discovery and another for registration.            *)
(* A server is a model value; its address is the server itself; the gRPC  *)
(* name of service s is <<s, "grpc">>.                                     *)
(***************************************************************************)
EXTENDS Naturals

CONSTANTS
    Servers,   \* configured server names
    NACOS, K8S

NilConf == [nil |-> TRUE]

\* The *config.Registry values: nil, or lists of local and remote servers and
\* a registry type.
Configs ==
    {NilConf} \cup
    {c \in [nil : {FALSE}, local : SUBSET Servers, remote : SUBSET Servers,
            type : {NACOS, K8S}] : c.local \cap c.remote = {}}

GrpcName(s) == <<s, "grpc">>

VARIABLES
    conf,             \* the config Init was called with
    localRegistry,    \* [isNil, services]: the local registry, its services name -> address
    defaultRegistry,  \* "nil", "local", NACOS or K8S
    initResult,       \* "none" before Init, then "ok" or "error"
    running,          \* k8s informer clients started
    held              \* of those, the clients defaultRegistry refers to

vars == <<conf, localRegistry, defaultRegistry, initResult, running, held>>

Init ==
    /\ conf = NilConf
    /\ localRegistry = [isNil |-> TRUE, services |-> [n \in {} |-> n]]
    /\ defaultRegistry = "nil"
    /\ initResult = "none"
    /\ running = 0
    /\ held = 0

\* local.NewRegistry: each server under its name and its gRPC name.
NewRegistry(servers) ==
    [n \in servers \cup {GrpcName(s) : s \in servers} |->
        IF n \in servers THEN n ELSE n[1]]

\* NewLocal: the local and the remote servers of a non-nil config.
NewLocal(c) ==
    NewRegistry(IF c.nil THEN {} ELSE c.local \cup c.remote)

\* nacos.NewRegistry: defaults the host and port of the config, then builds
\* a naming client, which may fail; the registry wraps the client.
NacosNewRegistry(clientOk) == IF clientOk THEN NACOS ELSE "nil"

\* NewNacos: nacos.NewRegistry, its error returned as is.
NewNacos(clientOk) == NacosNewRegistry(clientOk)

\* getK8sClientSet: the in-cluster config, else ~/.kube/config, then
\* kubernetes.NewForConfig; each of these may fail, so a call returns a
\* client set (TRUE) or an error (FALSE).
K8sClientSetOutcomes == BOOLEAN

\* getDiscovery and getRegistrar: a client set, and when there is one an
\* informer client built on it and started (r.Start()).
GetDiscovery(clientSetOk) ==
    [ok |-> clientSetOk, started |-> IF clientSetOk THEN 1 ELSE 0]
GetRegistrar(clientSetOk) ==
    [ok |-> clientSetOk, started |-> IF clientSetOk THEN 1 ELSE 0]

\* k8s.NewRegistry: getDiscovery, and only when it succeeds getRegistrar;
\* an error of either is returned, dropping the registry built so far.
K8sNewRegistry(discoveryOk, registrarOk) ==
    LET d == GetDiscovery(discoveryOk)
        r == IF discoveryOk THEN GetRegistrar(registrarOk)
             ELSE [ok |-> FALSE, started |-> 0]
    IN  [ok |-> d.ok /\ r.ok, started |-> d.started + r.started]

\* NewK8S: k8s.NewRegistry, its error returned as is.
NewK8S(discoveryOk, registrarOk) == K8sNewRegistry(discoveryOk, registrarOk)

\* Init after NewLocal: the local registry when the config lists local
\* servers, else nacos when the type says so, else k8s; a constructor's error
\* is returned and leaves defaultRegistry as it was.
SelectDefault(c, nacosOk, discoveryOk, registrarOk) ==
    LET k8s   == NewK8S(discoveryOk, registrarOk)
        nacos == NewNacos(nacosOk)
    IN
    CASE ~c.nil /\ c.local # {} ->
           /\ defaultRegistry' = "local" /\ initResult' = "ok"
           /\ UNCHANGED <<running, held>>
      [] ~c.nil /\ c.type = NACOS ->
           /\ defaultRegistry' = IF nacos # "nil" THEN nacos ELSE defaultRegistry
           /\ initResult' = IF nacos # "nil" THEN "ok" ELSE "error"
           /\ UNCHANGED <<running, held>>
      [] OTHER ->
           /\ running' = running + k8s.started
           /\ defaultRegistry' = IF k8s.ok THEN K8S ELSE defaultRegistry
           /\ held' = IF k8s.ok THEN k8s.started ELSE held
           /\ initResult' = IF k8s.ok THEN "ok" ELSE "error"

\* Init assigning localRegistry only once the default registry is built.
InitRegistryLocalOnSuccess(c, nacosOk, discoveryOk, registrarOk) ==
    /\ initResult = "none"
    /\ conf' = c
    /\ SelectDefault(c, nacosOk, discoveryOk, registrarOk)
    /\ localRegistry' = IF initResult' = "ok"
                        THEN [isNil |-> FALSE, services |-> NewLocal(c)]
                        ELSE localRegistry

\* Init, called once at start-up, with the outcome of the client
\* constructions it makes: localRegistry is assigned before the default
\* registry is chosen, so it is set even when Init returns an error.
InitRegistry(c, nacosOk, discoveryOk, registrarOk) ==
    /\ initResult = "none"
    /\ conf' = c
    /\ localRegistry' = [isNil |-> FALSE, services |-> NewLocal(c)]
    /\ SelectDefault(c, nacosOk, discoveryOk, registrarOk)

Next ==
    \E c \in Configs, nacosOk \in BOOLEAN,
      discoveryOk, registrarOk \in K8sClientSetOutcomes :
        InitRegistry(c, nacosOk, discoveryOk, registrarOk)

Spec == Init /\ [][Next]_vars

=============================================================================
