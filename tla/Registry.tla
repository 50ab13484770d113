------------------------------ MODULE Registry ------------------------------
(***************************************************************************)
(* The registry package as a kratos service uses it: registrypkg.Init     *)
(* (RegistrySelection) runs once at start-up and builds the local registry *)
(* (LocalRegistry) from the configured servers; afterwards                 *)
(*   - the application registers and deregisters its own instance through *)
(*     GetRegistrar(), i.e. defaultRegistry;                               *)
(*   - the discovery resolver watches a service through GetDiscovery();    *)
(*   - requests call IsFixedEndpoint and GetServiceFixedEndpoint, which   *)
(*     always read localRegistry, also after Init has returned an error   *)
(*     (a caller may log the error and keep serving).                     *)
(* Registration and watching reach the local map only when Init chose the *)
(* local registry as the default one; with nacos or k8s they go to those  *)
(* clients, which are not modelled; after a failed Init defaultRegistry  *)
(* is nil and nothing reaches it.                                         *)
(* A configured instance has its service name as id (newServiceInstance). *)
(***************************************************************************)
EXTENDS Naturals

CONSTANTS
    Servers,      \* configured server names
    NACOS, K8S,
    AppName,      \* the service name the application registers under
    AppId,        \* the application's instance id (a uuid: never a name)
    WatchedName,  \* the service the resolver watches
    MaxAppOps,    \* Register/Deregister calls of the application
    MaxReads      \* IsFixedEndpoint/GetServiceFixedEndpoint calls

VARIABLES
    services, access, appOp, appOps, reads, request, watcher, blockCh, stopped, closer,
    conf, localRegistry, defaultRegistry, initResult, running, held

Sel == INSTANCE RegistrySelection

Names == Servers \cup {Sel!GrpcName(s) : s \in Servers} \cup {AppName}
Ids   == Names \cup {AppId}

Local == INSTANCE LocalRegistry
            WITH InitialServices <- [n \in Names |-> {}]

localVars == <<services, access, appOp, appOps, reads, request, watcher, blockCh, stopped, closer>>
selVars   == <<conf, localRegistry, defaultRegistry, initResult, running, held>>
vars      == <<localVars, selVars>>

\* Before Init the package globals are nil and the local map is empty.
Init == Sel!Init /\ Local!Init

\* registrypkg.Init; the services map is that of the local registry it
\* assigns (local.NewRegistry): one instance per configured name and gRPC
\* name, with the name as id.
StartUp(c, nacosOk, discoveryOk, registrarOk) ==
    /\ Sel!InitRegistry(c, nacosOk, discoveryOk, registrarOk)
    /\ services' = [n \in Names |->
                      IF n \in DOMAIN localRegistry'.services THEN {n} ELSE {}]
    /\ UNCHANGED <<access, appOp, appOps, reads, request, watcher, blockCh, stopped, closer>>

\* Once Init has returned, with or without an error, a step of a caller of
\* the package.
AfterInit(A) == initResult # "none" /\ A /\ UNCHANGED selVars

\* The same, for the callers that reach the local registry through
\* defaultRegistry (set to it only by a successful Init).
ThroughDefault(A) == AfterInit(defaultRegistry = "local" /\ A)

Next ==
    \/ \E c \in Sel!Configs, nacosOk \in BOOLEAN,
          discoveryOk, registrarOk \in Sel!K8sClientSetOutcomes :
          StartUp(c, nacosOk, discoveryOk, registrarOk)
    \/ ThroughDefault(\/ Local!AppBegin("register", AppName, AppId)
                      \/ Local!AppBegin("deregister", AppName, AppId)
                      \/ Local!AppEnd)
    \/ ThroughDefault(\/ Local!NextCheckStopped \/ Local!NextReceive
                      \/ Local!NextGetServiceBegin \/ Local!NextGetServiceEnd
                      \/ Local!StopSetStopped \/ Local!StopClose)
    \/ AfterInit(\/ \E fn \in Local!Lookups, n \in Names : Local!RequestBegin(fn, n)
                 \/ Local!RequestEnd)

\* The goroutines already running are scheduled (as in LocalRegistry).
Fairness ==
    /\ WF_vars(ThroughDefault(Local!AppEnd))
    /\ WF_vars(ThroughDefault(Local!NextCheckStopped))
    /\ WF_vars(ThroughDefault(Local!NextReceive))
    /\ WF_vars(ThroughDefault(Local!NextGetServiceBegin))
    /\ WF_vars(ThroughDefault(Local!NextGetServiceEnd))
    /\ WF_vars(ThroughDefault(Local!StopClose))
    /\ WF_vars(AfterInit(Local!RequestEnd))

Spec == Init /\ [][Next]_vars /\ Fairness

-----------------------------------------------------------------------------
(* Properties.                                                             *)

TypeOK ==
    /\ Local!TypeOK
    /\ defaultRegistry \in {"nil", "local", NACOS, K8S}
    /\ initResult \in {"none", "ok", "error"}
    /\ held <= running /\ running \in 0..2

\* The names the config gives its local and remote servers.
ConfiguredNames ==
    IF conf.nil THEN {}
    ELSE LET ss == conf.local \cup conf.remote
         IN ss \cup {Sel!GrpcName(s) : s \in ss}

\* Once Init has returned, even with a nacos or k8s error, a lookup never
\* reads a nil localRegistry, and a lookup of a server configured at Init,
\* under its name or its gRPC name, finds it: IsFixedEndpoint answers true
\* and GetServiceFixedEndpoint returns an endpoint, whatever the application
\* has registered and deregistered under that name meanwhile.
FixedEndpointFound ==
    /\ (initResult # "none" /\ access["request"] = "read") => ~localRegistry.isNil
    /\ (initResult # "none" /\ request.done /\ request.name \in ConfiguredNames)
          => /\ request.found
             /\ request.fn = "GetServiceFixedEndpoint" => request.endpoint # {}

\* Only the resolver's first Next returns a list; every later Next blocks
\* until Stop (LocalRegistry's FirstNextOnly, for the composed system).
FirstNextOnly == Local!FirstNextOnly

\* After Stop, the resolver goroutine blocked in Next returns.
WatcherReleasedByStop == Local!WatcherReleasedByStop

\* kratos' Watcher contract: an instance of the watched service that stays
\* registered is eventually listed by Next, unless the watcher is stopped.
RegistrationEventuallyListed == Local!RegistrationEventuallyListed

\* The services map is never written by the application while a request
\* (IsFixedEndpoint) or the resolver reads it.
MapAccessExclusive == Local!MapAccessExclusive

=============================================================================
