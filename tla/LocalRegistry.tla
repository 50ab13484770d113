---------------------------- MODULE LocalRegistry ----------------------------
(***************************************************************************)
(* The local registry of src/registry/local/registry.go and one watcher of *)
(* it, with the goroutines that use them in a kratos service:              *)
(*   - the application, which calls Register and Deregister;              *)
(*   - the discovery resolver's goroutine, which calls Next in a loop and  *)
(*     returns when Next returns context.Canceled;                         *)
(*   - the resolver's Close, which calls Stop;                             *)
(*   - request goroutines calling IsFixedEndpoint or GetServiceFixedEndpoint*)
(*     (src/registry/registry.go), which read the same map through          *)
(*     GetService.  An instance has one endpoint, named by its id.          *)
(* The services map has no lock: every map operation is a begin and an end *)
(* step, so that overlapping accesses are visible.  A service's instances  *)
(* are a set of ids (empty inner maps are deleted, so absent = empty).     *)
(***************************************************************************)
EXTENDS Naturals

CONSTANTS
    Names,            \* service names
    Ids,              \* instance ids
    InitialServices,  \* [Names -> SUBSET Ids]: the configured servers
    WatchedName,      \* the service the resolver watches
    MaxAppOps,        \* Register/Deregister calls of the application
    MaxReads          \* IsFixedEndpoint/GetServiceFixedEndpoint calls

ASSUME /\ InitialServices \in [Names -> SUBSET Ids]
       /\ WatchedName \in Names
       /\ MaxAppOps \in Nat /\ MaxReads \in Nat

Actors == {"app", "watcher", "request"}
NoOp   == [kind |-> "none", name |-> WatchedName, id |-> CHOOSE i \in Ids : TRUE]
Lookups == {"IsFixedEndpoint", "GetServiceFixedEndpoint"}
\* The request goroutine before its first call.
NoRequest == [fn |-> "IsFixedEndpoint", name |-> WatchedName, done |-> FALSE,
              found |-> FALSE, endpoint |-> {}]

VARIABLES
    services,  \* Registry.services
    access,    \* access[a]: the map operation actor a is in the middle of
    appOp,     \* the Register/Deregister call in progress
    appOps,    \* calls made so far
    reads,     \* lookups made so far
    request,   \* the last lookup: function, name, and what it returned
    watcher,   \* the resolver goroutine: control point, lists Next returned
    blockCh,   \* watcher.blockCh: buffered tokens and whether it is closed
    stopped,   \* watcher.stopped
    closer     \* the goroutine calling Stop: "open", "flagged", "done"

vars == <<services, access, appOp, appOps, reads, request, watcher, blockCh, stopped, closer>>

\* Fault variant of Init: the watcher's channel made with two slots and
\* filled, as if Watch had been called twice on one watcher.
InitChannelOfTwo ==
    /\ services = InitialServices
    /\ access = [a \in Actors |-> "none"]
    /\ appOp = NoOp
    /\ appOps = 0
    /\ reads = 0
    /\ request = NoRequest
    /\ watcher = [pc |-> "check", lists |-> 0, last |-> {}]
    /\ blockCh = [tokens |-> 2, closed |-> FALSE]
    /\ stopped = FALSE
    /\ closer = "open"

\* NewRegistry from the configured servers, then Watch: newWatcher puts one
\* token into the one-slot channel so that the first Next returns at once.
Init ==
    /\ services = InitialServices
    /\ access = [a \in Actors |-> "none"]
    /\ appOp = NoOp
    /\ appOps = 0
    /\ reads = 0
    /\ request = NoRequest
    /\ watcher = [pc |-> "check", lists |-> 0, last |-> {}]
    /\ blockCh = [tokens |-> 1, closed |-> FALSE]
    /\ stopped = FALSE
    /\ closer = "open"

-----------------------------------------------------------------------------
(* Register and Deregister                                                 *)

\* Register or Deregister starts writing the map.
AppBegin(kind, n, i) ==
    /\ access["app"] = "none"
    /\ appOps < MaxAppOps
    /\ access' = [access EXCEPT !["app"] = "write"]
    /\ appOp' = [kind |-> kind, name |-> n, id |-> i]
    /\ appOps' = appOps + 1
    /\ UNCHANGED <<services, reads, request, watcher, blockCh, stopped, closer>>

\* addServiceInstance / deleteServiceInstance: the write completes.
AppEnd ==
    /\ access["app"] = "write"
    /\ services' = [services EXCEPT ![appOp.name] =
                      IF appOp.kind = "register" THEN @ \cup {appOp.id}
                      ELSE @ \ {appOp.id}]
    /\ access' = [access EXCEPT !["app"] = "none"]
    /\ appOp' = NoOp
    /\ UNCHANGED <<appOps, reads, request, watcher, blockCh, stopped, closer>>

-----------------------------------------------------------------------------
(* The watcher: Next in the resolver's loop, and Stop                      *)

\* Next: a stopped watcher returns context.Canceled and the loop returns.
NextCheckStopped ==
    /\ watcher.pc = "check"
    /\ watcher' = [watcher EXCEPT !.pc = IF stopped THEN "exit" ELSE "recv"]
    /\ UNCHANGED <<services, access, appOp, appOps, reads, request, blockCh, stopped, closer>>

\* Fault variant of NextReceive: the ok of the receive is not tested.
NextReceiveIgnoringOk ==
    /\ watcher.pc = "recv"
    /\ blockCh.tokens > 0 \/ blockCh.closed
    /\ blockCh' = [blockCh EXCEPT !.tokens = IF @ > 0 THEN @ - 1 ELSE 0]
    /\ watcher' = [watcher EXCEPT !.pc = "get"]
    /\ UNCHANGED <<services, access, appOp, appOps, reads, request, stopped, closer>>

\* Next: <-w.blockCh blocks until a token is buffered or the channel is
\* closed; a token gives ok, a closed empty channel gives Canceled.
NextReceive ==
    /\ watcher.pc = "recv"
    /\ blockCh.tokens > 0 \/ blockCh.closed
    /\ blockCh' = [blockCh EXCEPT !.tokens = IF @ > 0 THEN @ - 1 ELSE 0]
    /\ watcher' = [watcher EXCEPT !.pc = IF blockCh.tokens > 0 THEN "get" ELSE "exit"]
    /\ UNCHANGED <<services, access, appOp, appOps, reads, request, stopped, closer>>

\* Next calls GetService, which starts ranging over the map.
NextGetServiceBegin ==
    /\ watcher.pc = "get"
    /\ access' = [access EXCEPT !["watcher"] = "read"]
    /\ watcher' = [watcher EXCEPT !.pc = "got"]
    /\ UNCHANGED <<services, appOp, appOps, reads, request, blockCh, stopped, closer>>

\* GetService returns the instances; the resolver updates and calls Next.
NextGetServiceEnd ==
    /\ watcher.pc = "got"
    /\ access' = [access EXCEPT !["watcher"] = "none"]
    /\ watcher' = [pc |-> "check", lists |-> watcher.lists + 1,
                   last |-> services[WatchedName]]
    /\ UNCHANGED <<services, appOp, appOps, reads, request, blockCh, stopped, closer>>

\* Stop: w.stopped = true.
StopSetStopped ==
    /\ closer = "open"
    /\ stopped' = TRUE
    /\ closer' = "flagged"
    /\ UNCHANGED <<services, access, appOp, appOps, reads, request, watcher, blockCh>>

\* Fault variant of StopClose: the channel is left open.
StopWithoutClose ==
    /\ closer = "flagged"
    /\ closer' = "done"
    /\ UNCHANGED <<services, access, appOp, appOps, reads, request, watcher, blockCh, stopped>>

\* Stop: close(w.blockCh).
StopClose ==
    /\ closer = "flagged"
    /\ blockCh' = [blockCh EXCEPT !.closed = TRUE]
    /\ closer' = "done"
    /\ UNCHANGED <<services, access, appOp, appOps, reads, request, watcher, stopped>>

-----------------------------------------------------------------------------
(* IsFixedEndpoint on a request goroutine                                  *)

\* What a lookup of a service with instances insts may return: whether it
\* is fixed, and the endpoint GetServiceFixedEndpoint takes from services[0],
\* the first instance in Go's unspecified map order (none: "not found").
Answers(fn, insts) ==
    IF fn = "GetServiceFixedEndpoint" /\ insts # {}
    THEN {[found |-> TRUE, endpoint |-> {i}] : i \in insts}
    ELSE {[found |-> insts # {}, endpoint |-> {}]}

\* The lookup calls localRegistry.GetService(name), which starts ranging
\* over the map.
RequestBegin(fn, n) ==
    /\ access["request"] = "none"
    /\ reads < MaxReads
    /\ access' = [access EXCEPT !["request"] = "read"]
    /\ reads' = reads + 1
    /\ request' = [NoRequest EXCEPT !.fn = fn, !.name = n]
    /\ UNCHANGED <<services, appOp, appOps, watcher, blockCh, stopped, closer>>

\* GetService returns and the lookup answers from the list.
RequestEnd ==
    /\ access["request"] = "read"
    /\ access' = [access EXCEPT !["request"] = "none"]
    /\ \E a \in Answers(request.fn, services[request.name]) :
          request' = [request EXCEPT !.done = TRUE, !.found = a.found,
                                     !.endpoint = a.endpoint]
    /\ UNCHANGED <<services, appOp, appOps, reads, watcher, blockCh, stopped, closer>>

-----------------------------------------------------------------------------

Next ==
    \/ \E n \in Names, i \in Ids :
          AppBegin("register", n, i) \/ AppBegin("deregister", n, i)
    \/ AppEnd
    \/ NextCheckStopped
    \/ NextReceive
    \/ NextGetServiceBegin
    \/ NextGetServiceEnd
    \/ StopSetStopped
    \/ StopClose
    \/ \E fn \in Lookups, n \in Names : RequestBegin(fn, n)
    \/ RequestEnd

\* Every started goroutine runs; nobody has to call Stop, Register or
\* IsFixedEndpoint.
Fairness ==
    /\ WF_vars(AppEnd)
    /\ WF_vars(NextCheckStopped)
    /\ WF_vars(NextReceive)
    /\ WF_vars(NextGetServiceBegin)
    /\ WF_vars(NextGetServiceEnd)
    /\ WF_vars(StopClose)
    /\ WF_vars(RequestEnd)

Spec == Init /\ [][Next]_vars /\ Fairness

-----------------------------------------------------------------------------
(* Properties.                                                             *)

TypeOK ==
    /\ services \in [Names -> SUBSET Ids]
    /\ access \in [Actors -> {"none", "read", "write"}]
    /\ appOps \in 0..MaxAppOps /\ reads \in 0..MaxReads
    /\ request \in [fn : Lookups, name : Names, done : BOOLEAN,
                    found : BOOLEAN, endpoint : SUBSET Ids]
    /\ watcher.pc \in {"check", "recv", "get", "got", "exit"}
    /\ watcher.lists \in Nat /\ watcher.last \subseteq Ids
    /\ blockCh.tokens \in 0..1 /\ blockCh.closed \in BOOLEAN
    /\ stopped \in BOOLEAN /\ closer \in {"open", "flagged", "done"}

\* The watcher's contract as the channel implements it: only the first
\* Next returns the instance list; every later Next blocks until Stop and
\* then returns Canceled, even when it passed the stopped test before Stop.
FirstNextOnly == watcher.lists <= 1

\* Once Stop has begun, the resolver goroutine blocked in Next is released
\* and returns (Stop's close wakes the receive).
WatcherReleasedByStop == stopped ~> (watcher.pc = "exit")

\* kratos' registry.Watcher contract, which the resolver relies on: Next
\* returns the first list, and returns again whenever the instances of the
\* service change.  An instance registered for the watched service and
\* not in the last list is eventually listed, unless it is deregistered
\* first or the watcher is stopped.
RegistrationEventuallyListed ==
    \A i \in Ids :
        (i \in services[WatchedName] /\ i \notin watcher.last)
            ~> (i \in watcher.last \/ i \notin services[WatchedName] \/ stopped)

\* The services map is never written while another goroutine reads or
\* writes it (the Go runtime aborts on concurrent map access).
MapAccessExclusive ==
    \A a, b \in Actors :
        (a # b /\ access[a] = "write") => access[b] = "none"

=============================================================================
