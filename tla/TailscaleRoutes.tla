--------------------------- MODULE TailscaleRoutes ---------------------------
(***************************************************************************)
(* The routes an instance is served under by Tailscale                     *)
(* (agentdp-server/src/host/tailscale.rs).  The serve configuration is     *)
(* kept by the tailscale daemon, outside AgentDP; an instance's document   *)
(* records the routes AgentDP put there, and the tasks of all instances    *)
(* change it one command at a time under a mutex.  A route stands for its  *)
(* key: the https port of a direct route, the path of a proxied one.  The  *)
(* key says what is served too: a port leads to the same port of the host, *)
(* and every path to the control plane's web server.  Keys are of the      *)
(* whole host; resolved_routes refuses duplicates within an instance only, *)
(* and two instances whose manifest gives a fixed path have the same key.  *)
(***************************************************************************)
EXTENDS Naturals, FiniteSets

CONSTANTS RouteInstances, RouteKeys,
          ServeAttempts,                   \* SERVE_MUTATION_ATTEMPTS
          MaxUpdates, MaxServeFaults       \* bounds: new manifests, failures and crashes

\* 0 stands for nobody holding the mutex.
ASSUME RouteAssumption ==
    {ServeAttempts, MaxUpdates, MaxServeFaults} \subseteq Nat /\ 0 \notin RouteInstances

VARIABLES
    served,    \* the keys of the serve configuration, of the whole host (external)
    wanted,    \* the routes of the manifest, {} without the plugin
    active,    \* TRUE when the instance is to run
    recorded,  \* status.tailscale_serve: NoRoutes or [some, routes]
    routeTask, \* the task that reconciles the routes of an instance
    mutex,     \* serve_mutations: the instance whose task holds it, or 0
    routeLog   \* bounds and history: [updates, faults, unsure]

routeVars == <<served, wanted, active, recorded, routeTask, mutex, routeLog>>

NoRoutes == [some |-> FALSE, routes |-> {}]
Routes(keys) == [some |-> TRUE, routes |-> keys]
NoRouteTask == [at |-> "idle", remove |-> {}, apply |-> {}, desired |-> NoRoutes, current |-> FALSE, attempt |-> 0]

\* The keys that are the instance's by its document or by its task.
Claims(i) == recorded[i].routes \cup routeTask[i].desired.routes

RouteTypeOK ==
    /\ served \subseteq RouteKeys /\ mutex \in RouteInstances \cup {0}
    /\ \A i \in RouteInstances :
          /\ wanted[i] \subseteq RouteKeys /\ recorded[i].routes \subseteq RouteKeys
          /\ routeTask[i].at \in {"idle", "waiting", "changing", "ok", "failed"}
          /\ routeTask[i].at = "changing" <=> mutex = i
          /\ routeTask[i].attempt <= ServeAttempts

RouteInit ==
    /\ served = {} /\ mutex = 0
    /\ wanted = [i \in RouteInstances |-> {}] /\ active = [i \in RouteInstances |-> TRUE]
    /\ recorded = [i \in RouteInstances |-> NoRoutes] /\ routeTask = [i \in RouteInstances |-> NoRouteTask]
    /\ routeLog = [updates |-> 0, faults |-> 0, unsure |-> {}]

\* A new manifest, or another target for the instance; a task under way is of an
\* older generation from now on.
Update(i) ==
    /\ routeLog.updates < MaxUpdates /\ routeLog' = [routeLog EXCEPT !.updates = @ + 1]
    /\ \/ \E keys \in SUBSET RouteKeys : keys # wanted[i] /\ wanted' = [wanted EXCEPT ![i] = keys] /\ UNCHANGED active
       \/ active' = [active EXCEPT ![i] = ~@] /\ UNCHANGED wanted
    /\ routeTask' = [routeTask EXCEPT ![i].current = FALSE]
    /\ UNCHANGED <<served, recorded, mutex>>
-----------------------------------------------------------------------------
\* instance_route_reconcile_plan: recorded routes go when they are not the wanted ones.
RemovedFirst(observed, desired) == IF observed.some /\ observed # desired THEN observed.routes ELSE {}

\* resolved_routes: one route for each service of the plugin, with the key its template
\* gives; the order of the manifest is left out.
ResolvedRoutes(i) == Routes(wanted[i])

\* ensure_ready, detect and resolved_routes refuse before anything is changed: serving
\* is disabled, tailscale is missing or signed out, a service has no TCP host port.
Refusal(i) ==
    /\ routeLog.faults < MaxServeFaults /\ routeLog' = [routeLog EXCEPT !.faults = @ + 1]
    /\ routeTask' = [routeTask EXCEPT ![i] = [NoRouteTask EXCEPT !.at = "failed", !.current = TRUE]]

\* History: the wanted keys another instance has already.
Shared(i) == {key \in wanted[i] : \E j \in RouteInstances \ {i} : key \in Claims(j)}

\* reconcile_instance: the task has a copy of manifest and document.
ReconcileInstance(i) ==
    LET desired == ResolvedRoutes(i) IN
    \/ /\ routeTask' = [routeTask EXCEPT ![i] =
                          [at |-> "waiting", remove |-> RemovedFirst(recorded[i], desired), apply |-> wanted[i],
                           desired |-> desired, current |-> TRUE, attempt |-> 0]]
       /\ routeLog' = [routeLog EXCEPT !.unsure = @ \cup Shared(i)]
    \/ Refusal(i)

\* reconcile_absent: nothing recorded is nothing to do.
ReconcileAbsent(i) ==
    /\ routeTask' = [routeTask EXCEPT ![i] =
                       [NoRouteTask EXCEPT !.at = IF recorded[i].some THEN "waiting" ELSE "ok",
                                    !.remove = recorded[i].routes, !.current = TRUE]]
    /\ UNCHANGED routeLog

\* A bootstrap, tailscale or stop task begins.
BeginTask(i) ==
    /\ routeTask[i].at = "idle"
    /\ \/ active[i] /\ wanted[i] # {} /\ ReconcileInstance(i)
       \/ active[i] /\ wanted[i] = {} /\ ReconcileAbsent(i)
       \/ ~active[i] /\ ReconcileAbsent(i)
    /\ UNCHANGED <<served, wanted, active, recorded, mutex>>

TakeMutex(i) ==
    /\ routeTask[i].at = "waiting" /\ mutex = 0 /\ mutex' = i
    /\ routeTask' = [routeTask EXCEPT ![i].at = "changing"]
    /\ UNCHANGED <<served, wanted, active, recorded, routeLog>>

\* run_tailscale_serve_command: the command is carried out, is tried again after a
\* conflict with another client, or fails; turning off what is not there is fine.
Run(i, next, config) ==
    \/ /\ routeTask' = [routeTask EXCEPT ![i] = [next EXCEPT !.attempt = 0]] /\ served' = config
       /\ UNCHANGED <<mutex, routeLog>>
    \/ /\ routeTask[i].attempt + 1 < ServeAttempts
       /\ routeTask' = [routeTask EXCEPT ![i].attempt = @ + 1] /\ UNCHANGED <<served, mutex, routeLog>>
    \/ /\ routeLog.faults < MaxServeFaults
       /\ routeLog' = [routeLog EXCEPT !.faults = @ + 1, !.unsure = @ \cup Claims(i)]
       /\ routeTask' = [routeTask EXCEPT ![i].at = "failed"] /\ mutex' = 0 /\ UNCHANGED served

\* remove_observed_routes, then the new routes, one command each.
ChangeRoutes(i) ==
    LET task == routeTask[i] IN
    /\ task.at = "changing"
    /\ \/ \E key \in task.remove : Run(i, [task EXCEPT !.remove = @ \ {key}], served \ {key})
       \/ /\ task.remove = {}
          /\ \E key \in task.apply : Run(i, [task EXCEPT !.apply = @ \ {key}], served \cup {key})
       \/ /\ task.remove = {} /\ task.apply = {}
          /\ routeTask' = [routeTask EXCEPT ![i].at = "ok"] /\ mutex' = 0 /\ UNCHANGED <<served, routeLog>>
    /\ UNCHANGED <<wanted, active, recorded>>

\* Mutant: what a task of an older generation did is not recorded.
CompletedIfCurrent(i) == IF routeTask[i].at = "ok" /\ routeTask[i].current THEN routeTask[i].desired ELSE recorded[i]

\* The completion of the task: what was done is recorded whatever the generation, and
\* a failure leaves the record as it was.
Completed(i) == IF routeTask[i].at = "ok" THEN routeTask[i].desired ELSE recorded[i]

EndTask(i) ==
    /\ routeTask[i].at \in {"ok", "failed"}
    /\ recorded' = [recorded EXCEPT ![i] = Completed(i)]
    /\ routeTask' = [routeTask EXCEPT ![i] = NoRouteTask]
    /\ UNCHANGED <<served, wanted, active, mutex, routeLog>>

\* The server restarts: an instance loaded in phase Running loses its recorded routes,
\* any other keeps them (reset_loaded_instance_runtime_status).
RestartServer ==
    \E running \in SUBSET RouteInstances :
        LET loaded == [i \in RouteInstances |-> IF i \in running THEN NoRoutes ELSE recorded[i]]
            known  == UNION {loaded[i].routes : i \in RouteInstances}
        IN  /\ routeLog.faults < MaxServeFaults
            /\ routeLog' = [routeLog EXCEPT !.faults = @ + 1, !.unsure = @ \cup (served \ known) \cup (known \ served)]
            /\ recorded' = loaded /\ routeTask' = [i \in RouteInstances |-> NoRouteTask] /\ mutex' = 0
            /\ UNCHANGED <<served, wanted, active>>

RouteNext ==
    \/ \E i \in RouteInstances :
          Update(i) \/ BeginTask(i) \/ TakeMutex(i) \/ ChangeRoutes(i) \/ EndTask(i)
    \/ RestartServer

RouteSpec == RouteInit /\ [][RouteNext]_routeVars
-----------------------------------------------------------------------------
\* The documents say what is served: whatever generations, completions and tasks of
\* other instances come between, nothing is served that no document records and no task
\* under way will account for, and what a document records between two tasks of its
\* instance is served.  Excepted are the keys of an instance one of whose commands
\* failed, the ones a restart left without a record, and the ones two instances claim
\* (a fixed proxy path with two replicas): the first to go takes the other one's route.
RoutesRecorded ==
    \A key \in RouteKeys \ routeLog.unsure :
        /\ key \in served => \E i \in RouteInstances : key \in Claims(i)
        /\ \A i \in RouteInstances : routeTask[i].at = "idle" /\ key \in recorded[i].routes => key \in served
=============================================================================
