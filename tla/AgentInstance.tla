---------------------------- MODULE AgentInstance ----------------------------
(***************************************************************************)
(* agentdp-server/src/agent/runtime.rs: the state the agent loop keeps for *)
(* one instance (a "cell") and what each step of the loop does to it.  The *)
(* module has no variables: AgentController holds a cell per instance id   *)
(* and applies these operators.                                            *)
(*                                                                         *)
(* A cell carries the tasks spawned for it.  A task is a record; res says  *)
(* whether it still runs or how it ended.  Options are sets of at most one *)
(* element.  Deadlines (next_at, retry_at, cleanup_retry, bootstrap_retry) *)
(* are abstracted: where the code compares one with now, an operator       *)
(* returns the set of both outcomes.                                       *)
(***************************************************************************)
EXTENDS AgentDocument, FiniteSets

CleanupPhases == {"Deleting", "Deleted"}
Targets == {"Active", "Inactive", "Deleting"}
WorkKinds == {"Creating", "Reconciling", "Repairing", "Starting",
              "Bootstrapping", "Stopping", "Deleting"}
TaskKinds == {"create", "reconcile", "start", "bootstrap", "tailscale", "stop",
              "stopForDelete", "removeFiles", "secrets", "hostInputs", "exec"}
Results == {"running", "ok", "err", "stopped", "expired"}

\* Enough work ids for the four owners a cell has and the tasks they own: the
\* code counts up, and only whether two ids are equal matters.
WorkIds == 0 .. 8

StatusFields ==
    {"mbase", "mtmpl", "phase", "recon", "ready", "hostReady", "expired", "observed", "pid", "busy",
     "sessions"}

Status(doc) == [f \in StatusFields |-> doc[f]]

InstanceDocs ==
    [gen : Nat, base : Keys, tmpl : Keys, target : Targets,   \* spec
     mbase : Keys, mtmpl : Keys, phase : Phases, recon : {"none", "ok", "stale"},
     ready : BOOLEAN, hostReady : Nat, expired : BOOLEAN, observed : Nat,
     pid : BOOLEAN, busy : BOOLEAN, sessions : {0, 1}]        \* status

Tasks ==
    [kind : TaskKinds, id : WorkIds, gen : Nat, tmpl : Keys, base : Keys,
     pid : BOOLEAN, res : Results]

Cells ==
    [st : {"absent", "starting", "running"},
     gen : Nat,                              \* StartingAgentInstanceState::generation
     doc : InstanceDocs, saved : SUBSET InstanceDocs,
     work : SUBSET [id : WorkIds, kind : WorkKinds, gen : Nat],
     secrets : SUBSET WorkIds, host : SUBSET WorkIds, session : SUBSET WorkIds,
     repair : {"Idle", "Due", "Backoff"},
     files : BOOLEAN,                        \* secret_host_files is Some
     tasks : SUBSET Tasks]

\* AgentInstanceDocument::new as spawn_create_instance calls it.
NewInstanceDoc(gen, base, tmpl) ==
    [gen |-> gen, base |-> base, tmpl |-> tmpl, target |-> "Active",
     mbase |-> base, mtmpl |-> tmpl, phase |-> "Materialized",
     recon |-> "none", ready |-> FALSE, hostReady |-> 0, expired |-> FALSE,
     observed |-> 0, pid |-> FALSE, busy |-> FALSE, sessions |-> 0]

\* No entry in the agent's instance table; doc has a value nothing reads.
Absent ==
    [st |-> "absent", gen |-> 0, doc |-> NewInstanceDoc(0, None, None), saved |-> {}, work |-> {},
     secrets |-> {}, host |-> {}, session |-> {}, repair |-> "Idle",
     files |-> FALSE, tasks |-> {}]

\* RunningAgentInstanceState::new.
RunningCell(doc, saved) ==
    [Absent EXCEPT !.st = "running", !.doc = doc, !.saved = saved]

IsRunning(c) == c.st = "running"

HostReadyFor(doc, gen) == doc.hostReady = gen /\ ~doc.expired

\* Mutant: the work slot itself is not looked at.
BlocksOnlyOnAuxiliaryWork(c) == c.secrets # {} \/ c.host # {} \/ c.session # {}

\* Mutant: a foreground session blocks nothing.
BlocksExceptOnSession(c) == c.work # {} \/ c.secrets # {} \/ c.host # {}

BlocksInstanceTransition(c) ==
    c.work # {} \/ c.secrets # {} \/ c.host # {} \/ c.session # {}

\* A retrying Starting slot owns no task.
Retrying(c) == c.st = "starting" /\ c.work = {}

-----------------------------------------------------------------------------
(* Spawning tasks *)

UsedIds(c) ==
    {w.id : w \in c.work} \cup c.secrets \cup c.host \cup c.session
      \cup {t.id : t \in c.tasks}

\* Which slot of the cell owns a task.
Lanes == {"work", "secrets", "host", "session"}
Lane(t) ==
    IF t.kind = "secrets" THEN "secrets"
    ELSE IF t.kind = "hostInputs" THEN "host"
    ELSE IF t.kind = "exec" THEN "session"
    ELSE "work"

AllocateWorkId(c) == CHOOSE id \in WorkIds :
    /\ id \notin UsedIds(c)
    /\ \A other \in WorkIds : other < id => other \in UsedIds(c)

\* Tasks that work on a copy of status.backend, which replaces the one in the
\* document when they complete: pid is what the copy says.
BackendTasks == {"start", "reconcile", "stop", "stopForDelete", "secrets"}

Task(c, kind, gen) ==
    [kind |-> kind, id |-> AllocateWorkId(c), gen |-> gen, tmpl |-> None, base |-> None,
     pid |-> kind \in BackendTasks /\ c.doc.pid, res |-> "running"]

\* The work slot without the trace of it in the document.
OwnWork(c, work, kind) ==
    LET t == Task(c, kind, c.doc.gen)
    IN  [c EXCEPT !.work = {[id |-> t.id, kind |-> work, gen |-> t.gen]},
                  !.tasks = @ \cup {t}]

AdmitInstanceWork(c, work, kind) ==
    [OwnWork(c, work, kind) EXCEPT !.doc.busy = TRUE, !.doc.sessions = Cardinality(c.session)]

ClearInstanceWork(c) ==
    [c EXCEPT !.work = {}, !.doc.busy = FALSE, !.doc.sessions = Cardinality(c.session)]

-----------------------------------------------------------------------------
(* project_instance_desired_states *)

\* Mutant: the replica count is compared off by one.
TargetForOneMore(d, i) ==
    IF d.del THEN "Deleting"
    ELSE IF d.paused \/ i > d.replicas THEN "Inactive"
    ELSE "Active"

TargetFor(d, i) ==
    IF d.del THEN "Deleting"
    ELSE IF d.paused \/ i >= d.replicas THEN "Inactive"
    ELSE "Active"

ProjectedBase(doc, d) ==
    IF d.baseDesired # None THEN d.baseDesired
    ELSE IF d.baseReady # None THEN d.baseReady
    ELSE doc.base

\* Mutant: a subtraction that does not saturate.
StepBackUnsaturated(observed, gen) == observed - 1

\* The observed generation of an instance whose desired state just changed.
StepBack(observed, gen) == IF observed < gen THEN observed ELSE gen - 1

ProjectInstanceDesiredState(c, d, i) ==
    LET doc == c.doc
        base == ProjectedBase(doc, d)
        target == TargetFor(d, i)
        genChanged == doc.gen # d.gen
        desiredChanged == genChanged \/ doc.base # base \/ doc.tmpl # d.tmpl \/ doc.target # target
        enteringCleanup == (doc.mbase # base \/ doc.mtmpl # d.tmpl) /\ doc.phase # "Deleting"
    IN  IF doc.phase = "Deleted" \/ ~(desiredChanged \/ enteringCleanup)
        THEN c
        ELSE [c EXCEPT
                !.repair = IF desiredChanged THEN "Idle" ELSE @,
                !.files = @ /\ ~genChanged,
                !.doc = [doc EXCEPT
                    !.gen = d.gen, !.base = base, !.tmpl = d.tmpl, !.target = target,
                    !.hostReady = IF genChanged THEN 0 ELSE @,
                    !.phase = IF enteringCleanup THEN "Deleting" ELSE @,
                    !.ready = FALSE,
                    !.recon = "none",
                    !.observed = StepBack(@, d.gen)]]

Converged(doc) ==
    \/ doc.target = "Active" /\ doc.phase = "Running" /\ doc.recon = "ok" /\ HostReadyFor(doc, doc.gen)
    \/ doc.target = "Inactive" /\ doc.phase = "Stopped"

RefreshObservedGeneration(c) ==
    IF c.work = {} /\ Converged(c.doc)
    THEN [c EXCEPT !.doc.observed = c.doc.gen]
    ELSE c

Project(c, d, i) ==
    IF IsRunning(c) THEN RefreshObservedGeneration(ProjectInstanceDesiredState(c, d, i)) ELSE c
-----------------------------------------------------------------------------
(* The reconcile passes of one turn.  Each returns the set of cells it may  *)
(* leave behind.                                                            *)

\* Mutant: secrets are refreshed while the instance is in transition.
ShouldReconcileRuntimeSecretsAnyTime(c) ==
    /\ IsRunning(c)
    /\ c.secrets = {} /\ c.host = {}
    /\ c.doc.target = "Active"

ShouldReconcileRuntimeSecrets(c) ==
    /\ IsRunning(c)
    /\ c.secrets = {} /\ c.host = {}
    /\ \A w \in c.work : w.kind = "Bootstrapping"
    /\ c.doc.target = "Active"
    /\ c.doc.phase = "Running"

ReconcileRuntimeSecrets(c) ==
    LET t == Task(c, "secrets", c.doc.gen)
    IN  IF ShouldReconcileRuntimeSecrets(c)
        THEN {c, [c EXCEPT !.secrets = {t.id}, !.tasks = @ \cup {t}]}
        ELSE {c}

ShouldReconcileHostInputs(c) ==
    /\ IsRunning(c)
    /\ ~BlocksInstanceTransition(c)
    /\ c.repair = "Idle"
    /\ c.files
    /\ c.doc.target = "Active"
    /\ c.doc.phase = "Running"

ReconcileHostInputs(c) ==
    LET t == Task(c, "hostInputs", c.doc.gen)
    IN  IF ShouldReconcileHostInputs(c)
        THEN {c, [c EXCEPT !.host = {t.id}, !.tasks = @ \cup {t}]}
        ELSE {c}

\* The bootstrap waits for its retry deadline and for the ssh host port.
ReconcileActiveInstance(c) ==
    LET doc == c.doc
        up == doc.phase = "Running"
    IN  IF up /\ c.repair = "Due"
        THEN {AdmitInstanceWork([c EXCEPT !.repair = "Backoff"], "Repairing", "reconcile")}
        ELSE IF up /\ c.repair = "Backoff" THEN {c}
        ELSE IF up /\ doc.recon = "none" THEN {AdmitInstanceWork(c, "Reconciling", "reconcile")}
        ELSE IF ~up THEN {AdmitInstanceWork(c, "Starting", "start")}
        ELSE IF ~doc.ready THEN {c, AdmitInstanceWork(c, "Bootstrapping", "bootstrap")}
        ELSE IF HostReadyFor(doc, doc.gen) /\ doc.observed # doc.gen
        THEN {AdmitInstanceWork(c, "Reconciling", "tailscale")}
        ELSE {c}

ReconcileInactiveInstance(c) ==
    IF c.doc.phase = "Stopped"
    THEN {RefreshObservedGeneration(c)}
    ELSE {AdmitInstanceWork(c, "Stopping", "stop")}

CleanupPhasePersisted(c) == \E s \in c.saved : s.phase = c.doc.phase

\* Mutant: the document shows that the files are being removed.
ReconcileDeletingInstanceShown(c) ==
    IF ~CleanupPhasePersisted(c) THEN {c}
    ELSE IF c.doc.phase = "Deleting"
    THEN {c, AdmitInstanceWork(c, "Deleting", "stopForDelete")}
    ELSE {c, AdmitInstanceWork(c, "Deleting", "removeFiles")}

\* Removing the files is in-memory work: a document that showed it would be
\* written back into the directory while the task removes it.
ReconcileDeletingInstance(c) ==
    IF ~CleanupPhasePersisted(c) THEN {c}
    ELSE IF c.doc.phase = "Deleting"
    THEN {c, AdmitInstanceWork(c, "Deleting", "stopForDelete")}
    ELSE {c, OwnWork(c, "Deleting", "removeFiles")}

ReconcileInstance(c) ==
    IF ~IsRunning(c) \/ BlocksInstanceTransition(c) THEN {c}
    ELSE IF c.doc.phase \in CleanupPhases \/ c.doc.target = "Deleting"
    THEN ReconcileDeletingInstance(c)
    ELSE IF c.doc.target = "Active" THEN ReconcileActiveInstance(c)
    ELSE ReconcileInactiveInstance(c)

\* drop_retrying_starting_instances: a retrying slot owns no VM yet.
DropRetrying(c) == IF Retrying(c) THEN Absent ELSE c

\* reconcile_deletion turns every instance towards cleanup first.
MarkDeleting(c) ==
    IF IsRunning(c) /\ c.doc.phase \notin CleanupPhases
    THEN [c EXCEPT !.doc.phase = "Deleting", !.doc.ready = FALSE, !.doc.recon = "none"]
    ELSE c

SpawnCreate(c, d) ==
    LET t == [Task(c, "create", d.gen) EXCEPT !.tmpl = d.tmpl, !.base = d.baseReady]
    IN  [c EXCEPT !.st = "starting", !.gen = d.gen,
                  !.work = {[id |-> t.id, kind |-> "Creating", gen |-> d.gen]},
                  !.tasks = @ \cup {t}]

\* The slot loop of reconcile_active_instances: a new generation retries a
\* failed create at once, the same generation when retry_at has passed.
EnsureCreated(c, d) ==
    IF c.st = "absent" \/ (Retrying(c) /\ c.gen # d.gen) THEN {SpawnCreate(c, d)}
    ELSE IF Retrying(c) THEN {c, SpawnCreate(c, d)}
    ELSE {c}

-----------------------------------------------------------------------------
(* Completions.  Each handler takes the cell without the finished task t.   *)

OwnsWork(c, t, kinds) ==
    /\ IsRunning(c)
    /\ \E w \in c.work : w.id = t.id /\ w.kind \in kinds /\ w.gen = t.gen

Relevant(c, t) == t.gen = c.doc.gen

CleaningUp(c) == c.doc.target = "Deleting" \/ c.doc.phase \in CleanupPhases

MarkTransitionFailed(doc) ==
    [doc EXCEPT !.phase = "Failed", !.ready = FALSE, !.recon = "stale"]

CompleteInstanceCreate(c, t, d) ==
    IF ~(c.st = "starting" /\ \E w \in c.work : w.id = t.id) THEN c
    ELSE IF t.res = "ok" THEN RunningCell(NewInstanceDoc(t.gen, t.base, t.tmpl), {})
    ELSE IF t.gen # d.gen THEN Absent
    ELSE [c EXCEPT !.work = {}]

CompleteInstanceStart(c, t) ==
    LET doc == [c.doc EXCEPT !.pid = t.pid]
        done ==
          IF t.res = "ok" /\ ~CleaningUp(c)
          THEN [doc EXCEPT !.phase = "Running", !.ready = FALSE,
                           !.recon = IF Relevant(c, t) THEN "ok" ELSE "none"]
          ELSE IF t.res = "ok" THEN [doc EXCEPT !.ready = FALSE, !.recon = "none"]
          ELSE IF Relevant(c, t) /\ ~CleaningUp(c) THEN MarkTransitionFailed(doc)
          ELSE doc
    IN  IF OwnsWork(c, t, {"Starting"})
        THEN ClearInstanceWork([c EXCEPT !.doc = done])
        ELSE c

\* res = "stopped": the process is gone (mark_stopped).
CompleteInstanceReconcile(c, t) ==
    LET repairing == \E w \in c.work : w.kind = "Repairing"
        doc == [c.doc EXCEPT !.pid = t.pid]
        seen == IF t.res = "stopped" THEN [doc EXCEPT !.phase = "Stopped", !.ready = FALSE] ELSE doc
        done ==
          IF t.res \in {"ok", "stopped"}
          THEN [seen EXCEPT !.recon = IF ~Relevant(c, t) THEN "none"
                                      ELSE IF t.res = "ok" THEN "ok" ELSE "stale"]
          ELSE IF Relevant(c, t) /\ ~repairing THEN MarkTransitionFailed(doc)
          ELSE doc
    IN  IF OwnsWork(c, t, {"Reconciling", "Repairing"})
        THEN ClearInstanceWork(
               [c EXCEPT !.doc = done,
                         !.repair = IF repairing /\ t.res # "err" THEN "Idle" ELSE @])
        ELSE c

CompleteInstanceStop(c, t) ==
    LET doc == [c.doc EXCEPT !.pid = t.pid]
        done ==
          IF t.res = "ok" THEN [doc EXCEPT !.phase = "Stopped", !.ready = FALSE, !.recon = "ok"]
          ELSE IF Relevant(c, t) THEN MarkTransitionFailed(doc)
          ELSE doc
    IN  IF OwnsWork(c, t, {"Stopping"})
        THEN ClearInstanceWork([c EXCEPT !.doc = done])
        ELSE c

CompleteInstanceDeleteRuntime(c, t) ==
    IF OwnsWork(c, t, {"Deleting"})
    THEN ClearInstanceWork([c EXCEPT !.doc.pid = t.pid,
                                     !.doc.phase = IF t.res = "ok" THEN "Deleted" ELSE @])
    ELSE c

CompleteInstanceDelete(c, t) ==
    IF ~(IsRunning(c) /\ \E w \in c.work : w.id = t.id /\ w.kind = "Deleting") THEN c
    ELSE IF t.res = "ok" THEN Absent
    ELSE ClearInstanceWork(c)

\* Mutant: the result of an earlier generation is dropped, its slot stays taken.
CompleteBootstrapIfRelevant(c, t) ==
    IF ~(OwnsWork(c, t, {"Bootstrapping"}) /\ Relevant(c, t)) THEN c
    ELSE IF t.res = "ok" THEN ClearInstanceWork([c EXCEPT !.doc.ready = TRUE])
    ELSE [c EXCEPT !.doc.ready = FALSE, !.work = {}]

\* A failed bootstrap leaves its status.work entry (BackingOff) in place.
CompleteBootstrap(c, t) ==
    IF ~OwnsWork(c, t, {"Bootstrapping"}) THEN c
    ELSE IF ~Relevant(c, t) THEN ClearInstanceWork(c)
    ELSE IF t.res = "ok" THEN ClearInstanceWork([c EXCEPT !.doc.ready = TRUE])
    ELSE [c EXCEPT !.doc.ready = FALSE, !.work = {}]

CompleteTailscale(c, t) ==
    IF OwnsWork(c, t, {"Reconciling"}) THEN ClearInstanceWork(c) ELSE c

\* res = "expired": the refresh worked and reports an expired credential.
CompleteRuntimeSecrets(c, t) ==
    LET freed == [c EXCEPT !.secrets = {}]
    IN  IF ~(IsRunning(c) /\ t.id \in c.secrets) THEN c
        ELSE IF ~Relevant(c, t) THEN freed
        ELSE IF t.res = "err" THEN [freed EXCEPT !.repair = "Due", !.doc.hostReady = 0]
        ELSE [freed EXCEPT !.repair = "Idle", !.files = TRUE, !.doc.pid = t.pid,
                           !.doc.expired = t.res = "expired"]

CompleteHostInputs(c, t) ==
    IF ~(IsRunning(c) /\ t.id \in c.host) THEN c
    ELSE IF ~Relevant(c, t) THEN [c EXCEPT !.host = {}]
    ELSE [c EXCEPT !.host = {}, !.doc.hostReady = IF t.res = "ok" THEN t.gen ELSE 0]

CompleteExec(c, t) ==
    IF IsRunning(c) /\ t.id \in c.session THEN [c EXCEPT !.session = {}, !.doc.sessions = 0] ELSE c

\* handle_work_completion.
Completed(c, t, d) ==
    LET rest == [c EXCEPT !.tasks = @ \ {t}]
    IN  IF t.kind = "create" THEN CompleteInstanceCreate(rest, t, d)
        ELSE IF t.kind = "start" THEN CompleteInstanceStart(rest, t)
        ELSE IF t.kind = "reconcile" THEN CompleteInstanceReconcile(rest, t)
        ELSE IF t.kind = "stop" THEN CompleteInstanceStop(rest, t)
        ELSE IF t.kind = "stopForDelete" THEN CompleteInstanceDeleteRuntime(rest, t)
        ELSE IF t.kind = "removeFiles" THEN CompleteInstanceDelete(rest, t)
        ELSE IF t.kind = "bootstrap" THEN CompleteBootstrap(rest, t)
        ELSE IF t.kind = "tailscale" THEN CompleteTailscale(rest, t)
        ELSE IF t.kind = "secrets" THEN CompleteRuntimeSecrets(rest, t)
        ELSE IF t.kind = "hostInputs" THEN CompleteHostInputs(rest, t)
        ELSE CompleteExec(rest, t)

\* start_exec_command.
CanExec(c) == IsRunning(c) /\ c.session = {} /\ c.doc.phase = "Running"

StartExec(c) ==
    LET t == Task(c, "exec", 0)
    IN  [c EXCEPT !.session = {t.id}, !.doc.sessions = 1, !.tasks = @ \cup {t}]

\* reset_loaded_instance_runtime_status.
LoadedInstanceDoc(doc) ==
    IF doc.phase = "Running"
    THEN [doc EXCEPT !.busy = FALSE, !.sessions = 0, !.ready = FALSE, !.recon = "none"]
    ELSE [doc EXCEPT !.busy = FALSE, !.sessions = 0]
=============================================================================
