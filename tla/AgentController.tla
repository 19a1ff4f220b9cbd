--------------------------- MODULE AgentController ---------------------------
(***************************************************************************)
(* agentdp-server/src/agent/runtime.rs and documents.rs: the control loop  *)
(* of one agent, the tasks it spawns, the documents it persists, and what  *)
(* a crash of the server leaves.                                           *)
(*                                                                         *)
(* The loop is sequential.  A turn handles one input (or none, when a      *)
(* timer wakes it), reconciles, and derives the document to publish: one   *)
(* action.  It then awaits the writes of the dirty documents one by one    *)
(* and answers the pending commands.  Tasks run concurrently with all of   *)
(* it; a task that has finished waits in the inbox.                        *)
(***************************************************************************)
EXTENDS AgentInstance

CONSTANTS
    MaxGeneration,    \* bound: commands stop raising the generation here
    MaxFailures,      \* bound: failing tasks and writes, VMs that die
    MaxCrashes,       \* bound: crashes of the server
    MaxExecs,         \* bound: foreground sessions
    RemovalMayFail    \* whether removing the agent directory can fail

ASSUME BoundsAssumption ==
    /\ MaxGeneration \in Nat /\ MaxFailures \in Nat
    /\ MaxCrashes \in Nat /\ MaxExecs \in Nat
    /\ RemovalMayFail \in BOOLEAN

VARIABLES
    mode,         \* AgentState, or Down while the server does not run
    pc,           \* input: the loop waits for an input; commit: it persists
    doc, saved,   \* documents.private, and documents.persisted as an option
    base,         \* AgentBaseState
    baseTasks,    \* the tasks spawned for the agent base
    inst,         \* the cell of each instance id
    pending,      \* a command waits for this commit
    acked,        \* what the last OK answer to a command said, as an option
    disk,         \* the agent document file
    file,         \* the instance document file of each id
    dir, vm,      \* each id's directory exists; its QEMU process runs
    failures, crashes, execs

mem == <<doc, saved, base, baseTasks, inst>>
world == <<disk, file, dir, vm>>
budgets == <<failures, crashes, execs>>
vars == <<mode, pc, mem, pending, acked, world, budgets>>

\* A file holds a document, nothing, or the torn rest of a write.
NoFile == [torn |-> FALSE, doc |-> {}]
Holding(d) == [torn |-> FALSE, doc |-> {d}]
TornFile == [torn |-> TRUE, doc |-> {}]

BaseStates ==
    [st : {"Missing", "Preparing", "Building", "Ready", "Failed", "Stopping", "Stopped"},
     id : {0, 1}, gen : Nat, key : Keys]

Base(st) == [st |-> st, id |-> 0, gen |-> 0, key |-> None]
BaseReady(key) == [Base("Ready") EXCEPT !.key = key]

NoAgentDoc == FromManifest([tmpl |-> CHOOSE t \in Templates : TRUE, replicas |-> 0, paused |-> TRUE])

Init ==
    /\ mode = "Starting" /\ pc = "input"
    /\ doc = NoAgentDoc /\ saved = {}
    /\ base = Base("Missing") /\ baseTasks = {}
    /\ inst = [i \in Ids |-> Absent]
    /\ pending = FALSE /\ acked = {}
    /\ disk = NoFile /\ file = [i \in Ids |-> NoFile]
    /\ dir = [i \in Ids |-> FALSE] /\ vm = [i \in Ids |-> FALSE]
    /\ failures = 0 /\ crashes = 0 /\ execs = 0

-----------------------------------------------------------------------------
(* AgentDocuments::write: the status the documents publish. *)

RunningIds(cells) == {i \in Ids : IsRunning(cells[i])}

InstanceReady(c, d) ==
    /\ c.doc.target = "Active"
    /\ c.doc.observed = d.gen
    /\ c.doc.ready
    /\ HostReadyFor(c.doc, d.gen)

\* Mutant: an instance that is still being created is overlooked.
InstancesObservedIfRunning(d, cells) ==
    \A i \in RunningIds(cells) :
      /\ cells[i].doc.observed = d.gen
      /\ cells[i].doc.target = "Active" => HostReadyFor(cells[i].doc, d.gen)

InstancesObserved(d, cells) ==
    \A i \in Ids :
      /\ cells[i].st # "starting"
      /\ IsRunning(cells[i]) =>
           /\ cells[i].doc.observed = d.gen
           /\ cells[i].doc.target = "Active" => HostReadyFor(cells[i].doc, d.gen)

Deleted(d, b, cells) ==
    /\ d.del
    /\ \A i \in Ids : cells[i].st = "absent"
    /\ b.st \in {"Stopped", "Missing", "Failed"}

Write(d, b, cells) ==
    LET up == {i \in RunningIds(cells) : cells[i].doc.phase = "Running"}
        cleaning == {i \in RunningIds(cells) : cells[i].doc.phase \in CleanupPhases}
        deleted == Deleted(d, b, cells)
        inactiveConverged ==
          Inactive(d) /\ up = {} /\ cleaning = {} /\ InstancesObserved(d, cells)
        runningConverged ==
          /\ ~d.del /\ ~d.paused
          /\ Cardinality(up) = d.replicas
          /\ d.baseReady = d.baseDesired
          /\ InstancesObserved(d, cells)
        observed == deleted \/ inactiveConverged \/ runningConverged
    IN  [d EXCEPT
           !.observed = IF observed THEN d.gen ELSE @,
           !.deleted = deleted,
           !.reconciling = ~observed,
           !.active = Cardinality(up),
           !.ready = Cardinality({i \in RunningIds(cells) : InstanceReady(cells[i], d)}),
           !.instances = [i \in Ids |-> IF IsRunning(cells[i]) THEN {Status(cells[i].doc)} ELSE {}]]

-----------------------------------------------------------------------------
(* reconcile, and the start of commit_state *)

BaseReadyForDocument(d, b) ==
    b.st = "Ready" /\ b.key = d.baseReady /\ d.baseReady = d.baseDesired

SpawnBase(tasks, st, kind, gen, key) ==
    LET id == IF \E t \in tasks : t.id = 0 THEN 1 ELSE 0
    IN  [base |-> [Base(st) EXCEPT !.id = id],
         tasks |-> tasks \cup
           {[kind |-> kind, id |-> id, gen |-> gen, key |-> key, res |-> "running"]}]

\* A failed base waits for another generation or key.
ReconcileBase(d, b, tasks) ==
    IF \/ b.st \in {"Missing", "Stopped"}
       \/ b.st = "Failed" /\ (b.gen # d.gen \/ b.key # d.baseDesired)
    THEN SpawnBase(tasks, "Preparing", "prepare", d.gen, d.tmpl)
    ELSE [base |-> b, tasks |-> tasks]

\* The end of reconcile_deletion: without instances the base goes too.
ReconcileBaseDeletion(b, tasks, cells) ==
    IF b.st = "Ready" /\ \A i \in Ids : cells[i].st = "absent"
    THEN SpawnBase(tasks, "Stopping", "stop", 0, None)
    ELSE [base |-> b, tasks |-> tasks]

\* The functions that pick a member of each choice[i].
Pick(choice) ==
    {f \in [Ids -> UNION {choice[i] : i \in Ids}] : \A i \in Ids : f[i] \in choice[i]}

\* What one turn may make of a cell, after the input has been handled.
TurnCell(c, d, b, i) ==
    LET projected == Project(c, d, i)
        secrets == ReconcileRuntimeSecrets(projected)
        settled ==
          IF d.del
          THEN UNION {ReconcileInstance(MarkDeleting(DropRetrying(x))) : x \in secrets}
          ELSE IF Inactive(d)
          THEN UNION {ReconcileInstance(DropRetrying(x)) : x \in secrets}
          ELSE IF BaseReadyForDocument(d, b)
          THEN UNION {ReconcileInstance(y) :
                        y \in UNION {IF i < d.replicas THEN EnsureCreated(x, d) ELSE {DropRetrying(x)}
                                       : x \in secrets}}
          ELSE UNION {IF IsRunning(x) /\ x.doc.phase \in CleanupPhases
                      THEN ReconcileInstance(x) ELSE {x} : x \in secrets}
    IN  UNION {ReconcileHostInputs(x) : x \in settled}

DirtyIds(cells) == {i \in RunningIds(cells) : cells[i].saved # {cells[i].doc}}

\* Mutant: only the instance documents are checked for changes.
InSyncInstances(d, s, cells) == ~d.deleted /\ DirtyIds(cells) = {}

InSync(d, s, cells) == ~d.deleted /\ s = {d} /\ DirtyIds(cells) = {}

Accepted(d) == [gen |-> d.gen, desired |-> DesiredState(d)]

\* The end of commit_state: the commands of this turn are answered.
Answer(d, asked) ==
    /\ pc' = "input"
    /\ pending' = FALSE
    /\ acked' = IF asked THEN {Accepted(d)} ELSE acked

\* A turn from the state its input left: reconcile, derive the documents, and
\* persist unless there is nothing to write.
Turn(d, b, tasks, cells, asked) ==
    \E next \in Pick([i \in Ids |-> TurnCell(cells[i], d, b, i)]) :
      LET spawned == IF d.del THEN ReconcileBaseDeletion(b, tasks, next)
                     ELSE IF Inactive(d) THEN [base |-> b, tasks |-> tasks]
                     ELSE ReconcileBase(d, b, tasks)
          written == Write(d, spawned.base, next)
      IN  /\ doc' = written
          /\ base' = spawned.base
          /\ baseTasks' = spawned.tasks
          /\ inst' = next
          /\ IF InSync(written, saved', next)
             THEN Answer(written, asked)
             ELSE pc' = "commit" /\ pending' = asked /\ UNCHANGED acked

Awaiting == mode = "Running" /\ pc = "input"

LoopTurn(d, b, tasks, cells, asked) ==
    /\ saved' = saved
    /\ Turn(d, b, tasks, cells, asked)
    /\ UNCHANGED <<mode, world>>

-----------------------------------------------------------------------------
(* Inputs: commands *)

\* Mutant: instances being created do not count.
ProvisionedIfRunning == \E i \in Ids : IsRunning(inst[i])

Provisioned ==
    \/ \E i \in Ids : inst[i].st # "absent"
    \/ base.st \in {"Building", "Ready", "Stopping", "Stopped"}
    \/ base.st = "Failed" /\ base.key # None

AuthBindingsChanged(m) ==
    ~doc.deleted /\ Provisioned /\ AuthBindings[m.tmpl] # AuthBindings[doc.tmpl]

Updated(m) == IF doc.deleted THEN FromManifest(m) ELSE FromManifestAfterExisting(m, doc)

\* moved: the manifest comes from another path than the last one.
ApplyManifest(m, moved) ==
    LET updated == Updated(m)
        genChanged == updated.gen # doc.gen
        restart == /\ genChanged \/ (updated.baseDesired = None /\ updated.baseReady = None)
                   /\ base.st \notin {"Preparing", "Building", "Stopping"}
        forget == [i \in Ids |-> [inst[i] EXCEPT !.files = @ /\ ~genChanged]]
    IN  IF updated = doc /\ ~moved
        THEN LoopTurn(doc, base, baseTasks, inst, TRUE)
        ELSE LoopTurn(Write(updated, base, inst),
                      IF restart THEN Base("Missing") ELSE base,
                      baseTasks, forget, TRUE)

Apply(m, moved) ==
    /\ Awaiting
    /\ Updated(m).gen <= MaxGeneration
    /\ IF AuthBindingsChanged(m)
       THEN LoopTurn(doc, base, baseTasks, inst, FALSE)
       ELSE ApplyManifest(m, moved)
    /\ UNCHANGED budgets

\* The first apply of an agent that has no state on disk.
ApplyFirst(m) ==
    /\ mode = "Starting"
    /\ mode' = "Running"
    /\ saved' = {}
    /\ Turn(FromManifest(m), Base("Missing"), {}, [i \in Ids |-> Absent], TRUE)
    /\ UNCHANGED <<world, budgets>>

Scale(n) ==
    /\ Awaiting
    /\ SetReplicas(doc, n).gen <= MaxGeneration
    /\ LoopTurn(SetReplicas(doc, n), base, baseTasks, inst, TRUE)
    /\ UNCHANGED budgets

Delete ==
    /\ Awaiting
    /\ MarkDeletionRequested(doc).gen <= MaxGeneration
    /\ LoopTurn(MarkDeletionRequested(doc), base, baseTasks, inst, TRUE)
    /\ UNCHANGED budgets

Exec(i) ==
    /\ Awaiting
    /\ execs < MaxExecs
    /\ CanExec(inst[i])
    /\ LoopTurn(doc, base, baseTasks, [inst EXCEPT ![i] = StartExec(@)], FALSE)
    /\ execs' = execs + 1
    /\ UNCHANGED <<failures, crashes>>

\* A timer wakes the loop.
Wake ==
    /\ Awaiting
    /\ LoopTurn(doc, base, baseTasks, inst, FALSE)
    /\ UNCHANGED budgets

-----------------------------------------------------------------------------
(* Inputs: completions *)

CompleteTask(i, lane) ==
    /\ Awaiting
    /\ \E t \in inst[i].tasks :
         /\ Lane(t) = lane
         /\ t.res # "running"
         /\ LoopTurn(doc, base, baseTasks, [inst EXCEPT ![i] = Completed(@, t, doc)], FALSE)
    /\ UNCHANGED budgets

OwnsBase(t, states) == base.st \in states /\ base.id = t.id

\* handle_base_completion: the document, base and tasks it leaves.
BasePrepared(t, rest) ==
    IF ~OwnsBase(t, {"Preparing"}) THEN [doc |-> doc, base |-> base, tasks |-> rest]
    ELSE IF t.gen # doc.gen THEN [doc |-> doc, base |-> Base("Missing"), tasks |-> rest]
    ELSE [doc |-> MarkBaseDesired(doc, t.key),
          base |-> [st |-> "Building", id |-> t.id, gen |-> t.gen, key |-> t.key],
          tasks |-> rest \cup {[t EXCEPT !.kind = "build", !.res = "running"]}]

\* Mutant: the generation the base was built for is not compared.
BaseBuiltForAnyGeneration(t, rest) ==
    IF ~OwnsBase(t, {"Building"}) THEN [doc |-> doc, base |-> base, tasks |-> rest]
    ELSE [doc |-> MarkBaseReady(doc, t.key), base |-> BaseReady(t.key), tasks |-> rest]

\* A base that is wanted no more is marked ready all the same while the agent
\* is being deleted, for the deletion to stop it.
BaseBuilt(t, rest) ==
    IF ~(OwnsBase(t, {"Building"}) /\ base.gen = t.gen /\ base.key = t.key)
    THEN [doc |-> doc, base |-> base, tasks |-> rest]
    ELSE IF ~doc.del /\ t.gen # doc.gen
    THEN [doc |-> doc, base |-> Base("Missing"), tasks |-> rest]
    ELSE [doc |-> MarkBaseReady(doc, t.key), base |-> BaseReady(t.key), tasks |-> rest]

BaseFailed(t, rest) ==
    IF ~OwnsBase(t, {"Preparing", "Building"})
    THEN [doc |-> doc, base |-> base, tasks |-> rest]
    ELSE IF t.gen # doc.gen THEN [doc |-> doc, base |-> Base("Missing"), tasks |-> rest]
    ELSE [doc |-> MarkBaseFailed(doc),
          base |-> [st |-> "Failed", id |-> 0, gen |-> t.gen,
                    key |-> IF base.st = "Preparing" THEN doc.baseDesired ELSE base.key],
          tasks |-> rest]

\* Mutant: a stop that fails leaves the base Stopping, with nobody to retry.
BaseStoppedIfOk(t, rest) ==
    [doc |-> doc, tasks |-> rest,
     base |-> IF OwnsBase(t, {"Stopping"}) /\ t.res = "ok" THEN Base("Stopped") ELSE base]

\* A stop that fails or times out counts as stopped.
BaseStopped(t, rest) ==
    [doc |-> doc, tasks |-> rest,
     base |-> IF OwnsBase(t, {"Stopping"}) THEN Base("Stopped") ELSE base]

HandleBaseCompletion(t) ==
    LET rest == baseTasks \ {t}
    IN  IF t.kind = "stop" THEN BaseStopped(t, rest)
        ELSE IF t.res = "err" THEN BaseFailed(t, rest)
        ELSE IF t.kind = "prepare" THEN BasePrepared(t, rest)
        ELSE BaseBuilt(t, rest)

CompleteBaseTask ==
    /\ Awaiting
    /\ \E t \in baseTasks :
         /\ t.res # "running"
         /\ LET h == HandleBaseCompletion(t)
            IN  LoopTurn(h.doc, h.base, h.tasks, inst, FALSE)
    /\ UNCHANGED budgets

-----------------------------------------------------------------------------
(* Tasks, and what they do outside the controller *)

Fails(bad) ==
    IF bad THEN failures < MaxFailures /\ failures' = failures + 1 ELSE UNCHANGED failures

\* The results of a task and what each leaves: a QEMU process (vm), a pid in
\* the task's copy of status.backend, the directory.
Outcome(res, up, pid, there) == [res |-> res, vm |-> up, pid |-> pid, dir |-> there]

Same(i, t, res) == Outcome(res, vm[i], t.pid, dir[i])

CreateOutcomes(i, t) ==
    {Same(i, t, "err")} \cup {Outcome(res, vm[i], t.pid, TRUE) : res \in {"ok", "err"}}
\* prepare_runtime_paths removes the pid file and QEMU is launched anew.  A machine that
\* was there keeps the lock of the disk and fails the launch, unless it has ended by now
\* or, forgotten in a crash, runs on beside the new one on a disk removed since.
StartOutcomes(i, t) ==
    {Same(i, t, "err")} \cup {Outcome(res, TRUE, TRUE, dir[i]) : res \in {"ok", "err"}}
ReconcileOutcomes(i, t) ==
    {Same(i, t, "err"), IF t.pid /\ vm[i] THEN Same(i, t, "ok") ELSE Outcome("stopped", vm[i], FALSE, dir[i])}
\* stop_instance ends the recorded pid, else the one in the pid file, and is content
\* with neither: a crash during a start leaves no record, and the next start removes
\* the file, so that a machine from before a crash may be left running.
StopOutcomes(i, t) ==
    {Same(i, t, "err"), Outcome("err", FALSE, t.pid, dir[i])} \cup
    {Outcome("ok", up, FALSE, dir[i]) : up \in {FALSE, vm[i] /\ crashes > 0}}
RemoveFilesOutcomes(i, t) == {Outcome("ok", vm[i], t.pid, FALSE), Same(i, t, "err")}
BootstrapOutcomes(i, t) == {Same(i, t, "ok"), Same(i, t, "err")}
TailscaleOutcomes(i, t) == {Same(i, t, "ok"), Same(i, t, "err")}
SecretsOutcomes(i, t) == {Same(i, t, "ok"), Same(i, t, "expired"), Same(i, t, "err")}
HostInputsOutcomes(i, t) == {Same(i, t, "ok"), Same(i, t, "err")}
ExecOutcomes(i, t) == {Same(i, t, "ok")}

Outcomes(i, t) ==
    CASE t.kind = "create"      -> CreateOutcomes(i, t)
      [] t.kind = "start"       -> StartOutcomes(i, t)
      [] t.kind = "reconcile"   -> ReconcileOutcomes(i, t)
      [] t.kind \in {"stop", "stopForDelete"} -> StopOutcomes(i, t)
      [] t.kind = "removeFiles" -> RemoveFilesOutcomes(i, t)
      [] t.kind = "bootstrap"   -> BootstrapOutcomes(i, t)
      [] t.kind = "tailscale"   -> TailscaleOutcomes(i, t)
      [] t.kind = "secrets"     -> SecretsOutcomes(i, t)
      [] t.kind = "hostInputs"  -> HostInputsOutcomes(i, t)
      [] t.kind = "exec"        -> ExecOutcomes(i, t)

FinishTask(i, lane) ==
    /\ \E t \in inst[i].tasks : \E o \in Outcomes(i, t) :
         /\ Lane(t) = lane
         /\ t.res = "running"
         /\ Fails(o.res \in {"err", "expired"})
         /\ inst' = [inst EXCEPT ![i].tasks = (@ \ {t}) \cup {[t EXCEPT !.res = o.res, !.pid = o.pid]}]
         /\ vm' = [vm EXCEPT ![i] = o.vm]
         /\ dir' = [dir EXCEPT ![i] = o.dir]
         /\ \/ t.kind = "removeFiles" /\ file' = [file EXCEPT ![i] = NoFile]
            \/ ~(t.kind = "removeFiles" /\ o.res = "ok") /\ UNCHANGED file
    /\ UNCHANGED <<mode, pc, doc, saved, base, baseTasks, pending, acked, disk, crashes, execs>>

FinishBaseTask ==
    /\ \E t \in baseTasks : \E res \in {"ok", "err"} :
         /\ t.res = "running"
         /\ Fails(res = "err")
         /\ baseTasks' = (baseTasks \ {t}) \cup {[t EXCEPT !.res = res]}
    /\ UNCHANGED <<mode, pc, doc, saved, base, inst, pending, acked, world, crashes, execs>>

\* QEMU exits on its own.
VmDies(i) ==
    /\ vm[i]
    /\ Fails(TRUE)
    /\ vm' = [vm EXCEPT ![i] = FALSE]
    /\ UNCHANGED <<mode, pc, mem, pending, acked, disk, file, dir, crashes, execs>>

-----------------------------------------------------------------------------
(* commit_state: the agent document first, then the instances in id order *)

Committing == mode = "Running" /\ pc = "commit"

AgentDue == ~doc.deleted /\ saved # {doc}

InstanceDue(i) ==
    /\ ~doc.deleted /\ saved = {doc}
    /\ i \in DirtyIds(inst)
    /\ \A j \in DirtyIds(inst) : i <= j

\* After a write: the next one, or the answers.
Proceed(s, cells) ==
    IF InSync(doc, s, cells) THEN Answer(doc, pending) ELSE UNCHANGED <<pc, pending, acked>>

WriteAgentDoc ==
    /\ Committing /\ AgentDue
    /\ disk' = Holding(doc)
    /\ saved' = {doc}
    /\ Proceed({doc}, inst)
    /\ UNCHANGED <<mode, doc, base, baseTasks, inst, file, dir, vm, budgets>>

WriteInstanceDoc(i) ==
    /\ Committing /\ InstanceDue(i)
    /\ file' = [file EXCEPT ![i] = Holding(inst[i].doc)]
    /\ dir' = [dir EXCEPT ![i] = TRUE]
    /\ inst' = [inst EXCEPT ![i].saved = {inst[i].doc}]
    /\ Proceed(saved, inst')
    /\ UNCHANGED <<mode, doc, saved, base, baseTasks, disk, vm, budgets>>

\* Where a write in progress stops: before it or in the middle of the file.
WriteCutShort ==
    \/ UNCHANGED <<disk, file>>
    \/ AgentDue /\ disk' = TornFile /\ UNCHANGED file
    \/ \E i \in Ids : InstanceDue(i) /\ file' = [file EXCEPT ![i] = TornFile] /\ UNCHANGED disk

\* The write returns an error: the commands get it and the documents stay dirty.
WriteFails ==
    /\ Committing /\ ~doc.deleted
    /\ Fails(TRUE)
    /\ WriteCutShort
    /\ pc' = "input"
    /\ pending' = FALSE
    /\ UNCHANGED <<mode, mem, acked, dir, vm, crashes, execs>>

\* A deleted agent: its directory goes.  An error is only logged.
RemoveAgentDir ==
    /\ Committing /\ doc.deleted
    /\ \/ /\ disk' = NoFile
          /\ file' = [i \in Ids |-> NoFile]
          /\ dir' = [i \in Ids |-> FALSE]
          /\ acked' = {}
       \/ /\ RemovalMayFail
          /\ UNCHANGED <<disk, file, dir>>
          /\ acked' = IF pending THEN {Accepted(doc)} ELSE acked
    /\ saved' = {doc}
    /\ pc' = "input"
    /\ pending' = FALSE
    /\ UNCHANGED <<mode, doc, base, baseTasks, inst, vm, budgets>>

-----------------------------------------------------------------------------
(* The server stops at any point and is started again *)

Crash ==
    /\ mode # "Down"
    /\ crashes < MaxCrashes
    /\ crashes' = crashes + 1
    /\ IF Committing /\ ~doc.deleted THEN WriteCutShort ELSE UNCHANGED <<disk, file>>
    /\ mode' = "Down" /\ pc' = "input"
    /\ doc' = NoAgentDoc /\ saved' = {}
    /\ base' = Base("Missing") /\ baseTasks' = {}
    /\ inst' = [i \in Ids |-> Absent]
    /\ pending' = FALSE
    /\ UNCHANGED <<acked, dir, vm, failures, execs>>

\* Agent::spawn and the Load input.  The base is Ready again iff the document
\* names a ready key.
LoadDocuments ==
    LET d == CHOOSE d \in disk.doc : TRUE
        loaded(i) == LoadedInstanceDoc(CHOOSE x \in file[i].doc : TRUE)
    IN  /\ mode' = "Running"
        /\ saved' = {d}
        /\ Turn(d,
                IF d.baseReady = None THEN Base("Missing") ELSE BaseReady(d.baseReady),
                {},
                [i \in Ids |-> IF file[i].doc = {} THEN Absent ELSE RunningCell(loaded(i), {loaded(i)})],
                FALSE)

LoadRefused == disk.torn \/ (disk.doc # {} /\ \E i \in Ids : file[i].torn)

Restart ==
    /\ mode = "Down"
    /\ \/ LoadRefused /\ mode' = "LoadFailed" /\ UNCHANGED <<pc, mem, pending, acked>>
       \/ disk = NoFile /\ mode' = "Starting" /\ UNCHANGED <<pc, mem, pending, acked>>
       \/ ~LoadRefused /\ disk # NoFile /\ LoadDocuments
    /\ UNCHANGED <<world, budgets>>

-----------------------------------------------------------------------------

Command ==
    \/ \E m \in Manifests : ApplyFirst(m) \/ \E moved \in BOOLEAN : Apply(m, moved)
    \/ \E n \in 0 .. MaxReplicas : Scale(n)
    \/ Delete
    \/ \E i \in Ids : Exec(i)

Completion == CompleteBaseTask \/ \E i \in Ids, lane \in Lanes : CompleteTask(i, lane)

TaskStep ==
    \/ FinishBaseTask
    \/ \E i \in Ids, lane \in Lanes : FinishTask(i, lane)
    \/ \E i \in Ids : VmDies(i)

CommitStep ==
    WriteAgentDoc \/ WriteFails \/ RemoveAgentDir \/ \E i \in Ids : WriteInstanceDoc(i)

Next == Command \/ Wake \/ Completion \/ TaskStep \/ CommitStep \/ Crash \/ Restart

Spec == Init /\ [][Next]_vars

-----------------------------------------------------------------------------

\* Every variable has its type.
TypeOK ==
    /\ mode \in {"Down", "Starting", "Running", "LoadFailed"}
    /\ pc \in {"input", "commit"}
    /\ doc \in AgentDocs
    /\ \A d \in saved \cup disk.doc : d \in AgentDocs
    /\ base \in BaseStates
    /\ \A i \in Ids :
         /\ inst[i].st \in {"absent", "starting", "running"}
         /\ \A d \in {inst[i].doc} \cup inst[i].saved \cup file[i].doc : d \in InstanceDocs
         /\ \A t \in inst[i].tasks : t \in Tasks
         /\ Cardinality(inst[i].work) <= 1

-----------------------------------------------------------------------------
(* Safety *)

TasksFor(work) ==
    IF work = "Creating" THEN {"create"}
    ELSE IF work = "Reconciling" THEN {"reconcile", "tailscale"}
    ELSE IF work = "Repairing" THEN {"reconcile"}
    ELSE IF work = "Starting" THEN {"start"}
    ELSE IF work = "Bootstrapping" THEN {"bootstrap"}
    ELSE IF work = "Stopping" THEN {"stop"}
    ELSE {"stopForDelete", "removeFiles"}

Owners(c, t) ==
    IF t.kind = "secrets" THEN c.secrets \cap {t.id}
    ELSE IF t.kind = "hostInputs" THEN c.host \cap {t.id}
    ELSE IF t.kind = "exec" THEN c.session \cap {t.id}
    ELSE {w.id : w \in {w \in c.work : w.id = t.id /\ w.gen = t.gen /\ t.kind \in TasksFor(w.kind)}}

\* Every task in flight is owned by the slot that will accept its completion,
\* and every occupied slot owns exactly one task: no completion is dropped, no
\* slot blocks an instance for ever, and no task works behind the loop's back.
OwnedWork ==
    /\ \A i \in Ids :
         LET c == inst[i]
         IN  /\ \A t \in c.tasks : Owners(c, t) # {}
             /\ \A t, u \in c.tasks : t.id = u.id => t = u
             /\ {w.id : w \in c.work} \cup c.secrets \cup c.host \cup c.session
                  = {t.id : t \in c.tasks}
    /\ \A t \in baseTasks : OwnsBase(t, {[prepare |-> "Preparing", build |-> "Building", stop |-> "Stopping"][t.kind]})
    /\ Cardinality(baseTasks) = IF base.st \in {"Preparing", "Building", "Stopping"} THEN 1 ELSE 0

\* A QEMU process that no task is working on is recorded in the document of an
\* instance the loop knows: no completion writes an older copy of
\* status.backend over a newer one, and no instance is forgotten with its VM.
BackendRecorded ==
    mode = "Running" /\ crashes = 0 =>
      \A i \in Ids :
        vm[i] /\ (\A t \in inst[i].tasks : t.kind \notin BackendTasks)
          => IsRunning(inst[i]) /\ inst[i].doc.pid

\* An instance directory is removed only when the Deleted document is on disk and no
\* commit writes one back meanwhile, and, unless a crash lost its pid, its VM is off.
RemovalBarrier ==
    \A i \in Ids : \A t \in inst[i].tasks :
      t.kind = "removeFiles" =>
        /\ crashes = 0 => ~vm[i]
        /\ inst[i].doc.phase = "Deleted"
        /\ DirtyIds(inst) \cap {i} = {}

\* A persisted instance document belongs to an instance the loop manages: a
\* restart never brings back an instance that had been removed.
NoGhost ==
    mode = "Running" => \A i \in Ids : file[i] # NoFile => IsRunning(inst[i])

\* What is removed stays removed, through crashes: the directory of an instance goes only
\* once the Deleted document is on disk (remove_instance), and a document on disk belongs
\* to an instance the loop still manages, so that no restart brings one back.  Its VM is
\* off by then, except that a crash may have left one whose pid nobody knows.
RemovedForGood == RemovalBarrier /\ NoGhost

\* What a client was told is on disk: a restart finds the acknowledged desired
\* state or a later one.  (A torn file makes the agent refuse to load.)
DurableAck ==
    \A a \in acked :
      \/ disk.torn
      \/ \E d \in disk.doc :
           d.gen > a.gen \/ Accepted(d) = a

\* A document that reports convergence is right: the replicas run what the manifest
\* asks for, every other instance is stopped, and unless some task failed its VM is off.
ConvergedMeansCurrent ==
    Awaiting /\ ~doc.reconciling /\ ~doc.del =>
      \A i \in Ids :
        IF TargetFor(doc, i) = "Active"
        THEN /\ IsRunning(inst[i])
             /\ inst[i].doc.phase = "Running"
             /\ inst[i].doc.mtmpl = doc.tmpl
             /\ inst[i].doc.mbase = doc.baseReady
        ELSE /\ inst[i].st # "starting"
             /\ IsRunning(inst[i]) => inst[i].doc.phase = "Stopped"
             /\ crashes = 0 /\ failures = 0 => ~vm[i]

\* An agent that reports its instances stopped runs none of them: "paused apply is not
\* observed until instances stop".
StoppedIsOff ==
    Awaiting /\ crashes = 0 /\ ~doc.reconciling /\ Inactive(doc) => \A i \in Ids : ~vm[i]

\* An agent reported as deleted has left nothing running.
DeletedClean ==
    mode = "Running" /\ doc.deleted /\ crashes = 0 =>
      /\ \A i \in Ids : ~vm[i] /\ inst[i].tasks = {}
      /\ baseTasks = {}

\* What the agent's document reports is true: convergence that the replicas run what
\* the manifest asks for and nothing else runs, deletion that nothing is left.
ReportsTrue == ConvergedMeansCurrent /\ DeletedClean

\* Instances are created on the base built from their own template.
BaseMatchesTemplate ==
    \A i \in Ids : IsRunning(inst[i]) => inst[i].doc.mbase = inst[i].doc.mtmpl

\* validate_mediated_auth_bindings: an instance never runs under a manifest whose
\* mediated auth bindings differ from the ones it was created with.
AuthBindingsFixed ==
    \A i \in Ids :
      IsRunning(inst[i]) => AuthBindings[inst[i].doc.mtmpl] = AuthBindings[doc.tmpl]

\* Nothing deletes an instance under a foreground session: no cleanup task runs
\* while one is open, and its directory stays.
SessionHoldsInstance ==
    \A i \in Ids : inst[i].session # {} =>
      /\ dir[i]
      /\ \A t \in inst[i].tasks : t.kind \notin {"stopForDelete", "removeFiles"}

\* Acknowledged generations only go up, across crashes too, and never name two
\* desired states.
AckedMonotonic ==
    [][\A a \in acked, b \in acked' : b.gen > a.gen \/ b = a]_vars

-----------------------------------------------------------------------------
(* Liveness *)

CommitProceeds == WriteAgentDoc \/ RemoveAgentDir \/ \E i \in Ids : WriteInstanceDoc(i)

\* A lane has at most one task.  Every task has a timeout, so it stops running;
\* once it has, its completion is in the inbox and is received.
Ends(i, lane) == []<>(\A t \in inst[i].tasks : Lane(t) = lane => t.res # "running")
Received(i, lane) == []<>(\A t \in inst[i].tasks : Lane(t) = lane => t.res = "running")
BaseEnds == []<>(\A t \in baseTasks : t.res # "running")
BaseReceived == []<>(\A t \in baseTasks : t.res = "running")

\* The next turn may occupy a slot, once its deadline has passed.
Due(i, lane) ==
    /\ Awaiting
    /\ inst[i][lane] = {}
    /\ \E c \in TurnCell(inst[i], doc, base, i) : c[lane] # {}

DeadlinePasses(i, lane) == []<>Due(i, lane) => []<>(inst[i][lane] # {})

\* The refreshes of secrets and host inputs leave gaps: each puts the next one
\* off, by minutes unless a credential has expired.
Rests(i) == []<>(Awaiting /\ inst[i].secrets = {} /\ inst[i].host = {})

\* Writes return, timers fire, tasks end, completions arrive, deadlines pass.
Fairness ==
    /\ WF_vars(CommitProceeds)
    /\ WF_vars(Wake)
    /\ BaseEnds /\ BaseReceived
    /\ \A i \in Ids, lane \in Lanes : Ends(i, lane) /\ Received(i, lane)
    /\ \A i \in Ids, lane \in {"work", "secrets", "host"} : DeadlinePasses(i, lane)
    /\ \A i \in Ids : Rests(i)

LiveSpec == Spec /\ Fairness

\* The condition a client of this document waits for.
Awaited(d) ==
    IF d.del THEN "Deleted" ELSE IF Inactive(d) THEN "Stopped" ELSE "Ready"

Settled == WaitStatus(doc, doc.gen, Awaited(doc)) # "Pending"

\* Whoever waits on the agent gets an answer: commands that change what is
\* wanted are finite in number (MaxGeneration) or separated by a deletion.
Settles == []<>(mode = "Running" => Settled)

\* A deletion ends in a deleted agent, unless the agent is applied again.
DeletionCompletes == doc.del ~> (doc.deleted \/ ~doc.del)
=============================================================================
