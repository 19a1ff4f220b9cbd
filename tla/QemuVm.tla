------------------------------- MODULE QemuVm --------------------------------
(***************************************************************************)
(* The virtual machine of an instance or of an agent base, as the QEMU     *)
(* backend drives it (agentdp-server/src/qemu/lifecycle.rs and network.rs, *)
(* agent/base.rs, agentdp-qemu, agentdp-platform process).  One operation  *)
(* runs at a time, on a copy of the record that is handed back when it     *)
(* ends and saved some time after.  QEMU outlives the server: a crash      *)
(* leaves the machine, its pid file, its sockets and its disk behind.      *)
(* QEMU itself locks the disk, so two machines never run on one.           *)
(***************************************************************************)
EXTENDS Naturals

CONSTANTS MaxStarts, MaxVmCrashes, MaxRetries   \* bounds: QEMU processes, crashes of the server, operations

ASSUME QemuAssumption == {MaxStarts, MaxVmCrashes, MaxRetries} \subseteq Nat

VARIABLES
    kind,      \* "instance" or "base"
    vm,        \* the pid of the running QEMU, 0 if there is none
    pids,      \* history: how many were started
    runDir,    \* run directory: [pidFile, sockets]
    disk,      \* [image, overlay, boot]: the cached image, the disk, what bootstrap left on it
    rec,       \* the record in memory: [phase, pid]
    saved,     \* the record on disk
    net,       \* the instance network: [on, secrets]
    host,      \* version of the host's secrets
    task,      \* the operation: [at, pid, why, secrets]
    baseDoc,   \* the base document: "none", "ready" or "torn"
    lost,      \* history: machines whose start a crash cut short
    vmCounts   \* history: [crashes, operations]

qemuVars == <<kind, vm, pids, runDir, disk, rec, saved, net, host, task, baseDoc, lost, vmCounts>>

Idle == [at |-> "idle", pid |-> 0, why |-> "", secrets |-> 0]
NoRecord == [phase |-> "none", pid |-> 0]
NoFiles == [pidFile |-> 0, sockets |-> FALSE]
Off == [on |-> FALSE, secrets |-> 0]

QemuTypeOK ==
    /\ vm \in 0 .. MaxStarts /\ pids \in 0 .. MaxStarts /\ runDir.pidFile \in 0 .. MaxStarts
    /\ {rec.phase, saved.phase} \subseteq {"none", "Materialized", "Running", "Stopped", "Failed"}
    /\ disk.image \in {"none", "part", "whole"} /\ disk.overlay \in BOOLEAN
    /\ disk.boot \in {"none", "passed", "failed"} /\ baseDoc \in {"none", "ready", "torn"}
    /\ net.on \in BOOLEAN /\ lost \subseteq 1 .. MaxStarts
    /\ kind = "instance" => \A r \in {rec, saved} : r.phase = "none" => r.pid = 0

QemuInit ==
    /\ kind \in {"instance", "base"} /\ vm = 0 /\ pids = 0 /\ runDir = NoFiles
    /\ disk = [image |-> "none", overlay |-> FALSE, boot |-> "none"]
    /\ rec = NoRecord /\ saved = NoRecord /\ net = Off /\ host = 1
    /\ task = Idle /\ baseDoc = "none" /\ lost = {} /\ vmCounts = [crashes |-> 0, operations |-> 0]

frozen == <<kind, host, lost, vmCounts>>
-----------------------------------------------------------------------------
\* cleanup_runtime_files: the network first, then pid file and sockets.
CleanUp == net' = Off /\ runDir' = NoFiles

\* A network thread with the secrets that were just collected.
Attached == [on |-> TRUE, secrets |-> host]

\* The end of an operation: the control loop takes over the record the task worked on.
Done(phase, pid) == rec' = [phase |-> phase, pid |-> pid] /\ task' = Idle

\* An error: the instance has failed, unless it is not created yet, or the generation the
\* operation worked for is no longer wanted, which leaves the phase as it is.
Fails(pid) == \E phase \in {rec.phase, IF rec.phase = "none" THEN "none" ELSE "Failed"} : Done(phase, pid)
Step(at) == task' = [task EXCEPT !.at = at]

Begin(at) ==
    /\ task = Idle /\ vmCounts.operations < MaxRetries
    /\ vmCounts' = [vmCounts EXCEPT !.operations = @ + 1]
    /\ task' = [Idle EXCEPT !.at = at, !.pid = rec.pid]
    /\ UNCHANGED <<kind, vm, pids, runDir, disk, rec, saved, net, host, baseDoc, lost>>

\* What the control loop asks for: see AgentController.
Request ==
    \/ kind = "instance" /\ rec.phase = "none" /\ Begin("prepare")
    \/ kind = "instance" /\ rec.phase \in {"Materialized", "Stopped", "Failed"} /\ Begin("network")
    \/ kind = "instance" /\ rec.phase \in {"Materialized", "Running", "Stopped", "Failed"} /\ Begin("stop")
    \/ kind = "instance" /\ rec.phase = "Running" /\ (Begin("reconcile") \/ Begin("secrets"))
    \/ kind = "base" /\ rec.phase = "none" /\ Begin("reuse")
    \/ kind = "base" /\ Begin("stopBase")

\* The commit at the end of a turn of the control loop.
Save ==
    /\ rec # saved /\ saved' = rec
    /\ UNCHANGED <<frozen, vm, pids, runDir, disk, rec, net, task, baseDoc>>
-----------------------------------------------------------------------------
\* create_instance: keys, certificate authority and seed are written over; then the image.
Prepare ==
    /\ task.at = "prepare"
    /\ \/ Step("image") /\ UNCHANGED rec
       \/ Fails(task.pid)
    /\ UNCHANGED <<frozen, vm, pids, runDir, disk, saved, net, baseDoc>>

\* prepare_base: the seed of a base has no keys and no secrets.
PrepareBase ==
    /\ task.at = "prepareBase"
    /\ Step("image") \/ task' = Idle
    /\ UNCHANGED <<frozen, vm, pids, runDir, disk, rec, saved, net, baseDoc>>

\* ensure_cached: a whole image or a partial download, never half an image under its name.
EnsureCached ==
    /\ task.at = "image"
    /\ \/ disk.image = "whole" /\ UNCHANGED <<disk, rec>> /\ Step("overlay")
       \/ disk.image # "whole" /\ disk' = [disk EXCEPT !.image = "whole"] /\ UNCHANGED rec /\ Step("overlay")
       \/ disk.image # "whole" /\ disk' = [disk EXCEPT !.image = "part"] /\ Fails(task.pid)
    /\ UNCHANGED <<frozen, vm, pids, runDir, saved, net, baseDoc>>

\* create_overlay: an instance's disk must not exist yet.
CreateOverlay ==
    /\ task.at = "overlay" /\ kind = "instance"
    /\ \/ disk.overlay /\ Fails(task.pid) /\ UNCHANGED disk
       \/ ~disk.overlay /\ disk' = [disk EXCEPT !.overlay = TRUE] /\ Done("Materialized", 0)
    /\ UNCHANGED <<frozen, vm, pids, runDir, saved, net, baseDoc>>

\* create_base: a disk that is there is used again.
CreateBaseDisk ==
    /\ task.at = "overlay" /\ kind = "base"
    /\ disk' = [disk EXCEPT !.overlay = TRUE] /\ Step("qemu") /\ UNCHANGED rec
    /\ UNCHANGED <<frozen, vm, pids, runDir, saved, net, baseDoc>>
-----------------------------------------------------------------------------
\* start_instance_network: the network before is stopped, the socket prepared.
StartNetwork ==
    /\ task.at = "network"
    /\ \/ net' = Attached /\ Step("qemu") /\ UNCHANGED rec
       \/ net' = Off /\ Fails(task.pid)
    /\ UNCHANGED <<frozen, vm, pids, runDir, disk, saved, baseDoc>>

\* QemuSystem::start: stale files are removed, QEMU takes the disk or fails.
StartQemu ==
    /\ task.at = "qemu"
    /\ \/ /\ vm = 0 /\ pids < MaxStarts
          /\ vm' = pids + 1 /\ pids' = pids + 1
          /\ runDir' = [pidFile |-> pids + 1, sockets |-> TRUE]
          /\ task' = [task EXCEPT !.at = IF kind = "base" THEN "wait" ELSE "ready", !.pid = pids + 1]
          /\ UNCHANGED <<rec, net>>
       \/ /\ CleanUp /\ Fails(task.pid)
          /\ UNCHANGED <<vm, pids>>
    /\ UNCHANGED <<frozen, disk, saved, baseDoc>>

\* Mutant: the machine is taken for gone once it was told to end.
TerminateAssumed(pid) == UNCHANGED vm

\* terminate_process and wait_for_process_exit; the other outcome is ProcessStillRunning.
Terminate(pid) == vm' = IF vm = pid THEN 0 ELSE vm

\* wait_instance_network_ready, and what start_instance does when the guest stays silent.
NetworkReady ==
    /\ task.at = "ready"
    /\ \/ Done("Running", task.pid) /\ UNCHANGED <<vm, runDir, net>>
       \/ net' = Off /\ Fails(task.pid) /\ UNCHANGED <<vm, runDir>>
       \/ CleanUp /\ Terminate(task.pid) /\ Fails(0)
    /\ UNCHANGED <<frozen, pids, disk, saved, baseDoc>>
-----------------------------------------------------------------------------
\* stop_instance and stop_base_runtime: the recorded pid, else the one in the pid file;
\* for a base, else the process that has its disk open.
FindPid ==
    IF kind = "base" THEN (IF runDir.pidFile # 0 THEN runDir.pidFile ELSE vm)
    ELSE IF task.pid # 0 THEN task.pid ELSE runDir.pidFile

\* A command over the QMP socket, and QEMU ends in time.
QmpEnds(pid) == vm = pid /\ runDir.sockets /\ vm' = 0

\* stop_running_qemu_process: powerdown, quit, terminate; then the files and the network.
StopVm ==
    /\ task.at \in {"stop", "stopBase"}
    /\ \/ vm # 0 /\ vm = FindPid /\ Fails(task.pid) /\ UNCHANGED <<vm, runDir, net>>
       \/ /\ QmpEnds(FindPid) \/ Terminate(FindPid)
          /\ CleanUp
          /\ IF kind = "base" THEN Fails(0) ELSE Done("Stopped", 0)
    /\ UNCHANGED <<frozen, pids, disk, saved, baseDoc>>

\* inspect_process, for the only phase the control loop reconciles.
Stale == task.pid = 0 \/ vm # task.pid

\* reconcile: a machine that is gone is cleaned up, a network that is gone started again.
Reconcile ==
    /\ task.at = "reconcile"
    /\ \/ Stale /\ CleanUp /\ Done("Stopped", 0)
       \/ ~Stale /\ net' = (IF net.on THEN net ELSE Attached)
                 /\ Done("Running", task.pid) /\ UNCHANGED runDir
       \/ ~net.on /\ ~Stale /\ Fails(task.pid) /\ UNCHANGED <<runDir, net>>
    /\ UNCHANGED <<frozen, vm, pids, disk, saved, baseDoc>>

\* reconcile_runtime_secrets: what was collected is given to the network.
CollectSecrets ==
    /\ task.at = "secrets" /\ task' = [task EXCEPT !.at = "give", !.secrets = host]
    /\ UNCHANGED <<frozen, vm, pids, runDir, disk, rec, saved, net, baseDoc>>

GiveSecrets ==
    /\ task.at = "give"
    /\ net' \in {net, [on |-> TRUE, secrets |-> task.secrets]}
    /\ task' = Idle
    /\ UNCHANGED <<frozen, vm, pids, runDir, disk, rec, saved, baseDoc>>
-----------------------------------------------------------------------------
\* ensure_agent_base_ready: a document that says ready is enough; one that cannot be
\* read is an error.  Using it writes it again.
ReuseBase ==
    /\ task.at = "reuse"
    /\ \/ baseDoc = "ready" /\ disk.overlay /\ task' = [task EXCEPT !.at = "document", !.why = "used"]
       \/ baseDoc = "torn" /\ task' = Idle
       \/ (baseDoc = "none" \/ (baseDoc = "ready" /\ ~disk.overlay)) /\ Step("prepareBase")
    /\ UNCHANGED <<frozen, vm, pids, runDir, disk, rec, saved, net, baseDoc>>

\* The guest bootstraps, or reports the failure it finds on the disk, whoever watches.
GuestBootstraps ==
    /\ vm # 0 /\ disk.boot = "none" /\ disk' \in {[disk EXCEPT !.boot = b] : b \in {"passed", "failed"}}
    /\ UNCHANGED <<frozen, vm, pids, runDir, rec, saved, net, task, baseDoc>>

\* The document is written when bootstrap passed and the machine is down.
BaseVerdict(passed, stopped) == passed /\ stopped

\* wait_bootstrap, then stop_base whatever came of it.
WaitBase ==
    /\ task.at = "wait"
    /\ \E passed \in {disk.boot = "passed", FALSE}, stopped \in BOOLEAN :
          /\ stopped => vm' = 0 /\ runDir' = NoFiles
          /\ ~stopped => vm # 0 /\ UNCHANGED <<vm, runDir>>
          /\ task' = IF BaseVerdict(passed, stopped) THEN [task EXCEPT !.at = "document", !.why = "built"] ELSE Idle
    /\ UNCHANGED <<frozen, pids, disk, rec, saved, net, baseDoc>>

\* write_agent_base_document, in place.
WriteBaseDocument ==
    /\ task.at = "document" /\ baseDoc' = "ready" /\ task' = Idle
    /\ UNCHANGED <<frozen, vm, pids, runDir, disk, rec, saved, net>>
-----------------------------------------------------------------------------
\* QEMU exits by itself: the guest powers off, or it is killed.
VmExits ==
    /\ vm # 0 /\ vm' = 0
    /\ UNCHANGED <<frozen, pids, runDir, disk, rec, saved, net, task, baseDoc>>

RotateSecrets ==
    /\ host = 1 /\ host' = 2
    /\ UNCHANGED <<kind, vm, pids, runDir, disk, rec, saved, net, task, baseDoc, lost, vmCounts>>

\* The server ends, anywhere: also in the middle of writing a document.
ServerCrashes ==
    /\ vmCounts.crashes < MaxVmCrashes /\ vmCounts' = [vmCounts EXCEPT !.crashes = @ + 1]
    /\ task' = Idle /\ net' = Off /\ rec' = saved
    /\ lost' = IF vm # 0 /\ saved.pid # vm THEN lost \cup {vm} ELSE lost
    /\ baseDoc' \in (IF task.at = "document" THEN {baseDoc, "torn"} ELSE {baseDoc})
    /\ disk' = IF task.at = "image" /\ disk.image = "none" THEN [disk EXCEPT !.image = "part"] ELSE disk
    /\ UNCHANGED <<kind, vm, pids, runDir, saved, host>>

QemuNext ==
    \/ Request \/ Save \/ Prepare \/ PrepareBase \/ EnsureCached \/ CreateOverlay \/ CreateBaseDisk \/ StartNetwork \/ StartQemu \/ NetworkReady
    \/ StopVm \/ Reconcile \/ CollectSecrets \/ GiveSecrets \/ ReuseBase \/ GuestBootstraps \/ WaitBase
    \/ WriteBaseDocument \/ VmExits \/ RotateSecrets \/ ServerCrashes

QemuSpec == QemuInit /\ [][QemuNext]_qemuVars
-----------------------------------------------------------------------------
\* Between operations every machine is the one its record names, so that stop_instance
\* can find and end it, unless a crash hit it between its start and the save of its
\* record; and an instance that is said to be stopped runs no network.  (It may still
\* run the recorded machine: a start that failed for a generation no longer wanted.)
VmAccounted ==
    task = Idle /\ kind = "instance" =>
        /\ vm # 0 => vm = rec.pid \/ vm \in lost
        /\ rec.phase = "Stopped" => ~net.on

\* A base that is said to be ready was bootstrapped to the end, and nothing runs on
\* its disk any more, whatever crashed while it was built.
ReadyBaseSound == baseDoc = "ready" => disk.boot = "passed" /\ vm = 0

\* What the server believes of its machines is right, for instances and for bases
\* (qemu/lifecycle.rs, agent/base.rs).
MachinesSound == VmAccounted /\ ReadyBaseSound
=============================================================================
