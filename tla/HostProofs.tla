----------------------------- MODULE HostProofs ------------------------------
(***************************************************************************)
(* Proofs about what the server keeps of an instance: its QEMU process     *)
(* and that of a base, its network thread, and what its status says of a   *)
(* bootstrap, for every number of starts, crashes, messages and            *)
(* operations.                                                             *)
(***************************************************************************)
EXTENDS QemuVm, InstanceNetwork, BootstrapProgress, SequenceTheorems, TLAPS

-----------------------------------------------------------------------------
(* The machine of an instance or a base (qemu/lifecycle.rs, agent/base.rs) *)

Phases == {"none", "Materialized", "Running", "Stopped", "Failed"}
InstanceWork == {"prepare", "image", "overlay", "network", "qemu", "ready", "stop", "reconcile",
                 "secrets", "give"}
BaseWork == {"reuse", "prepareBase", "image", "overlay", "qemu", "wait", "document", "stopBase"}
Records == [phase : Phases, pid : 0 .. MaxStarts]
Operations == [at : InstanceWork \cup BaseWork \cup {"idle"}, pid : 0 .. MaxStarts,
               why : {"", "used", "built"}, secrets : 0 .. 2]

QemuTypesInv ==
    /\ kind \in {"instance", "base"}
    /\ vm \in 0 .. MaxStarts /\ pids \in 0 .. MaxStarts
    /\ runDir \in [pidFile : 0 .. MaxStarts, sockets : BOOLEAN]
    /\ disk \in [image : {"none", "part", "whole"}, overlay : BOOLEAN,
                 boot : {"none", "passed", "failed"}]
    /\ rec \in Records /\ saved \in Records
    /\ net \in [on : BOOLEAN, secrets : 0 .. 2]
    /\ host \in 1 .. 2
    /\ task \in Operations
    /\ baseDoc \in {"none", "ready", "torn"}
    /\ lost \subseteq 1 .. MaxStarts
    /\ vmCounts \in [crashes : 0 .. MaxVmCrashes, operations : 0 .. MaxRetries]

\* The pid in charge: the record's, and that of the operation's copy while one runs.
KnownPid == IF task.at = "idle" THEN rec.pid ELSE task.pid

\* The record of an instance that is not created yet names no machine.
Consistent(r) == r.phase = "none" => r.pid = 0

\* An instance: a machine is known by its pid or was lost to a crash; an operation on
\* a running instance finds it recorded as running.
InstanceInv ==
    kind = "instance" =>
        /\ task.at \in InstanceWork \cup {"idle"}
        /\ baseDoc = "none"
        /\ vm # 0 => vm = KnownPid \/ vm \in lost
        /\ Consistent(rec) /\ Consistent(saved)
        /\ task.at \in {"prepare", "image", "overlay"} => rec.phase = "none" /\ task.pid = 0
        /\ task.at \in {"network", "qemu", "ready", "stop"} => rec.phase # "none"
        /\ task.at \in {"reconcile", "secrets", "give"} => rec.phase = "Running"
        /\ task.at \in {"idle", "stop"} /\ rec.phase = "Stopped" => ~net.on
        /\ task.at \in {"secrets", "give"} => task.pid = rec.pid

\* A base: from the disk to the document no machine is left on a disk that is ready.
BaseInv ==
    kind = "base" =>
        /\ task.at \in BaseWork \cup {"idle"}
        /\ rec.phase = "none" /\ saved.phase = "none"
        /\ baseDoc = "ready" \/ task.at = "document" =>
              disk.boot = "passed" /\ vm = 0 /\ disk.overlay
        /\ task.at \in {"prepareBase", "image", "overlay", "qemu", "wait"} => baseDoc # "ready"
        /\ task.at \in {"qemu", "wait"} => disk.overlay

IdleInv == task.at = "idle" => task = Idle

QemuInv == QemuTypesInv /\ IdleInv /\ InstanceInv /\ BaseInv

Ats == InstanceWork \cup BaseWork \cup {"idle"}
PidRange == 0 .. MaxStarts

\* What the record and the operation are after an operation has ended, or gone on.
LEMMA IdleFacts == Idle \in Operations /\ Idle.at = "idle" /\ Idle.pid = 0
BY QemuAssumption DEF Idle, Operations

LEMMA DoneFacts ==
    ASSUME NEW phase \in Phases, NEW pid \in PidRange, Done(phase, pid)
    PROVE  /\ rec' \in Records /\ rec'.phase = phase /\ rec'.pid = pid
           /\ task' \in Operations /\ task' = Idle /\ task'.at = "idle" /\ task'.pid = 0
BY IdleFacts DEF Done, Records, PidRange

LEMMA FailsFacts ==
    ASSUME QemuTypesInv, NEW pid \in PidRange, Fails(pid)
    PROVE  /\ rec' \in Records /\ rec'.pid = pid
           /\ rec.phase = "none" => rec'.phase = "none"
           /\ rec.phase # "none" => rec'.phase \in {rec.phase, "Failed"}
           /\ task' \in Operations /\ task' = Idle /\ task'.at = "idle" /\ task'.pid = 0
<1>1. PICK phase \in {rec.phase, IF rec.phase = "none" THEN "none" ELSE "Failed"} : Done(phase, pid)
    BY DEF Fails
<1>2. phase \in Phases BY DEF Phases, QemuTypesInv, Records
<1>3. /\ rec' \in Records /\ rec'.phase = phase /\ rec'.pid = pid
      /\ task' \in Operations /\ task' = Idle /\ task'.at = "idle" /\ task'.pid = 0
    BY <1>1, <1>2, DoneFacts
<1> QED BY <1>1, <1>3

LEMMA StepFacts ==
    ASSUME QemuTypesInv, NEW at \in Ats, Step(at)
    PROVE  task' \in Operations /\ task'.at = at /\ task'.pid = task.pid
BY DEF Step, QemuTypesInv, Operations, Ats

LEMMA TaskFacts ==
    ASSUME QemuTypesInv
    PROVE  task.at \in Ats /\ task.pid \in PidRange /\ rec.pid \in PidRange /\ 0 \in PidRange
           /\ rec.phase \in Phases
<1>1. task.at \in Ats BY DEF QemuTypesInv, Operations, Ats
<1>2. task.pid \in PidRange BY DEF QemuTypesInv, Operations, PidRange
<1>3. rec.pid \in PidRange /\ rec.phase \in Phases BY DEF QemuTypesInv, Records, PidRange
<1>4. 0 \in PidRange BY QemuAssumption DEF PidRange
<1> QED BY <1>1, <1>2, <1>3, <1>4
-----------------------------------------------------------------------------
(* How an operation leaves the invariant behind, by the kind of machine. *)

\* An operation of an instance ends with a record that is true of the machine.
LEMMA InstanceEnds ==
    ASSUME QemuInv, kind = "instance", UNCHANGED <<kind, baseDoc, saved, lost>>,
           task' = Idle, task'.at = "idle", Consistent(rec'),
           vm' # 0 => vm' = rec'.pid \/ vm' \in lost, rec'.phase = "Stopped" => ~net'.on
    PROVE  IdleInv' /\ InstanceInv' /\ BaseInv'
BY DEF QemuInv, IdleInv, InstanceInv, BaseInv, KnownPid, Consistent, Idle

\* An operation of an instance goes on: the record stays as it was.
LEMMA InstanceGoesOn ==
    ASSUME QemuInv, kind = "instance", UNCHANGED <<kind, baseDoc, saved, lost, rec>>,
           NEW at \in InstanceWork, task'.at = at, vm' # 0 => vm' = task'.pid \/ vm' \in lost,
           at \in {"prepare", "image", "overlay"} => rec.phase = "none" /\ task'.pid = 0,
           at \in {"network", "qemu", "ready", "stop"} => rec.phase # "none",
           at \in {"reconcile", "secrets", "give"} => rec.phase = "Running",
           at \in {"secrets", "give"} => task'.pid = rec.pid,
           at = "stop" /\ rec.phase = "Stopped" => ~net'.on
    PROVE  IdleInv' /\ InstanceInv' /\ BaseInv'
<1>1. at # "idle" BY DEF InstanceWork
<1> QED BY <1>1 DEF QemuInv, IdleInv, InstanceInv, BaseInv, KnownPid, Consistent

\* An operation of a base ends or goes on.
LEMMA BaseMoves ==
    ASSUME QemuInv, kind = "base", kind' = kind,
           task'.at \in BaseWork \cup {"idle"}, task'.at = "idle" => task' = Idle,
           rec'.phase = "none", saved' = saved,
           baseDoc' = "ready" \/ task'.at = "document" =>
              disk'.boot = "passed" /\ vm' = 0 /\ disk'.overlay,
           task'.at \in {"prepareBase", "image", "overlay", "qemu", "wait"} => baseDoc' # "ready",
           task'.at \in {"qemu", "wait"} => disk'.overlay
    PROVE  IdleInv' /\ InstanceInv' /\ BaseInv'
<1>1. kind' = "base" /\ kind' # "instance" OBVIOUS
<1>2. InstanceInv' BY <1>1 DEF InstanceInv
<1>3. BaseInv' BY <1>1 DEF QemuInv, BaseInv
<1>4. IdleInv' BY <1>1 DEF IdleInv, Idle
<1> QED BY <1>2, <1>3, <1>4
-----------------------------------------------------------------------------
(* One lemma for every action. *)

LEMMA QemuInitInv == QemuInit => QemuInv
<1> SUFFICES ASSUME QemuInit PROVE QemuInv OBVIOUS
<1>1. task = Idle /\ task.at = "idle" /\ task \in Operations BY IdleFacts DEF QemuInit
<1>2. /\ rec = NoRecord /\ saved = NoRecord /\ NoRecord \in Records
      /\ NoRecord.phase = "none" /\ NoRecord.pid = 0
    BY QemuAssumption DEF QemuInit, NoRecord, Records, Phases
<1>3. runDir \in [pidFile : 0 .. MaxStarts, sockets : BOOLEAN]
    BY QemuAssumption DEF QemuInit, NoFiles
<1>4. disk \in [image : {"none", "part", "whole"}, overlay : BOOLEAN,
                boot : {"none", "passed", "failed"}]
    BY DEF QemuInit
<1>5. net \in [on : BOOLEAN, secrets : 0 .. 2] BY DEF QemuInit, Off
<1>6. vmCounts \in [crashes : 0 .. MaxVmCrashes, operations : 0 .. MaxRetries]
    BY QemuAssumption DEF QemuInit
<1>7. QemuTypesInv
    BY <1>1, <1>2, <1>3, <1>4, <1>5, <1>6, QemuAssumption DEF QemuInit, QemuTypesInv
<1>8. IdleInv BY <1>1 DEF IdleInv
<1>9. InstanceInv BY <1>1, <1>2 DEF InstanceInv, QemuInit, KnownPid, Consistent
<1>10. BaseInv BY <1>1, <1>2 DEF BaseInv, QemuInit
<1> QED BY <1>7, <1>8, <1>9, <1>10 DEF QemuInv

\* An operation begins with the pid of the record.
LEMMA BeginKeeps ==
    ASSUME QemuInv, NEW at \in Ats, at # "idle", Begin(at),
           kind = "instance" => /\ at \in {"prepare", "network", "stop", "reconcile", "secrets"}
                                /\ at = "prepare" => rec.phase = "none"
                                /\ at \in {"network", "stop"} => rec.phase # "none"
                                /\ at \in {"reconcile", "secrets"} => rec.phase = "Running",
           kind = "base" => at \in {"reuse", "stopBase"}
    PROVE  QemuInv'
<1>1. task.at = "idle" /\ vmCounts.operations < MaxRetries
    BY IdleFacts DEF Begin
<1>2. rec.pid \in PidRange /\ kind \in {"instance", "base"} BY TaskFacts DEF QemuInv, QemuTypesInv
<1>3. task' \in Operations /\ task'.at = at /\ task'.pid = rec.pid
    BY <1>2, IdleFacts DEF Begin, Operations, Ats, PidRange
<1>4. vmCounts' \in [crashes : 0 .. MaxVmCrashes, operations : 0 .. MaxRetries]
    BY <1>1, QemuAssumption DEF Begin, QemuInv, QemuTypesInv
<1>5. UNCHANGED <<kind, vm, pids, runDir, disk, rec, saved, net, host, baseDoc, lost>>
    BY DEF Begin
<1>6. QemuTypesInv' BY <1>3, <1>4, <1>5 DEF QemuInv, QemuTypesInv, Records
<1>7. CASE kind = "instance"
    <2>1. at \in InstanceWork BY <1>7 DEF InstanceWork
    <2>2. vm # 0 => vm = rec.pid \/ vm \in lost
        BY <1>1, <1>7 DEF QemuInv, InstanceInv, KnownPid
    <2>3. (rec.phase = "none" => rec.pid = 0) /\ (rec.phase = "Stopped" => ~net.on)
        BY <1>1, <1>7 DEF QemuInv, InstanceInv, Consistent
    <2>4. IdleInv' /\ InstanceInv' /\ BaseInv'
        BY <1>3, <1>5, <1>7, <2>1, <2>2, <2>3, InstanceGoesOn
    <2> QED BY <1>6, <2>4 DEF QemuInv
<1>8. CASE kind = "base"
    <2>1. at \in BaseWork BY <1>8 DEF BaseWork
    <2>2. IdleInv' /\ InstanceInv' /\ BaseInv'
        BY <1>1, <1>3, <1>5, <1>8, <2>1, BaseMoves DEF QemuInv, BaseInv
    <2> QED BY <1>6, <2>2 DEF QemuInv
<1> QED BY <1>2, <1>7, <1>8

LEMMA RequestKeeps == ASSUME QemuInv, Request PROVE QemuInv'
BY BeginKeeps DEF Request, Ats, InstanceWork, BaseWork

LEMMA SaveKeeps == ASSUME QemuInv, Save PROVE QemuInv'
<1>1. /\ UNCHANGED <<kind, host, lost, vmCounts, vm, pids, runDir, disk, rec, net, task, baseDoc>>
      /\ saved' = rec
    BY DEF Save, frozen
<1>2. QemuTypesInv' BY <1>1 DEF QemuInv, QemuTypesInv
<1>3. IdleInv' /\ InstanceInv' /\ BaseInv'
    BY <1>1 DEF QemuInv, IdleInv, InstanceInv, BaseInv, KnownPid, Consistent, Idle
<1> QED BY <1>2, <1>3 DEF QemuInv

\* Which of the two a step of an operation belongs to.
LEMMA KindOf ==
    ASSUME QemuInv
    PROVE  /\ kind \in {"instance", "base"}
           /\ task.at \in InstanceWork \ BaseWork => kind = "instance"
           /\ task.at \in BaseWork \ InstanceWork => kind = "base"
BY DEF QemuInv, QemuTypesInv, InstanceInv, BaseInv, InstanceWork, BaseWork

LEMMA PrepareKeeps == ASSUME QemuInv, Prepare PROVE QemuInv'
<1>1. /\ UNCHANGED <<kind, host, lost, vmCounts, vm, pids, runDir, disk, saved, net, baseDoc>>
      /\ task.at = "prepare" /\ kind = "instance" /\ QemuTypesInv
    BY KindOf DEF Prepare, frozen, InstanceWork, BaseWork, QemuInv
<1>2. rec.phase = "none" /\ task.pid = 0 /\ (vm # 0 => vm \in lost)
    BY <1>1 DEF QemuInv, InstanceInv, KnownPid
<1>3. CASE Step("image") /\ UNCHANGED rec
    <2>1. task' \in Operations /\ task'.at = "image" /\ task'.pid = task.pid
        BY <1>1, <1>3, StepFacts DEF Ats, InstanceWork
    <2>2. QemuTypesInv' BY <1>1, <1>3, <2>1 DEF QemuTypesInv
    <2>3. IdleInv' /\ InstanceInv' /\ BaseInv'
        BY <1>1, <1>2, <1>3, <2>1, InstanceGoesOn DEF InstanceWork
    <2> QED BY <2>2, <2>3 DEF QemuInv
<1>4. CASE Fails(task.pid)
    <2>1. /\ rec' \in Records /\ rec'.pid = 0 /\ rec'.phase = "none"
          /\ task' \in Operations /\ task' = Idle /\ task'.at = "idle"
        BY <1>1, <1>2, <1>4, FailsFacts, TaskFacts
    <2>2. QemuTypesInv' BY <1>1, <2>1 DEF QemuTypesInv
    <2>3. IdleInv' /\ InstanceInv' /\ BaseInv'
        BY <1>1, <1>2, <2>1, InstanceEnds DEF Consistent
    <2> QED BY <2>2, <2>3 DEF QemuInv
<1> QED BY <1>3, <1>4 DEF Prepare

LEMMA PrepareBaseKeeps == ASSUME QemuInv, PrepareBase PROVE QemuInv'
<1>1. /\ UNCHANGED <<kind, host, lost, vmCounts, vm, pids, runDir, disk, rec, saved, net, baseDoc>>
      /\ task.at = "prepareBase" /\ kind = "base" /\ QemuTypesInv
    BY KindOf DEF PrepareBase, frozen, InstanceWork, BaseWork, QemuInv
<1>2. task' \in Operations /\ (task'.at = "image" \/ (task' = Idle /\ task'.at = "idle"))
    BY <1>1, StepFacts, IdleFacts DEF PrepareBase, Ats, InstanceWork
<1>3. QemuTypesInv' BY <1>1, <1>2 DEF QemuTypesInv
<1>4. IdleInv' /\ InstanceInv' /\ BaseInv'
    BY <1>1, <1>2, BaseMoves DEF QemuInv, BaseInv, BaseWork
<1> QED BY <1>3, <1>4 DEF QemuInv

LEMMA EnsureCachedKeeps == ASSUME QemuInv, EnsureCached PROVE QemuInv'
<1>1. /\ UNCHANGED <<kind, host, lost, vmCounts, vm, pids, runDir, saved, net, baseDoc>>
      /\ task.at = "image" /\ kind \in {"instance", "base"} /\ QemuTypesInv
    BY KindOf DEF EnsureCached, frozen, QemuInv
<1>2. /\ disk' \in [image : {"none", "part", "whole"}, overlay : BOOLEAN,
                    boot : {"none", "passed", "failed"}]
      /\ disk'.boot = disk.boot /\ disk'.overlay = disk.overlay
    BY <1>1 DEF EnsureCached, QemuTypesInv
<1>3. CASE UNCHANGED rec /\ Step("overlay")
    <2>1. task' \in Operations /\ task'.at = "overlay" /\ task'.pid = task.pid
        BY <1>1, <1>3, StepFacts DEF Ats, InstanceWork
    <2>2. QemuTypesInv' BY <1>1, <1>2, <1>3, <2>1 DEF QemuTypesInv
    <2>3. CASE kind = "instance"
        <3>1. rec.phase = "none" /\ task.pid = 0 /\ (vm # 0 => vm \in lost)
            BY <1>1, <2>3 DEF QemuInv, InstanceInv, KnownPid
        <3>2. IdleInv' /\ InstanceInv' /\ BaseInv'
            BY <1>1, <1>3, <2>1, <2>3, <3>1, InstanceGoesOn DEF InstanceWork
        <3> QED BY <2>2, <3>2 DEF QemuInv
    <2>4. CASE kind = "base"
        <3>1. IdleInv' /\ InstanceInv' /\ BaseInv'
            BY <1>1, <1>2, <1>3, <2>1, <2>4, BaseMoves DEF QemuInv, BaseInv, BaseWork
        <3> QED BY <2>2, <3>1 DEF QemuInv
    <2> QED BY <1>1, <2>3, <2>4
<1>4. CASE Fails(task.pid)
    <2>1. /\ rec' \in Records /\ rec'.pid = task.pid
          /\ rec.phase = "none" => rec'.phase = "none"
          /\ rec.phase # "none" => rec'.phase \in {rec.phase, "Failed"}
          /\ task' \in Operations /\ task' = Idle /\ task'.at = "idle"
        BY <1>1, <1>4, FailsFacts, TaskFacts
    <2>2. QemuTypesInv' BY <1>1, <1>2, <2>1 DEF QemuTypesInv
    <2>3. CASE kind = "instance"
        <3>1. rec.phase = "none" /\ task.pid = 0 /\ (vm # 0 => vm \in lost)
            BY <1>1, <2>3 DEF QemuInv, InstanceInv, KnownPid
        <3>2. IdleInv' /\ InstanceInv' /\ BaseInv'
            BY <1>1, <2>1, <2>3, <3>1, InstanceEnds DEF Consistent
        <3> QED BY <2>2, <3>2 DEF QemuInv
    <2>4. CASE kind = "base"
        <3>1. IdleInv' /\ InstanceInv' /\ BaseInv'
            BY <1>1, <1>2, <2>1, <2>4, BaseMoves DEF QemuInv, BaseInv, BaseWork
        <3> QED BY <2>2, <3>1 DEF QemuInv
    <2> QED BY <1>1, <2>3, <2>4
<1> QED BY <1>3, <1>4 DEF EnsureCached

LEMMA CreateOverlayKeeps == ASSUME QemuInv, CreateOverlay PROVE QemuInv'
<1>1. /\ UNCHANGED <<kind, host, lost, vmCounts, vm, pids, runDir, saved, net, baseDoc>>
      /\ task.at = "overlay" /\ kind = "instance" /\ QemuTypesInv
    BY DEF CreateOverlay, frozen, QemuInv
<1>2. rec.phase = "none" /\ task.pid = 0 /\ (vm # 0 => vm \in lost)
    BY <1>1 DEF QemuInv, InstanceInv, KnownPid
<1>3. disk' \in [image : {"none", "part", "whole"}, overlay : BOOLEAN,
                 boot : {"none", "passed", "failed"}]
    BY <1>1 DEF CreateOverlay, QemuTypesInv
<1>4. /\ rec' \in Records /\ rec'.pid = 0 /\ rec'.phase \in {"none", "Materialized"}
      /\ task' \in Operations /\ task' = Idle /\ task'.at = "idle"
    BY <1>1, <1>2, FailsFacts, DoneFacts, TaskFacts DEF CreateOverlay, Phases
<1>5. QemuTypesInv' BY <1>1, <1>3, <1>4 DEF QemuTypesInv
<1>6. IdleInv' /\ InstanceInv' /\ BaseInv' BY <1>1, <1>2, <1>4, InstanceEnds DEF Consistent
<1> QED BY <1>5, <1>6 DEF QemuInv

LEMMA CreateBaseDiskKeeps == ASSUME QemuInv, CreateBaseDisk PROVE QemuInv'
<1>1. /\ UNCHANGED <<kind, host, lost, vmCounts, vm, pids, runDir, rec, saved, net, baseDoc>>
      /\ task.at = "overlay" /\ kind = "base" /\ QemuTypesInv
    BY DEF CreateBaseDisk, frozen, QemuInv
<1>2. /\ disk' \in [image : {"none", "part", "whole"}, overlay : BOOLEAN,
                    boot : {"none", "passed", "failed"}]
      /\ disk'.boot = disk.boot /\ disk'.overlay
    BY <1>1 DEF CreateBaseDisk, QemuTypesInv
<1>3. task' \in Operations /\ task'.at = "qemu"
    BY <1>1, StepFacts DEF CreateBaseDisk, Ats, InstanceWork
<1>4. QemuTypesInv' BY <1>1, <1>2, <1>3 DEF QemuTypesInv
<1>5. IdleInv' /\ InstanceInv' /\ BaseInv'
    BY <1>1, <1>2, <1>3, BaseMoves DEF QemuInv, BaseInv, BaseWork
<1> QED BY <1>4, <1>5 DEF QemuInv

\* Network and run directory as they are after a start, an update or a clean-up.
LEMMA NetFacts ==
    ASSUME QemuTypesInv
    PROVE  /\ Attached \in [on : BOOLEAN, secrets : 0 .. 2]
           /\ Off \in [on : BOOLEAN, secrets : 0 .. 2] /\ ~Off.on
           /\ NoFiles \in [pidFile : 0 .. MaxStarts, sockets : BOOLEAN]
<1>1. host \in 0 .. 2 BY DEF QemuTypesInv
<1>2. Attached \in [on : BOOLEAN, secrets : 0 .. 2] BY <1>1 DEF Attached
<1>3. Off \in [on : BOOLEAN, secrets : 0 .. 2] /\ ~Off.on BY DEF Off
<1>4. NoFiles \in [pidFile : 0 .. MaxStarts, sockets : BOOLEAN] BY QemuAssumption DEF NoFiles
<1> QED BY <1>2, <1>3, <1>4

LEMMA StartNetworkKeeps == ASSUME QemuInv, StartNetwork PROVE QemuInv'
<1>1. /\ UNCHANGED <<kind, host, lost, vmCounts, vm, pids, runDir, disk, saved, baseDoc>>
      /\ task.at = "network" /\ kind = "instance" /\ QemuTypesInv
    BY KindOf DEF StartNetwork, frozen, InstanceWork, BaseWork, QemuInv
<1>2. rec.phase # "none" /\ (vm # 0 => vm = task.pid \/ vm \in lost)
    BY <1>1 DEF QemuInv, InstanceInv, KnownPid
<1>3. net' \in [on : BOOLEAN, secrets : 0 .. 2] BY <1>1, NetFacts DEF StartNetwork
<1>4. CASE Step("qemu") /\ UNCHANGED rec
    <2>1. task' \in Operations /\ task'.at = "qemu" /\ task'.pid = task.pid
        BY <1>1, <1>4, StepFacts DEF Ats, InstanceWork
    <2>2. QemuTypesInv' BY <1>1, <1>3, <1>4, <2>1 DEF QemuTypesInv
    <2>3. IdleInv' /\ InstanceInv' /\ BaseInv'
        BY <1>1, <1>2, <1>4, <2>1, InstanceGoesOn DEF InstanceWork
    <2> QED BY <2>2, <2>3 DEF QemuInv
<1>5. CASE net' = Off /\ Fails(task.pid)
    <2>1. /\ rec' \in Records /\ rec'.pid = task.pid /\ rec'.phase # "none" /\ ~net'.on
          /\ task' \in Operations /\ task' = Idle /\ task'.at = "idle"
        BY <1>1, <1>2, <1>5, FailsFacts, TaskFacts, NetFacts
    <2>2. QemuTypesInv' BY <1>1, <1>3, <2>1 DEF QemuTypesInv
    <2>3. IdleInv' /\ InstanceInv' /\ BaseInv' BY <1>1, <1>2, <2>1, InstanceEnds DEF Consistent
    <2> QED BY <2>2, <2>3 DEF QemuInv
<1> QED BY <1>4, <1>5 DEF StartNetwork

\* A machine that starts is the only one: QEMU locks the disk.
LEMMA StartQemuKeeps == ASSUME QemuInv, StartQemu PROVE QemuInv'
<1>1. /\ UNCHANGED <<kind, host, lost, vmCounts, disk, saved, baseDoc>>
      /\ task.at = "qemu" /\ kind \in {"instance", "base"} /\ QemuTypesInv
    BY KindOf DEF StartQemu, frozen, QemuInv
<1>2. kind = "instance" => rec.phase # "none" /\ (vm # 0 => vm = task.pid \/ vm \in lost)
    BY <1>1 DEF QemuInv, InstanceInv, KnownPid
<1>3. CASE /\ vm = 0 /\ pids < MaxStarts
           /\ vm' = pids + 1 /\ pids' = pids + 1
           /\ runDir' = [pidFile |-> pids + 1, sockets |-> TRUE]
           /\ task' = [task EXCEPT !.at = IF kind = "base" THEN "wait" ELSE "ready", !.pid = pids + 1]
           /\ UNCHANGED <<rec, net>>
    <2> DEFINE p == pids + 1
    <2>1. p \in 0 .. MaxStarts /\ p # 0 BY <1>1, <1>3, QemuAssumption DEF QemuTypesInv
    <2>2. vm' = p /\ pids' = p /\ runDir' = [pidFile |-> p, sockets |-> TRUE] BY <1>3
    <2>3. task' = [task EXCEPT !.at = IF kind = "base" THEN "wait" ELSE "ready", !.pid = p] BY <1>3
    <2> HIDE DEF p
    <2>4. /\ task' \in Operations /\ task'.pid = p
          /\ task'.at = IF kind = "base" THEN "wait" ELSE "ready"
        BY <1>1, <2>1, <2>3 DEF QemuTypesInv, Operations, InstanceWork, BaseWork
    <2>5. QemuTypesInv' BY <1>1, <1>3, <2>1, <2>2, <2>4 DEF QemuTypesInv
    <2>6. CASE kind = "instance"
        <3>1. IdleInv' /\ InstanceInv' /\ BaseInv'
            BY <1>1, <1>2, <1>3, <2>2, <2>4, <2>6, InstanceGoesOn DEF InstanceWork
        <3> QED BY <2>5, <3>1 DEF QemuInv
    <2>7. CASE kind = "base"
        <3>1. IdleInv' /\ InstanceInv' /\ BaseInv'
            BY <1>1, <1>3, <2>4, <2>7, BaseMoves DEF QemuInv, BaseInv, BaseWork
        <3> QED BY <2>5, <3>1 DEF QemuInv
    <2> QED BY <1>1, <2>6, <2>7
<1>4. CASE CleanUp /\ Fails(task.pid) /\ UNCHANGED <<vm, pids>>
    <2>1. /\ rec' \in Records /\ rec'.pid = task.pid
          /\ rec.phase = "none" => rec'.phase = "none"
          /\ rec.phase # "none" => rec'.phase \in {rec.phase, "Failed"}
          /\ task' \in Operations /\ task' = Idle /\ task'.at = "idle"
        BY <1>1, <1>4, FailsFacts, TaskFacts
    <2>2. QemuTypesInv' BY <1>1, <1>4, <2>1, NetFacts DEF QemuTypesInv, CleanUp
    <2>3. CASE kind = "instance"
        <3>1. ~net'.on BY <1>1, <1>4, NetFacts DEF CleanUp
        <3>2. IdleInv' /\ InstanceInv' /\ BaseInv'
            BY <1>1, <1>2, <1>4, <2>1, <2>3, <3>1, InstanceEnds DEF Consistent
        <3> QED BY <2>2, <3>2 DEF QemuInv
    <2>4. CASE kind = "base"
        <3>1. IdleInv' /\ InstanceInv' /\ BaseInv'
            BY <1>1, <1>4, <2>1, <2>4, BaseMoves DEF QemuInv, BaseInv, BaseWork
        <3> QED BY <2>2, <3>1 DEF QemuInv
    <2> QED BY <1>1, <2>3, <2>4
<1> QED BY <1>3, <1>4 DEF StartQemu

LEMMA NetworkReadyKeeps == ASSUME QemuInv, NetworkReady PROVE QemuInv'
<1>1. /\ UNCHANGED <<kind, host, lost, vmCounts, pids, disk, saved, baseDoc>>
      /\ task.at = "ready" /\ kind = "instance" /\ QemuTypesInv
    BY KindOf DEF NetworkReady, frozen, InstanceWork, BaseWork, QemuInv
<1>2. rec.phase # "none" /\ (vm # 0 => vm = task.pid \/ vm \in lost)
    BY <1>1 DEF QemuInv, InstanceInv, KnownPid
<1>3. /\ runDir' \in [pidFile : 0 .. MaxStarts, sockets : BOOLEAN]
      /\ net' \in [on : BOOLEAN, secrets : 0 .. 2] /\ vm' \in 0 .. MaxStarts
    BY <1>1, NetFacts, QemuAssumption DEF NetworkReady, CleanUp, Terminate, QemuTypesInv
<1>4. /\ rec' \in Records /\ rec'.phase # "none" /\ (rec'.phase = "Stopped" => ~net'.on)
      /\ task' \in Operations /\ task' = Idle /\ task'.at = "idle"
      /\ vm' # 0 => vm' = rec'.pid \/ vm' \in lost
    <2>1. CASE Done("Running", task.pid) /\ UNCHANGED vm
        BY <1>1, <1>2, <2>1, DoneFacts, TaskFacts DEF Phases
    <2>2. CASE net' = Off /\ Fails(task.pid) /\ UNCHANGED vm
        BY <1>1, <1>2, <2>2, FailsFacts, TaskFacts, NetFacts
    <2>3. CASE CleanUp /\ Terminate(task.pid) /\ Fails(0)
        BY <1>1, <1>2, <2>3, FailsFacts, TaskFacts, NetFacts DEF Terminate, CleanUp
    <2> QED BY <2>1, <2>2, <2>3 DEF NetworkReady
<1>5. QemuTypesInv' BY <1>1, <1>3, <1>4 DEF QemuTypesInv
<1>6. IdleInv' /\ InstanceInv' /\ BaseInv' BY <1>1, <1>4, InstanceEnds DEF Consistent
<1> QED BY <1>5, <1>6 DEF QemuInv

\* A stop ends the machine of the record, or says that it could not.
LEMMA StopVmKeeps == ASSUME QemuInv, StopVm PROVE QemuInv'
<1>1. /\ UNCHANGED <<kind, host, lost, vmCounts, pids, disk, saved, baseDoc>>
      /\ task.at \in {"stop", "stopBase"} /\ kind \in {"instance", "base"} /\ QemuTypesInv
    BY KindOf DEF StopVm, frozen, QemuInv
<1>2. kind = "instance" => /\ rec.phase # "none" /\ (rec.phase = "Stopped" => ~net.on)
                           /\ vm # 0 => vm = task.pid \/ vm \in lost
    <2>1. ASSUME kind = "instance" PROVE task.at = "stop"
        BY <1>1, <2>1 DEF QemuInv, InstanceInv, InstanceWork
    <2> QED BY <1>1, <2>1 DEF QemuInv, InstanceInv, KnownPid
<1>3. /\ runDir' \in [pidFile : 0 .. MaxStarts, sockets : BOOLEAN]
      /\ net' \in [on : BOOLEAN, secrets : 0 .. 2] /\ vm' \in 0 .. MaxStarts
    BY <1>1, NetFacts, QemuAssumption DEF StopVm, CleanUp, Terminate, QmpEnds, QemuTypesInv
<1>4. CASE Fails(task.pid) /\ UNCHANGED <<vm, runDir, net>>
    <2>1. /\ rec' \in Records /\ rec'.pid = task.pid
          /\ rec.phase = "none" => rec'.phase = "none"
          /\ rec.phase # "none" => rec'.phase \in {rec.phase, "Failed"}
          /\ task' \in Operations /\ task' = Idle /\ task'.at = "idle"
        BY <1>1, <1>4, FailsFacts, TaskFacts
    <2>2. QemuTypesInv' BY <1>1, <1>3, <2>1 DEF QemuTypesInv
    <2>3. CASE kind = "instance"
        <3>1. IdleInv' /\ InstanceInv' /\ BaseInv'
            BY <1>1, <1>2, <1>4, <2>1, <2>3, InstanceEnds DEF Consistent
        <3> QED BY <2>2, <3>1 DEF QemuInv
    <2>4. CASE kind = "base"
        <3>1. IdleInv' /\ InstanceInv' /\ BaseInv'
            BY <1>1, <1>4, <2>1, <2>4, BaseMoves DEF QemuInv, BaseInv, BaseWork
        <3> QED BY <2>2, <3>1 DEF QemuInv
    <2> QED BY <1>1, <2>3, <2>4
<1>5. CASE /\ QmpEnds(FindPid) \/ Terminate(FindPid)
           /\ CleanUp
           /\ IF kind = "base" THEN Fails(0) ELSE Done("Stopped", 0)
    <2>1. vm' # 0 => vm' = vm /\ vm # FindPid BY <1>5 DEF QmpEnds, Terminate
    <2>2. CASE kind = "instance"
        <3>1. /\ rec' \in Records /\ rec'.pid = 0 /\ rec'.phase = "Stopped"
              /\ task' \in Operations /\ task' = Idle /\ task'.at = "idle"
            BY <1>1, <1>5, <2>2, DoneFacts, TaskFacts DEF Phases
        <3>2. vm' # 0 => vm' \in lost BY <1>2, <2>1, <2>2 DEF FindPid
        <3>3. QemuTypesInv' BY <1>1, <1>3, <3>1 DEF QemuTypesInv
        <3>4. ~net'.on BY <1>1, <1>5, NetFacts DEF CleanUp
        <3>5. IdleInv' /\ InstanceInv' /\ BaseInv'
            BY <1>1, <2>2, <3>1, <3>2, <3>4, InstanceEnds DEF Consistent
        <3> QED BY <3>3, <3>5 DEF QemuInv
    <2>3. CASE kind = "base"
        <3>1. /\ rec' \in Records /\ (rec.phase = "none" => rec'.phase = "none")
              /\ task' \in Operations /\ task' = Idle /\ task'.at = "idle"
            BY <1>1, <1>5, <2>3, FailsFacts, TaskFacts
        <3>2. QemuTypesInv' BY <1>1, <1>3, <3>1 DEF QemuTypesInv
        <3>3. IdleInv' /\ InstanceInv' /\ BaseInv'
            BY <1>1, <2>1, <2>3, <3>1, BaseMoves DEF QemuInv, BaseInv, BaseWork
        <3> QED BY <3>2, <3>3 DEF QemuInv
    <2> QED BY <1>1, <2>2, <2>3
<1> QED BY <1>4, <1>5 DEF StopVm

LEMMA ReconcileKeeps == ASSUME QemuInv, Reconcile PROVE QemuInv'
<1>1. /\ UNCHANGED <<kind, host, lost, vmCounts, vm, pids, disk, saved, baseDoc>>
      /\ task.at = "reconcile" /\ kind = "instance" /\ QemuTypesInv
    BY KindOf DEF Reconcile, frozen, InstanceWork, BaseWork, QemuInv
<1>2. rec.phase = "Running" /\ (vm # 0 => vm = task.pid \/ vm \in lost)
    BY <1>1 DEF QemuInv, InstanceInv, KnownPid
<1>3. /\ runDir' \in [pidFile : 0 .. MaxStarts, sockets : BOOLEAN]
      /\ net' \in [on : BOOLEAN, secrets : 0 .. 2]
    BY <1>1, NetFacts, QemuAssumption DEF Reconcile, CleanUp, QemuTypesInv
<1>4. /\ rec' \in Records /\ Consistent(rec')
      /\ task' \in Operations /\ task' = Idle /\ task'.at = "idle"
      /\ vm' # 0 => vm' = rec'.pid \/ vm' \in lost
      /\ rec'.phase = "Stopped" => ~net'.on
    <2>1. CASE Stale /\ CleanUp /\ Done("Stopped", 0)
        BY <1>1, <1>2, <2>1, DoneFacts, TaskFacts, NetFacts DEF Phases, Stale, CleanUp, Consistent
    <2>2. CASE Done("Running", task.pid)
        BY <1>1, <1>2, <2>2, DoneFacts, TaskFacts DEF Phases, Consistent
    <2>3. CASE Fails(task.pid)
        BY <1>1, <1>2, <2>3, FailsFacts, TaskFacts DEF Consistent
    <2> QED BY <2>1, <2>2, <2>3 DEF Reconcile
<1>5. QemuTypesInv' BY <1>1, <1>3, <1>4 DEF QemuTypesInv
<1>6. IdleInv' /\ InstanceInv' /\ BaseInv' BY <1>1, <1>4, InstanceEnds
<1> QED BY <1>5, <1>6 DEF QemuInv

LEMMA SecretsKeep == ASSUME QemuInv, CollectSecrets \/ GiveSecrets PROVE QemuInv'
<1>1. /\ UNCHANGED <<kind, host, lost, vmCounts, vm, pids, runDir, disk, rec, saved, baseDoc>>
      /\ task.at \in {"secrets", "give"} /\ kind = "instance" /\ QemuTypesInv
    BY KindOf DEF CollectSecrets, GiveSecrets, frozen, InstanceWork, BaseWork, QemuInv
<1>2. /\ rec.phase = "Running" /\ task.pid = rec.pid
      /\ vm # 0 => vm = task.pid \/ vm \in lost
    BY <1>1 DEF QemuInv, InstanceInv, KnownPid
<1>3. host \in 0 .. 2 BY <1>1 DEF QemuTypesInv
<1>4. CASE CollectSecrets
    <2>1. task' = [task EXCEPT !.at = "give", !.secrets = host] /\ UNCHANGED net
        BY <1>4 DEF CollectSecrets
    <2>2. task' \in Operations /\ task'.at = "give" /\ task'.pid = task.pid
        BY <1>1, <1>3, <2>1 DEF QemuTypesInv, Operations, InstanceWork
    <2>3. QemuTypesInv' BY <1>1, <2>1, <2>2 DEF QemuTypesInv
    <2>4. IdleInv' /\ InstanceInv' /\ BaseInv'
        BY <1>1, <1>2, <2>2, InstanceGoesOn DEF InstanceWork
    <2> QED BY <2>3, <2>4 DEF QemuInv
<1>5. CASE GiveSecrets
    <2>1. task' = Idle /\ task' \in Operations /\ task'.at = "idle"
        BY <1>5, IdleFacts DEF GiveSecrets
    <2>2. task.secrets \in 0 .. 2 BY <1>1 DEF QemuTypesInv, Operations
    <2>3. net' \in [on : BOOLEAN, secrets : 0 .. 2]
        <3>1. [on |-> TRUE, secrets |-> task.secrets] \in [on : BOOLEAN, secrets : 0 .. 2]
            BY <2>2
        <3>2. net' \in {net, [on |-> TRUE, secrets |-> task.secrets]} BY <1>5 DEF GiveSecrets
        <3>3. net \in [on : BOOLEAN, secrets : 0 .. 2] BY <1>1 DEF QemuTypesInv
        <3> QED BY <3>1, <3>2, <3>3
    <2>4. QemuTypesInv' BY <1>1, <2>1, <2>3 DEF QemuTypesInv
    <2>5. IdleInv' /\ InstanceInv' /\ BaseInv'
        BY <1>1, <1>2, <2>1, InstanceEnds DEF Consistent
    <2> QED BY <2>4, <2>5 DEF QemuInv
<1> QED BY <1>4, <1>5

LEMMA ReuseBaseKeeps == ASSUME QemuInv, ReuseBase PROVE QemuInv'
<1>1. /\ UNCHANGED <<kind, host, lost, vmCounts, vm, pids, runDir, disk, rec, saved, net, baseDoc>>
      /\ task.at = "reuse" /\ kind = "base" /\ QemuTypesInv
    BY KindOf DEF ReuseBase, frozen, InstanceWork, BaseWork, QemuInv
<1>2. /\ task' \in Operations
      /\ \/ task'.at = "document" /\ baseDoc = "ready"
         \/ task'.at = "idle" /\ task' = Idle
         \/ task'.at = "prepareBase" /\ (baseDoc = "none" \/ (baseDoc = "ready" /\ ~disk.overlay))
    <2>1. CASE baseDoc = "ready" /\ task' = [task EXCEPT !.at = "document", !.why = "used"]
        BY <1>1, <2>1 DEF QemuTypesInv, Operations, BaseWork
    <2>2. CASE task' = Idle BY <2>2, IdleFacts
    <2>3. CASE (baseDoc = "none" \/ (baseDoc = "ready" /\ ~disk.overlay)) /\ Step("prepareBase")
        BY <1>1, <2>3, StepFacts DEF Ats, BaseWork
    <2> QED BY <2>1, <2>2, <2>3 DEF ReuseBase
<1>3. QemuTypesInv' BY <1>1, <1>2 DEF QemuTypesInv
<1>4. IdleInv' /\ InstanceInv' /\ BaseInv'
    BY <1>1, <1>2, BaseMoves DEF QemuInv, BaseInv, BaseWork
<1> QED BY <1>3, <1>4 DEF QemuInv

LEMMA GuestBootstrapsKeeps == ASSUME QemuInv, GuestBootstraps PROVE QemuInv'
<1>1. /\ UNCHANGED <<kind, host, lost, vmCounts, vm, pids, runDir, rec, saved, net, task, baseDoc>>
      /\ vm # 0 /\ QemuTypesInv
    BY DEF GuestBootstraps, frozen, QemuInv
<1>2. /\ disk' \in [image : {"none", "part", "whole"}, overlay : BOOLEAN,
                    boot : {"none", "passed", "failed"}]
      /\ disk'.overlay = disk.overlay
    BY <1>1 DEF GuestBootstraps, QemuTypesInv
<1>3. QemuTypesInv' BY <1>1, <1>2 DEF QemuTypesInv
<1>4. IdleInv' /\ InstanceInv' /\ BaseInv'
    BY <1>1, <1>2 DEF QemuInv, IdleInv, InstanceInv, BaseInv, KnownPid, Consistent, Idle
<1> QED BY <1>3, <1>4 DEF QemuInv

\* A base is kept only when its bootstrap passed and its machine is down.
LEMMA WaitBaseKeeps == ASSUME QemuInv, WaitBase PROVE QemuInv'
<1>1. /\ UNCHANGED <<kind, host, lost, vmCounts, pids, disk, rec, saved, net, baseDoc>>
      /\ task.at = "wait" /\ kind = "base" /\ QemuTypesInv
    BY KindOf DEF WaitBase, frozen, InstanceWork, BaseWork, QemuInv
<1>2. PICK passed \in {disk.boot = "passed", FALSE}, stopped \in BOOLEAN :
          /\ stopped => vm' = 0 /\ runDir' = NoFiles
          /\ ~stopped => vm # 0 /\ UNCHANGED <<vm, runDir>>
          /\ task' = IF BaseVerdict(passed, stopped)
                     THEN [task EXCEPT !.at = "document", !.why = "built"] ELSE Idle
    BY DEF WaitBase
<1>3. /\ vm' \in 0 .. MaxStarts /\ runDir' \in [pidFile : 0 .. MaxStarts, sockets : BOOLEAN]
    BY <1>1, <1>2, NetFacts, QemuAssumption DEF QemuTypesInv
<1>4. /\ task' \in Operations
      /\ \/ task'.at = "document" /\ disk.boot = "passed" /\ vm' = 0
         \/ task'.at = "idle" /\ task' = Idle
    <2>1. CASE BaseVerdict(passed, stopped)
        <3>1. task' = [task EXCEPT !.at = "document", !.why = "built"] BY <1>2, <2>1
        <3>2. task' \in Operations /\ task'.at = "document"
            BY <1>1, <3>1 DEF QemuTypesInv, Operations, BaseWork
        <3>3. disk.boot = "passed" /\ vm' = 0 BY <1>2, <2>1 DEF BaseVerdict
        <3> QED BY <3>2, <3>3
    <2>2. CASE ~BaseVerdict(passed, stopped) BY <1>2, <2>2, IdleFacts
    <2> QED BY <2>1, <2>2
<1>5. QemuTypesInv' BY <1>1, <1>3, <1>4 DEF QemuTypesInv
<1>6. IdleInv' /\ InstanceInv' /\ BaseInv'
    BY <1>1, <1>4, BaseMoves DEF QemuInv, BaseInv, BaseWork
<1> QED BY <1>5, <1>6 DEF QemuInv

LEMMA WriteBaseDocumentKeeps == ASSUME QemuInv, WriteBaseDocument PROVE QemuInv'
<1>1. /\ UNCHANGED <<kind, host, lost, vmCounts, vm, pids, runDir, disk, rec, saved, net>>
      /\ task.at = "document" /\ kind = "base" /\ QemuTypesInv /\ baseDoc' = "ready"
    BY KindOf DEF WriteBaseDocument, frozen, InstanceWork, BaseWork, QemuInv
<1>2. task' = Idle /\ task' \in Operations /\ task'.at = "idle"
    BY IdleFacts DEF WriteBaseDocument
<1>3. QemuTypesInv' BY <1>1, <1>2 DEF QemuTypesInv
<1>4. IdleInv' /\ InstanceInv' /\ BaseInv'
    BY <1>1, <1>2, BaseMoves DEF QemuInv, BaseInv, BaseWork
<1> QED BY <1>3, <1>4 DEF QemuInv

LEMMA WorldKeeps == ASSUME QemuInv, VmExits \/ RotateSecrets PROVE QemuInv'
<1>1. /\ UNCHANGED <<kind, lost, vmCounts, pids, runDir, disk, rec, saved, net, task, baseDoc>>
      /\ vm' \in {0, vm} /\ host' \in 1 .. 2
    BY DEF VmExits, RotateSecrets, frozen, QemuInv, QemuTypesInv
<1>2. QemuTypesInv' BY <1>1, QemuAssumption DEF QemuInv, QemuTypesInv
<1>3. IdleInv' /\ InstanceInv' /\ BaseInv'
    BY <1>1 DEF QemuInv, IdleInv, InstanceInv, BaseInv, KnownPid, Consistent, Idle
<1> QED BY <1>2, <1>3 DEF QemuInv

\* A crash leaves the record that was saved; a machine that is not in it is lost.
LEMMA ServerCrashesKeeps == ASSUME QemuInv, ServerCrashes PROVE QemuInv'
<1>1. /\ UNCHANGED <<kind, vm, pids, runDir, saved, host>> /\ QemuTypesInv
      /\ task' = Idle /\ task' \in Operations /\ task'.at = "idle"
      /\ rec' = saved /\ net' = Off
      /\ lost' = IF vm # 0 /\ saved.pid # vm THEN lost \cup {vm} ELSE lost
      /\ baseDoc' \in {baseDoc, "torn"} /\ (baseDoc' = baseDoc \/ task.at = "document")
    BY IdleFacts DEF ServerCrashes, QemuInv
<1>2. /\ disk' \in [image : {"none", "part", "whole"}, overlay : BOOLEAN,
                    boot : {"none", "passed", "failed"}]
      /\ disk'.overlay = disk.overlay /\ disk'.boot = disk.boot
    BY <1>1 DEF ServerCrashes, QemuTypesInv
<1>3. vmCounts' \in [crashes : 0 .. MaxVmCrashes, operations : 0 .. MaxRetries]
    BY <1>1, QemuAssumption DEF ServerCrashes, QemuTypesInv
<1>4. lost' \subseteq 1 .. MaxStarts BY <1>1, QemuAssumption DEF QemuTypesInv
<1>5. QemuTypesInv' BY <1>1, <1>2, <1>3, <1>4, NetFacts DEF QemuTypesInv
<1>6. IdleInv' BY <1>1 DEF IdleInv, Idle
<1>7. InstanceInv'
    BY <1>1, NetFacts DEF QemuInv, InstanceInv, KnownPid, Consistent, BaseWork, InstanceWork
<1>8. BaseInv'
    <2> SUFFICES ASSUME kind = "base" PROVE BaseInv' BY <1>1 DEF BaseInv
    <2>1. saved.phase = "none" BY DEF QemuInv, BaseInv
    <2> QED BY <1>1, <1>2, <2>1 DEF QemuInv, BaseInv
<1> QED BY <1>5, <1>6, <1>7, <1>8 DEF QemuInv

LEMMA QemuNextKeeps == ASSUME QemuInv, [QemuNext]_qemuVars PROVE QemuInv'
<1>1. CASE QemuNext
    BY <1>1, RequestKeeps, SaveKeeps, PrepareKeeps, PrepareBaseKeeps, EnsureCachedKeeps,
       CreateOverlayKeeps, CreateBaseDiskKeeps, StartNetworkKeeps, StartQemuKeeps,
       NetworkReadyKeeps, StopVmKeeps, ReconcileKeeps, SecretsKeep, ReuseBaseKeeps,
       GuestBootstrapsKeeps, WaitBaseKeeps, WriteBaseDocumentKeeps, WorldKeeps,
       ServerCrashesKeeps DEF QemuNext
<1>2. CASE UNCHANGED qemuVars
    <2>1. UNCHANGED <<kind, vm, pids, runDir, disk, rec, saved, net, host, task, baseDoc, lost,
                      vmCounts>>
        BY <1>2 DEF qemuVars
    <2>2. QemuTypesInv' BY <2>1 DEF QemuInv, QemuTypesInv
    <2>3. IdleInv' /\ InstanceInv' /\ BaseInv'
        BY <2>1 DEF QemuInv, IdleInv, InstanceInv, BaseInv, KnownPid, Consistent, Idle
    <2> QED BY <2>2, <2>3 DEF QemuInv
<1> QED BY <1>1, <1>2

\* The inductive invariant of the machine: the record, the copy of it an operation works
\* on, the process and the base document agree after every step.
THEOREM QemuInvariant == QemuSpec => []QemuInv
<1>1. QemuInit => QemuInv BY QemuInitInv
<1>2. QemuInv /\ [QemuNext]_qemuVars => QemuInv' BY QemuNextKeeps
<1> QED BY <1>1, <1>2, PTL DEF QemuSpec

\* Every variable of the QEMU backend keeps its type.
THEOREM QemuTypes == QemuSpec => []QemuTypeOK
<1>1. ASSUME QemuInv PROVE QemuTypeOK
    <2>1. rec.phase \in Phases /\ saved.phase \in Phases
        BY <1>1 DEF QemuInv, QemuTypesInv, Records
    <2>2. kind = "instance" => \A r \in {rec, saved} : r.phase = "none" => r.pid = 0
        BY <1>1 DEF QemuInv, InstanceInv, Consistent
    <2> QED BY <1>1, <2>1, <2>2 DEF QemuInv, QemuTypesInv, QemuTypeOK, Phases
<1> QED BY <1>1, QemuInvariant, PTL

\* Between operations every machine of an instance is the one its record names, unless a
\* crash hit it between its start and the save of its record, and an instance said to
\* be stopped runs no network.
THEOREM MachinesAreAccounted == QemuSpec => []VmAccounted
<1>1. ASSUME QemuInv PROVE VmAccounted
    <2> SUFFICES ASSUME task = Idle, kind = "instance"
                 PROVE  /\ vm # 0 => vm = rec.pid \/ vm \in lost
                        /\ rec.phase = "Stopped" => ~net.on
        BY DEF VmAccounted
    <2>1. task.at = "idle" BY IdleFacts
    <2> QED BY <1>1, <2>1 DEF QemuInv, InstanceInv, KnownPid, Consistent
<1> QED BY <1>1, QemuInvariant, PTL

\* A base document that says ready is of a disk whose bootstrap passed and on which no
\* machine runs, whatever crashed while it was built.
THEOREM ReadyBasesAreSound == QemuSpec => []ReadyBaseSound
<1>1. ASSUME QemuInv PROVE ReadyBaseSound
    BY <1>1 DEF QemuInv, QemuTypesInv, InstanceInv, BaseInv, ReadyBaseSound
<1> QED BY <1>1, QemuInvariant, PTL

\* Both together: what the server believes of the machines of instances and bases.
THEOREM MachinesAreSound == QemuSpec => []MachinesSound
<1>1. VmAccounted /\ ReadyBaseSound => MachinesSound
  BY DEF MachinesSound
<1> QED
  BY MachinesAreAccounted, ReadyBasesAreSound, <1>1, PTL
-----------------------------------------------------------------------------
(***************************************************************************)
(* The network thread of an instance (services/instance_network).  A start *)
(* may replace a network only when it has ended; that its thread has let   *)
(* go then is because a terminal status was emitted by the thread on its   *)
(* way out, and went through the ring (Whole).                             *)
(***************************************************************************)
Events == [kind : {"Connected"} \cup Terminals, before : Nat]
Networks ==
    [thread : {"running", "released", "finished"}, commands : Seq({"UpdateSecrets", "Stop"}),
     dropped : Nat, ring : Seq(Events), status : {"Starting", "Connected"} \cup Terminals,
     drops : Nat, missed : Nat, seen : Nat, emitted : Nat, drain : BOOLEAN]

\* A network's record by itself: a terminal event comes from a thread that has let go, and
\* the output task ends after the thread.
Whole(r) ==
    /\ r \in Networks
    /\ Len(r.ring) <= RingCapacity /\ Len(r.commands) <= CommandCapacity
    /\ r.thread = "running" => r.status \notin Terminals /\ \A i \in 1 .. Len(r.ring) : r.ring[i].kind = "Connected"
    /\ ~r.drain => r.thread = "finished"

StopCalls == [net : Nat, at : {"idle", "sending", "joining", "draining"}]

InstInv ==
    /\ nets \in Seq(Networks) /\ Len(nets) <= MaxNetworks
    /\ \A n \in 1 .. Len(nets) : Whole(nets[n])
    /\ current \in 0 .. Len(nets) /\ channel \in 0 .. ChannelCapacity
    /\ stopCall \in StopCalls /\ stopCall.net \in 0 .. Len(nets)
    /\ stopCall.at = "idle" <=> stopCall.net = 0
    /\ OneNetwork

\* A queue that a record holds, one longer or one shorter.
LEMMA QueueFacts ==
    ASSUME NEW S, NEW s \in Seq(S), NEW e \in S
    PROVE  /\ Len(s) \in Nat /\ \A i \in 1 .. Len(s) : s[i] \in S
           /\ Append(s, e) \in Seq(S) /\ Len(Append(s, e)) = Len(s) + 1
           /\ \A i \in 1 .. Len(s) + 1 : Append(s, e)[i] = IF i = Len(s) + 1 THEN e ELSE s[i]
           /\ s # <<>> => /\ Head(s) \in S /\ Head(s) = s[1] /\ Len(s) >= 1
                          /\ Tail(s) \in Seq(S) /\ Len(Tail(s)) = Len(s) - 1
                          /\ \A i \in 1 .. Len(s) - 1 : Tail(s)[i] = s[i + 1]
  <1>1. Len(s) \in Nat /\ \A i \in 1 .. Len(s) : s[i] \in S
    BY LenProperties, ElementOfSeq
  <1>2. /\ Append(s, e) \in Seq(S) /\ Len(Append(s, e)) = Len(s) + 1
        /\ \A i \in 1 .. Len(s) + 1 : Append(s, e)[i] = IF i = Len(s) + 1 THEN e ELSE s[i]
    BY <1>1, AppendProperties
  <1>3. ASSUME s # <<>>
        PROVE  /\ Head(s) \in S /\ Head(s) = s[1] /\ Len(s) >= 1
               /\ Tail(s) \in Seq(S) /\ Len(Tail(s)) = Len(s) - 1
               /\ \A i \in 1 .. Len(s) - 1 : Tail(s)[i] = s[i + 1]
    BY <1>1, <1>3, HeadTailProperties, EmptySeq
  <1> QED
    BY <1>1, <1>2, <1>3

\* The fields of a record that is whole.
LEMMA WholeFields ==
    ASSUME NEW r, Whole(r)
    PROVE  /\ r \in Networks /\ r.ring \in Seq(Events) /\ r.commands \in Seq({"UpdateSecrets", "Stop"})
           /\ r.dropped \in Nat /\ r.drops \in Nat /\ r.missed \in Nat /\ r.seen \in Nat /\ r.emitted \in Nat
           /\ r.thread \in {"running", "released", "finished"} /\ r.drain \in BOOLEAN
           /\ r.status \in {"Starting", "Connected"} \cup Terminals
  BY DEF Whole, Networks

LEMMA StartedWhole == Whole(Started) /\ Started.thread = "running"
  <1>1. <<>> \in Seq(Events) /\ <<>> \in Seq({"UpdateSecrets", "Stop"}) /\ Len(<<>>) = 0
    OBVIOUS
  <1>2. Started \in Networks
    BY <1>1 DEF Started, Networks
  <1> QED
    BY <1>1, <1>2, InstAssumption DEF Started, Whole, Terminals

\* A change of the command queue.
LEMMA CommandsWhole ==
    ASSUME NEW r, Whole(r), NEW commands \in Seq({"UpdateSecrets", "Stop"}), Len(commands) <= CommandCapacity
    PROVE  Whole([r EXCEPT !.commands = commands]) /\ [r EXCEPT !.commands = commands].thread = r.thread
  <1>1. r \in Networks
    BY DEF Whole
  <1> DEFINE q == [r EXCEPT !.commands = commands]
  <1>2. /\ q \in Networks /\ q.commands = commands /\ q.thread = r.thread /\ q.ring = r.ring
        /\ q.status = r.status /\ q.drain = r.drain
    BY <1>1 DEF Networks
  <1> HIDE DEF q
  <1>3. Whole(q)
    BY <1>2 DEF Whole
  <1> QED
    BY <1>2, <1>3 DEF q

\* The thread goes on or ends.
LEMMA ThreadWhole ==
    ASSUME NEW r, Whole(r), NEW thread \in {"released", "finished"}, ~r.drain => thread = "finished"
    PROVE  Whole([r EXCEPT !.thread = thread]) /\ [r EXCEPT !.thread = thread].thread = thread
  <1>1. r \in Networks
    BY DEF Whole
  <1> DEFINE q == [r EXCEPT !.thread = thread]
  <1>2. /\ q \in Networks /\ q.commands = r.commands /\ q.thread = thread /\ q.ring = r.ring
        /\ q.status = r.status /\ q.drain = r.drain
    BY <1>1 DEF Networks
  <1> HIDE DEF q
  <1>3. Whole(q)
    BY <1>2 DEF Whole
  <1> QED
    BY <1>2, <1>3 DEF q

LEMMA DrainWhole ==
    ASSUME NEW r, Whole(r), r.thread = "finished"
    PROVE  Whole([r EXCEPT !.drain = FALSE]) /\ [r EXCEPT !.drain = FALSE].thread = "finished"
  <1>1. r \in Networks
    BY DEF Whole
  <1> DEFINE q == [r EXCEPT !.drain = FALSE]
  <1>2. /\ q \in Networks /\ q.commands = r.commands /\ q.thread = r.thread /\ q.ring = r.ring
        /\ q.status = r.status
    BY <1>1 DEF Networks
  <1> HIDE DEF q
  <1>3. Whole(q)
    BY <1>2 DEF Whole
  <1> QED
    BY <1>2, <1>3 DEF q

\* What emit does to a record, whatever the event.
LEMMA EmitFacts ==
    ASSUME NEW r, Whole(r), NEW what \in {"Connected"} \cup Terminals
    PROVE  /\ Emit(r, what) \in Networks /\ Len(Emit(r, what).ring) <= RingCapacity
           /\ Emit(r, what).commands = r.commands /\ Emit(r, what).thread = r.thread
           /\ Emit(r, what).status = r.status /\ Emit(r, what).drain = r.drain
           /\ \A i \in 1 .. Len(Emit(r, what).ring) :
                 Emit(r, what).ring[i].kind = what \/ (i \in 1 .. Len(r.ring) /\ Emit(r, what).ring[i] = r.ring[i])
  <1> DEFINE event == [kind |-> what, before |-> r.dropped]
             longer == Append(r.ring, event)
             count == r.emitted + 1
             more == r.dropped + 1
             q == Emit(r, what)
  <1>0. r \in Networks /\ r.ring \in Seq(Events) /\ r.dropped \in Nat /\ r.emitted \in Nat /\ Len(r.ring) <= RingCapacity
    BY WholeFields DEF Whole
  <1>1. event \in Events /\ event.kind = what
    BY <1>0 DEF Events
  <1> HIDE DEF event
  <1>2. /\ longer \in Seq(Events) /\ Len(longer) = Len(r.ring) + 1 /\ Len(r.ring) \in Nat
        /\ \A i \in 1 .. Len(r.ring) + 1 : longer[i] = IF i = Len(r.ring) + 1 THEN event ELSE r.ring[i]
    BY <1>0, <1>1, QueueFacts
  <1>n. 0 \in Nat /\ count \in Nat /\ more \in Nat
    BY <1>0
  <1>3. CASE Len(r.ring) < RingCapacity
    <2>1. q = [r EXCEPT !.ring = longer, !.dropped = 0, !.emitted = count]
      BY <1>3 DEF Emit, event
    <2> HIDE DEF longer, q, count
    <2>2. /\ q \in Networks /\ q.ring = longer /\ q.commands = r.commands /\ q.thread = r.thread
          /\ q.status = r.status /\ q.drain = r.drain
      BY <1>0, <1>2, <1>n, <2>1, ZenonT(60) DEF Networks
    <2>3. Len(longer) <= RingCapacity
      BY <1>2, <1>3, InstAssumption
    <2>4. \A i \in 1 .. Len(longer) : longer[i].kind = what \/ (i \in 1 .. Len(r.ring) /\ longer[i] = r.ring[i])
      BY <1>1, <1>2
    <2>5. q = Emit(r, what)
      BY DEF q
    <2> QED  BY <2>2, <2>3, <2>4, <2>5
  <1>4. CASE ~(Len(r.ring) < RingCapacity)
    <2>1. q = [r EXCEPT !.dropped = more, !.emitted = count]
      BY <1>4 DEF Emit
    <2> HIDE DEF q, count, more
    <2>2. /\ q \in Networks /\ q.ring = r.ring /\ q.commands = r.commands /\ q.thread = r.thread
          /\ q.status = r.status /\ q.drain = r.drain
      BY <1>0, <1>n, <2>1, ZenonT(60) DEF Networks
    <2>3. q = Emit(r, what)
      BY DEF q
    <2> QED  BY <1>0, <2>2, <2>3
  <1> QED
    BY <1>3, <1>4

LEMMA EmitWhole ==
    ASSUME NEW r, Whole(r), r.thread = "running"
    PROVE  /\ Whole(Emit(r, "Connected"))
           /\ \A what \in Terminals : /\ Whole([Emit(r, what) EXCEPT !.thread = "released"])
                                      /\ [Emit(r, what) EXCEPT !.thread = "released"].thread = "released"
  <1>1. Whole(Emit(r, "Connected"))
    <2> DEFINE q == Emit(r, "Connected")
    <2>1. /\ q \in Networks /\ Len(q.ring) <= RingCapacity /\ q.commands = r.commands /\ q.thread = r.thread
          /\ q.status = r.status /\ q.drain = r.drain
          /\ \A i \in 1 .. Len(q.ring) : q.ring[i].kind = "Connected" \/ (i \in 1 .. Len(r.ring) /\ q.ring[i] = r.ring[i])
      BY EmitFacts
    <2> HIDE DEF q
    <2>2. Whole(q)
      BY <2>1 DEF Whole
    <2> QED  BY <2>2 DEF q
  <1>2. ASSUME NEW what \in Terminals
        PROVE  /\ Whole([Emit(r, what) EXCEPT !.thread = "released"])
               /\ [Emit(r, what) EXCEPT !.thread = "released"].thread = "released"
    <2> DEFINE q == Emit(r, what)
               p == [q EXCEPT !.thread = "released"]
    <2>1. /\ q \in Networks /\ Len(q.ring) <= RingCapacity /\ q.commands = r.commands /\ q.drain = r.drain
      BY EmitFacts
    <2> HIDE DEF q
    <2>2. p \in Networks /\ p.ring = q.ring /\ p.commands = q.commands /\ p.drain = q.drain /\ p.thread = "released"
      BY <2>1 DEF Networks
    <2> HIDE DEF p
    <2>3. Whole(p)
      BY <2>1, <2>2 DEF Whole
    <2> QED  BY <2>2, <2>3 DEF p, q
  <1> QED
    BY <1>1, <1>2

LEMMA ObserveWhole ==
    ASSUME NEW r, Whole(r), r.ring # <<>>
    PROVE  Whole(Observe(r)) /\ Observe(r).thread = r.thread
  <1> DEFINE event == Head(r.ring)
             rest == Tail(r.ring)
             full == IF channel = ChannelCapacity THEN 1 ELSE 0
             status == IF r.status \in Terminals THEN r.status ELSE event.kind
             seen == r.seen + 1
             drops == r.drops + event.before + full
             missed == r.missed + full
             q == Observe(r)
  <1>0. /\ r \in Networks /\ r.ring \in Seq(Events) /\ r.drops \in Nat /\ r.missed \in Nat /\ r.seen \in Nat
        /\ r.status \in {"Starting", "Connected"} \cup Terminals
    BY WholeFields
  <1>1. /\ event \in Events /\ event = r.ring[1] /\ Len(r.ring) >= 1 /\ Len(r.ring) \in Nat
        /\ rest \in Seq(Events) /\ Len(rest) = Len(r.ring) - 1
        /\ \A i \in 1 .. Len(r.ring) - 1 : rest[i] = r.ring[i + 1]
    BY <1>0, QueueFacts
  <1>2. event.kind \in {"Connected"} \cup Terminals /\ event.before \in Nat /\ full \in Nat
    BY <1>1 DEF Events
  <1>3. q = [r EXCEPT !.ring = rest, !.seen = seen, !.status = status, !.drops = drops, !.missed = missed]
    BY DEF Observe
  <1> HIDE DEF event, rest, full, q
  <1>4. status \in {"Starting", "Connected"} \cup Terminals /\ seen \in Nat /\ drops \in Nat /\ missed \in Nat
    BY <1>0, <1>2
  <1>5. r.thread = "running" => status \notin Terminals /\ \A i \in 1 .. Len(rest) : rest[i].kind = "Connected"
    <2>1. r.thread = "running" => event.kind = "Connected"
      BY <1>1 DEF Whole
    <2>2. r.thread = "running" => status \notin Terminals
      BY <2>1 DEF Whole, Terminals
    <2>3. r.thread = "running" => \A i \in 1 .. Len(rest) : rest[i].kind = "Connected"
      BY <1>1 DEF Whole
    <2> QED  BY <2>2, <2>3
  <1> HIDE DEF status, seen, drops, missed
  <1>6. /\ q \in Networks /\ q.ring = rest /\ q.status = status /\ q.thread = r.thread
        /\ q.commands = r.commands /\ q.drain = r.drain
    BY <1>0, <1>1, <1>3, <1>4 DEF Networks
  <1>7. Len(rest) <= RingCapacity
    BY <1>1, InstAssumption DEF Whole
  <1>8. Whole(q)
    BY <1>5, <1>6, <1>7 DEF Whole
  <1> QED
    BY <1>6, <1>8 DEF q
-----------------------------------------------------------------------------
\* A step that changes the record of one network and starts no thread.
LEMMA RecordKeeps ==
    ASSUME InstInv, NEW n \in 1 .. Len(nets), NEW r, Whole(r), nets' = [nets EXCEPT ![n] = r],
           r.thread = "running" => nets[n].thread = "running",
           current' = current, channel' \in 0 .. ChannelCapacity,
           stopCall' \in StopCalls, stopCall'.net = stopCall.net, stopCall'.at = "idle" <=> stopCall.at = "idle"
    PROVE  InstInv'
  <1>0. nets \in Seq(Networks) /\ r \in Networks /\ Len(nets) \in Nat /\ DOMAIN nets = 1 .. Len(nets)
    BY LenProperties DEF InstInv, Whole
  <1>1. /\ nets' \in Seq(Networks) /\ Len(nets') = Len(nets) /\ nets'[n] = r
        /\ \A m \in 1 .. Len(nets) : m # n => nets'[m] = nets[m]
    BY <1>0, ExceptSeq
  <1>2. \A m \in 1 .. Len(nets') : Whole(nets'[m])
    BY <1>1 DEF InstInv
  <1>3. OneNetwork'
    <2>1. DOMAIN nets' = 1 .. Len(nets)
      BY <1>1, LenProperties
    <2> QED  BY <1>0, <1>1, <2>1 DEF InstInv, OneNetwork
  <1>4. current' \in 0 .. Len(nets') /\ stopCall'.net \in 0 .. Len(nets') /\ Len(nets') <= MaxNetworks
    BY <1>1 DEF InstInv
  <1>5. stopCall'.at = "idle" <=> stopCall'.net = 0
    BY DEF InstInv
  <1> QED
    BY <1>1, <1>2, <1>3, <1>4, <1>5 DEF InstInv

LEMMA InstFacts ==
    ASSUME InstInv
    PROVE  /\ nets \in Seq(Networks) /\ Len(nets) \in Nat /\ DOMAIN nets = 1 .. Len(nets)
           /\ \A n \in 1 .. Len(nets) : Whole(nets[n])
           /\ stopCall = NoStop => stopCall.net = 0 /\ stopCall.at = "idle"
           /\ NoStop \in StopCalls /\ NoStop.net = 0 /\ NoStop.at = "idle"
  BY LenProperties DEF InstInv, NoStop, StopCalls

LEMMA StartKeeps ==
    ASSUME InstInv, Start
    PROVE  InstInv'
  <1>0. /\ nets \in Seq(Networks) /\ Len(nets) \in Nat /\ DOMAIN nets = 1 .. Len(nets)
        /\ \A n \in 1 .. Len(nets) : Whole(nets[n])
        /\ stopCall.net = 0 /\ stopCall' = stopCall /\ channel' = channel
    BY InstFacts DEF Start
  <1>1. \A n \in 1 .. Len(nets) : nets[n].thread # "running"
    <2> SUFFICES ASSUME NEW n \in 1 .. Len(nets), nets[n].thread = "running" PROVE FALSE
      OBVIOUS
    <2>1. n = current
      BY <1>0 DEF InstInv, OneNetwork
    <2>2. nets[n].status \notin Terminals
      BY <1>0 DEF Whole
    <2>3. IsRunning(current) /\ current # 0
      BY <1>0, <2>1, <2>2 DEF IsRunning
    <2> QED  BY <2>3 DEF Start, ExistingNetwork
  <1>2. CASE current' = 0 /\ UNCHANGED nets
    <2>1. OneNetwork'
      BY <1>0, <1>1, <1>2 DEF OneNetwork
    <2> QED  BY <1>0, <1>2, <2>1 DEF InstInv
  <1>3. CASE Len(nets) < MaxNetworks /\ nets' = Append(nets, Started) /\ current' = Len(nets) + 1
    <2>1. Started \in Networks /\ Whole(Started)
      BY StartedWhole DEF Whole
    <2>2. /\ nets' \in Seq(Networks) /\ Len(nets') = Len(nets) + 1
          /\ \A n \in 1 .. Len(nets) + 1 : nets'[n] = IF n = Len(nets) + 1 THEN Started ELSE nets[n]
      BY <1>0, <1>3, <2>1, QueueFacts
    <2>3. DOMAIN nets' = 1 .. Len(nets) + 1
      BY <2>2, LenProperties
    <2>4. \A n \in 1 .. Len(nets') : Whole(nets'[n])
      BY <1>0, <2>1, <2>2
    <2>5. OneNetwork'
      BY <1>0, <1>1, <1>3, <2>2, <2>3 DEF OneNetwork
    <2>6. /\ Len(nets') <= MaxNetworks /\ current' \in 0 .. Len(nets') /\ stopCall'.net \in 0 .. Len(nets')
      BY <1>0, <1>3, <2>2, InstAssumption
    <2> QED  BY <1>0, <2>2, <2>4, <2>5, <2>6 DEF InstInv
  <1> QED
    BY <1>2, <1>3 DEF Start

LEMMA UpdateSecretsKeeps ==
    ASSUME InstInv, UpdateSecrets
    PROVE  InstInv'
  <1>0. current \in 1 .. Len(nets) /\ Whole(nets[current]) /\ DOMAIN nets = 1 .. Len(nets) /\ nets \in Seq(Networks)
    <2>1. current \in 0 .. Len(nets) /\ current # 0 /\ Len(nets) \in Nat
      BY InstFacts DEF InstInv, UpdateSecrets
    <2>2. current \in 1 .. Len(nets)
      BY <2>1
    <2> QED  BY <2>2, InstFacts
  <1> DEFINE r == nets[current]
             commands == Append(r.commands, "UpdateSecrets")
             q == [r EXCEPT !.commands = commands]
  <1>1. nets' = [nets EXCEPT ![current] = q]
    BY DEF UpdateSecrets
  <1>2. r.commands \in Seq({"UpdateSecrets", "Stop"}) /\ Len(r.commands) < CommandCapacity
    BY <1>0, WholeFields DEF UpdateSecrets
  <1>3. commands \in Seq({"UpdateSecrets", "Stop"}) /\ Len(commands) <= CommandCapacity
    <2> HIDE DEF r
    <2>1. commands \in Seq({"UpdateSecrets", "Stop"}) /\ Len(commands) = Len(r.commands) + 1 /\ Len(r.commands) \in Nat
      BY <1>2, QueueFacts
    <2> QED  BY <1>2, <2>1, InstAssumption
  <1>4. Whole(q) /\ q.thread = r.thread
    <2> HIDE DEF r, commands
    <2>1. Whole(r)
      BY <1>0 DEF r
    <2> QED  BY <1>3, <2>1, CommandsWhole
  <1> HIDE DEF q
  <1>5. current' = current /\ channel' = channel /\ stopCall' = stopCall
    BY DEF UpdateSecrets
  <1> QED
    BY <1>0, <1>1, <1>4, <1>5, RecordKeeps DEF InstInv

\* The steps of stop.
LEMMA StopKeeps ==
    ASSUME InstInv, StopNetwork \/ JoinThread \/ StopReturns
    PROVE  InstInv'
  <1>0. /\ nets \in Seq(Networks) /\ Len(nets) \in Nat /\ DOMAIN nets = 1 .. Len(nets)
        /\ \A n \in 1 .. Len(nets) : Whole(nets[n])
        /\ UNCHANGED <<nets, channel>> /\ stopCall \in StopCalls
    BY InstFacts DEF StopNetwork, JoinThread, StopReturns, InstInv
  <1>1. CASE StopNetwork
    <2>1. /\ stopCall.net = 0 /\ current # 0 /\ current' = 0 /\ stopCall'.net = current /\ stopCall'.at = "sending"
          /\ stopCall' \in StopCalls
      <3>1. stopCall = NoStop /\ current # 0 /\ current \in 0 .. Len(nets)
            /\ stopCall' = [net |-> current, at |-> "sending"] /\ current' = 0
        BY <1>1 DEF StopNetwork, InstInv
      <3> QED  BY <1>0, <3>1, InstFacts DEF StopCalls
    <2>2. OneNetwork'
      BY <1>0, <2>1 DEF InstInv, OneNetwork
    <2> QED  BY <1>0, <2>1, <2>2 DEF InstInv
  <1>2. CASE JoinThread
    <2>1. /\ stopCall.at # "idle" /\ stopCall'.net = stopCall.net /\ stopCall'.at = "draining" /\ stopCall' \in StopCalls
          /\ current' = current
      BY <1>0, <1>2 DEF JoinThread, StopCalls
    <2>2. OneNetwork'
      BY <1>0, <2>1 DEF InstInv, OneNetwork
    <2> QED  BY <1>0, <2>1, <2>2 DEF InstInv
  <1>3. CASE StopReturns
    <2>1. /\ stopCall.at # "idle" /\ stopCall.net \in 1 .. Len(nets) /\ ~nets[stopCall.net].drain
          /\ stopCall'.net = 0 /\ stopCall'.at = "idle" /\ stopCall' \in StopCalls
          /\ current' = current
      <3>1. stopCall.at = "draining" /\ stopCall.net \in 0 .. Len(nets) /\ stopCall.net # 0
        BY <1>3 DEF StopReturns, InstInv
      <3> QED  BY <1>0, <1>3, <3>1, InstFacts DEF StopReturns
    <2>2. nets[stopCall.net].thread = "finished"
      BY <1>0, <2>1 DEF Whole
    <2>3. OneNetwork'
      BY <1>0, <2>1, <2>2 DEF InstInv, OneNetwork
    <2> QED  BY <1>0, <2>1, <2>3 DEF InstInv
  <1> QED
    BY <1>1, <1>2, <1>3

LEMMA SendStopKeeps ==
    ASSUME InstInv, SendStop
    PROVE  InstInv'
  <1> DEFINE n == stopCall.net
  <1>0. /\ n \in 1 .. Len(nets) /\ Whole(nets[n]) /\ stopCall.at = "sending" /\ stopCall \in StopCalls
        /\ nets \in Seq(Networks) /\ DOMAIN nets = 1 .. Len(nets)
    <2>1. stopCall.at = "sending" /\ stopCall.net \in 0 .. Len(nets) /\ stopCall.net # 0 /\ Len(nets) \in Nat
      BY InstFacts DEF SendStop, InstInv
    <2>2. n \in 1 .. Len(nets)
      BY <2>1
    <2> QED  BY <2>1, <2>2, InstFacts DEF InstInv
  <1>1. stopCall' \in StopCalls /\ stopCall'.net = stopCall.net /\ stopCall'.at = "joining"
    BY <1>0 DEF SendStop, StopCalls
  <1>2. current' = current /\ channel' = channel
    BY DEF SendStop
  <1>3. CASE UNCHANGED nets
    <2>1. OneNetwork'
      BY <1>1, <1>2, <1>3 DEF InstInv, OneNetwork
    <2> QED  BY <1>0, <1>1, <1>2, <1>3, <2>1 DEF InstInv
  <1>4. CASE Len(nets[n].commands) < CommandCapacity /\ nets' = [nets EXCEPT ![n].commands = Append(@, "Stop")]
    <2> DEFINE r == nets[n]
               commands == Append(r.commands, "Stop")
               q == [r EXCEPT !.commands = commands]
    <2>1. nets' = [nets EXCEPT ![n] = q]
      BY <1>4
    <2> HIDE DEF n
    <2>2. r.commands \in Seq({"UpdateSecrets", "Stop"}) /\ Whole(r)
      BY <1>0, WholeFields
    <2> HIDE DEF r
    <2>3. commands \in Seq({"UpdateSecrets", "Stop"}) /\ Len(commands) = Len(r.commands) + 1 /\ Len(r.commands) \in Nat
      BY <2>2, QueueFacts
    <2>4. Len(commands) <= CommandCapacity
      <3>1. Len(r.commands) < CommandCapacity
        BY <1>4 DEF r
      <3> QED  BY <2>3, <3>1, InstAssumption
    <2> HIDE DEF commands
    <2>5. Whole(q) /\ q.thread = r.thread
      BY <2>2, <2>3, <2>4, CommandsWhole
    <2> HIDE DEF q
    <2>6. q.thread = "running" => nets[n].thread = "running"
      BY <2>5 DEF r
    <2> QED  BY <1>0, <1>1, <1>2, <2>1, <2>5, <2>6, RecordKeeps DEF InstInv
  <1> QED
    BY <1>3, <1>4 DEF SendStop

LEMMA ThreadKeeps ==
    ASSUME InstInv, NEW n \in DOMAIN nets, Thread(n)
    PROVE  InstInv'
  <1>0. n \in 1 .. Len(nets) /\ Whole(nets[n]) /\ nets \in Seq(Networks)
    BY InstFacts
  <1>1. current' = current /\ channel' = channel /\ stopCall' = stopCall
    BY DEF Thread
  <1> DEFINE r == nets[n]
  <1>2. \E q : /\ nets' = [nets EXCEPT ![n] = q] /\ Whole(q) /\ (q.thread = "running" => r.thread = "running")
    <2>1. CASE r.thread = "running" /\ r.commands # <<>> /\ nets' = [nets EXCEPT ![n].commands = Tail(@)]
      <3> DEFINE commands == Tail(r.commands)
                 q == [r EXCEPT !.commands = commands]
      <3>1. nets' = [nets EXCEPT ![n] = q]
        BY <2>1
      <3> HIDE DEF r
      <3>2. Whole(r) /\ r.commands \in Seq({"UpdateSecrets", "Stop"}) /\ Len(r.commands) <= CommandCapacity
        BY <1>0, WholeFields DEF r, Whole
      <3>3. commands \in Seq({"UpdateSecrets", "Stop"}) /\ Len(commands) = Len(r.commands) - 1 /\ Len(r.commands) \in Nat
        BY <2>1, <3>2, QueueFacts
      <3>4. Len(commands) <= CommandCapacity
        BY <3>2, <3>3, InstAssumption
      <3> HIDE DEF commands
      <3>5. Whole(q)
        BY <3>2, <3>3, <3>4, CommandsWhole
      <3> QED  BY <2>1, <3>1, <3>5
    <2>2. CASE r.thread = "running" /\ nets' = [nets EXCEPT ![n] = Emit(@, "Connected")]
      <3>1. Whole(Emit(r, "Connected"))
        BY <1>0, <2>2, EmitWhole
      <3> QED  BY <2>2, <3>1
    <2>3. CASE /\ r.thread = "running"
               /\ \E what \in Terminals : nets' = [nets EXCEPT ![n] = [Emit(@, what) EXCEPT !.thread = "released"]]
      <3>1. PICK what \in Terminals : nets' = [nets EXCEPT ![n] = [Emit(r, what) EXCEPT !.thread = "released"]]
        BY <2>3
      <3> DEFINE q == [Emit(r, what) EXCEPT !.thread = "released"]
      <3>2. Whole(q)
        BY <1>0, <2>3, EmitWhole
      <3> QED  BY <2>3, <3>1, <3>2
    <2>4. CASE r.thread = "released" /\ nets' = [nets EXCEPT ![n].thread = "finished"]
      <3> DEFINE q == [r EXCEPT !.thread = "finished"]
      <3>1. nets' = [nets EXCEPT ![n] = q]
        BY <2>4
      <3>2. Whole(q) /\ q.thread = "finished"
        BY <1>0, ThreadWhole
      <3> QED  BY <3>1, <3>2
    <2> QED  BY <2>1, <2>2, <2>3, <2>4 DEF Thread, Terminals
  <1> QED
    BY <1>0, <1>1, <1>2, RecordKeeps DEF InstInv

LEMMA DrainKeeps ==
    ASSUME InstInv, NEW n \in DOMAIN nets, Drain(n)
    PROVE  InstInv'
  <1>0. n \in 1 .. Len(nets) /\ Whole(nets[n]) /\ nets \in Seq(Networks) /\ channel \in 0 .. ChannelCapacity
    BY InstFacts DEF InstInv
  <1>1. current' = current /\ stopCall' = stopCall
    BY DEF Drain
  <1>2. CASE /\ nets[n].ring # <<>> /\ nets' = [nets EXCEPT ![n] = Observe(@)]
             /\ channel' = IF channel = ChannelCapacity THEN channel ELSE channel + 1
    <2>1. Whole(Observe(nets[n])) /\ Observe(nets[n]).thread = nets[n].thread
      BY <1>0, <1>2, ObserveWhole
    <2>2. channel' \in 0 .. ChannelCapacity
      BY <1>0, <1>2, InstAssumption
    <2>3. nets' = [nets EXCEPT ![n] = Observe(nets[n])]
      BY <1>2
    <2> QED  BY <1>0, <1>1, <2>1, <2>2, <2>3, RecordKeeps DEF InstInv
  <1>3. CASE nets[n].thread = "finished" /\ nets' = [nets EXCEPT ![n].drain = FALSE] /\ UNCHANGED channel
    <2> DEFINE q == [nets[n] EXCEPT !.drain = FALSE]
    <2>1. Whole(q) /\ q.thread = "finished"
      BY <1>0, <1>3, DrainWhole
    <2>2. nets' = [nets EXCEPT ![n] = q]
      BY <1>3
    <2> HIDE DEF q
    <2> QED  BY <1>0, <1>1, <1>3, <2>1, <2>2, RecordKeeps DEF InstInv
  <1> QED
    BY <1>2, <1>3 DEF Drain

LEMMA InstStep ==
    ASSUME InstInv, [InstNext]_instVars
    PROVE  InstInv'
  <1>1. CASE TakeEvents
    <2>1. channel' \in 0 .. ChannelCapacity /\ UNCHANGED <<nets, current, stopCall>>
      BY <1>1, InstAssumption DEF TakeEvents, InstInv
    <2> QED  BY <2>1 DEF InstInv, OneNetwork
  <1>2. CASE UNCHANGED instVars
    BY <1>2 DEF instVars, InstInv, OneNetwork
  <1>3. CASE Start \/ UpdateSecrets \/ StopNetwork \/ SendStop \/ JoinThread \/ StopReturns
    BY <1>3, StartKeeps, UpdateSecretsKeeps, StopKeeps, SendStopKeeps
  <1>4. ASSUME NEW n \in DOMAIN nets, Thread(n) \/ Drain(n) PROVE InstInv'
    BY <1>4, ThreadKeeps, DrainKeeps
  <1> QED
    BY <1>1, <1>2, <1>3, <1>4 DEF InstNext

\* The inductive invariant of an instance's networks holds in every state, for queues of
\* any capacity and any number of networks.
THEOREM InstInvariant == InstSpec => []InstInv
  <1>1. InstInit => InstInv
    BY InstAssumption DEF InstInit, InstInv, OneNetwork, NoStop, StopCalls
  <1>2. InstInv /\ [InstNext]_instVars => InstInv'
    BY InstStep
  <1> QED
    BY <1>1, <1>2, PTL DEF InstSpec

\* The ring of events, the command queue and the agent's channel stay within their
\* capacities.
THEOREM InstTypes == InstSpec => []InstTypeOK
  <1>1. InstInv => InstTypeOK
    <2> SUFFICES ASSUME InstInv PROVE InstTypeOK
      OBVIOUS
    <2>1. DOMAIN nets = 1 .. Len(nets) /\ Len(nets) \in Nat /\ \A n \in 1 .. Len(nets) : Whole(nets[n])
      BY InstFacts
    <2>2. DOMAIN nets \subseteq 1 .. MaxNetworks
      BY <2>1, InstAssumption DEF InstInv
    <2>3. \A n \in DOMAIN nets :
              /\ nets[n].thread \in {"running", "released", "finished"}
              /\ Len(nets[n].ring) <= RingCapacity /\ Len(nets[n].commands) <= CommandCapacity
              /\ nets[n].status \in {"Starting", "Connected"} \cup Terminals
      BY <2>1, WholeFields DEF Whole
    <2> QED  BY <2>2, <2>3 DEF InstInv, InstTypeOK, StopCalls
  <1> QED
    BY <1>1, InstInvariant, PTL

\* Two networks never serve the same instance: one that start replaces, or whose stop has
\* returned, has let go of the guest's transport and of the host ports.
THEOREM NetworksAreExclusive == InstSpec => []OneNetwork
  <1>1. InstInv => OneNetwork
    BY DEF InstInv
  <1> QED
    BY <1>1, InstInvariant, PTL
-----------------------------------------------------------------------------
(***************************************************************************)
(* What a status says of a bootstrap (agent/runtime.rs).  The task, the    *)
(* messages it has in the inbox and the work that is held belong together: *)
(* a task that runs is the one of the work, a message of its id is not     *)
(* ahead of it, and one that ends it is there only when it is gone.        *)
(***************************************************************************)
Verdicts == {"Passed", "Failed"}
BootWorks == [id : Nat, kind : {"none", "Bootstrapping", "Reconciling"}, gen : Nat]
ShownBoots == [phase : {"none", "Running", "Failed", "BackingOff"}, step : 0 .. Steps, count : Nat]
Attempts == [failures : 0 .. MaxFailures, wait : 0 .. RetryMaxDelay, ready : BOOLEAN]
BootTasks == [id : Nat, gen : Nat, at : {"none", "announcing", "running", "failing", "finishing"}, step : 0 .. Steps]
Mails ==
    [kind : {"other", "Started", "StepStarted", "StepFinished", "StepFailed"} \cup Verdicts,
     id : Nat, gen : Nat, step : 0 .. Steps]
BootFaultSet == [crashes : Nat, failedGen : Nat]

BootTypesInv ==
    /\ desired \in 1 .. MaxGenerations /\ bootWork \in BootWorks /\ shownBoot \in ShownBoots
    /\ attempts \in Attempts /\ stored \in Attempts /\ retry \in 0 .. None
    /\ bootTask \in BootTasks /\ mail \in Seq(Mails) /\ Len(mail) <= BootInbox
    /\ nextWork \in Nat \ {0} /\ bootFaults \in BootFaultSet

\* The task that runs is the one of the work that is held.
BootWorkInv ==
    /\ bootWork.kind = "none" => bootWork = NoWork
    /\ bootWork.kind # "none" => bootWork.id \in 1 .. nextWork - 1
    /\ bootTask.at = "none" => bootTask = NoTask
    /\ bootTask.at # "none" => /\ bootTask.id # 0 /\ bootWork.kind = "Bootstrapping"
                               /\ bootWork.id = bootTask.id

\* A message of a task: not ahead of it, and its verdict comes when the task is gone, with a
\* failure that can still be counted.
Expected(msg) ==
    msg.kind # "other" =>
        /\ msg.id \in 1 .. nextWork - 1
        /\ msg.id = bootTask.id => msg.step <= bootTask.step /\ msg.kind \notin Verdicts
        /\ msg.kind = "Failed" /\ OwnsBootstrap(msg) => attempts.failures < MaxFailures

BootMailInv == \A i \in 1 .. Len(mail) : Expected(mail[i])

BootInv ==
    /\ BootTypesInv /\ BootWorkInv /\ BootMailInv
    /\ bootFaults.failedGen <= desired
    /\ ProgressTrue

LEMMA BootFields ==
    ASSUME BootTypesInv
    PROVE  /\ bootWork.id \in Nat /\ bootWork.kind \in {"none", "Bootstrapping", "Reconciling"} /\ bootWork.gen \in Nat
           /\ shownBoot.step \in 0 .. Steps /\ shownBoot.count \in Nat
           /\ shownBoot.phase \in {"none", "Running", "Failed", "BackingOff"}
           /\ attempts.failures \in 0 .. MaxFailures /\ attempts.wait \in 0 .. RetryMaxDelay /\ attempts.ready \in BOOLEAN
           /\ stored.failures \in 0 .. MaxFailures /\ stored.wait \in 0 .. RetryMaxDelay
           /\ bootTask.id \in Nat /\ bootTask.gen \in Nat /\ bootTask.step \in 0 .. Steps
           /\ bootTask.at \in {"none", "announcing", "running", "failing", "finishing"}
           /\ bootFaults.crashes \in Nat /\ bootFaults.failedGen \in Nat
           /\ desired \in Nat /\ nextWork \in Nat /\ nextWork >= 1
  <1>1. desired \in Nat /\ nextWork \in Nat /\ nextWork >= 1
    BY BootAssumption DEF BootTypesInv
  <1> QED
    BY <1>1 DEF BootTypesInv, BootWorks, ShownBoots, Attempts, BootTasks, BootFaultSet

LEMMA BootBounds ==
    /\ Steps \in Nat /\ RetryMaxDelay \in Nat /\ BootInbox \in Nat /\ MaxFailures \in Nat /\ MaxCrashes \in Nat
    /\ MaxGenerations \in Nat /\ MaxGenerations >= 1
  <1>1. MaxGenerations \in Nat \ {0}
    BY BootAssumption
  <1> QED
    BY <1>1, BootAssumption

LEMMA BootConstants ==
    /\ NoWork \in BootWorks /\ NoWork.id = 0 /\ NoWork.kind = "none"
    /\ NoBoot \in ShownBoots /\ NoBoot.phase = "none" /\ NoBoot.step = 0
    /\ NoTask \in BootTasks /\ NoTask.id = 0 /\ NoTask.at = "none" /\ NoTask.step = 0
    /\ Fresh \in Attempts /\ None = RetryMaxDelay + 1 /\ None \in 0 .. None /\ RetryMaxDelay \in Nat
    /\ \A what : WorkStatus(what) \in ShownBoots /\ WorkStatus(what).step = 0
                 /\ WorkStatus(what).phase = IF what = "Bootstrapping" THEN "Running" ELSE "none"
  <1>1. 0 \in 0 .. Steps /\ 0 \in 0 .. MaxFailures /\ 0 \in 0 .. RetryMaxDelay
    BY BootBounds
  <1>2. /\ NoWork \in BootWorks /\ NoWork.id = 0 /\ NoWork.kind = "none"
        /\ NoBoot \in ShownBoots /\ NoBoot.phase = "none" /\ NoBoot.step = 0
        /\ NoTask \in BootTasks /\ NoTask.id = 0 /\ NoTask.at = "none" /\ NoTask.step = 0
        /\ Fresh \in Attempts
    BY <1>1 DEF NoWork, BootWorks, NoBoot, ShownBoots, NoTask, BootTasks, Fresh, Attempts
  <1>3. None = RetryMaxDelay + 1 /\ None \in 0 .. None /\ RetryMaxDelay \in Nat
    BY BootBounds DEF None
  <1>4. ASSUME NEW what
        PROVE  /\ WorkStatus(what) \in ShownBoots /\ WorkStatus(what).step = 0
               /\ WorkStatus(what).phase = IF what = "Bootstrapping" THEN "Running" ELSE "none"
    BY <1>1 DEF WorkStatus, NoBoot, ShownBoots
  <1> QED
    BY <1>2, <1>3, <1>4

\* The inbox: as it is, one message longer, one shorter.
LEMMA MailStays ==
    ASSUME BootInv, UNCHANGED mail, \A msg \in Mails : Expected(msg) => Expected(msg)'
    PROVE  mail' \in Seq(Mails) /\ Len(mail') <= BootInbox /\ BootMailInv'
  <1>1. mail \in Seq(Mails) /\ \A i \in 1 .. Len(mail) : mail[i] \in Mails
    BY ElementOfSeq DEF BootInv, BootTypesInv
  <1>2. ASSUME NEW i \in 1 .. Len(mail'), NEW m, m = mail'[i] PROVE Expected(m)'
    BY <1>1, <1>2 DEF BootInv, BootMailInv
  <1> QED
    BY <1>1, <1>2 DEF BootInv, BootTypesInv, BootMailInv, Expected, OwnsBootstrap

LEMMA MailGrows ==
    ASSUME BootInv, NEW m \in Mails, mail' = Append(mail, m), Len(mail) < BootInbox,
           \A msg \in Mails : Expected(msg) => Expected(msg)', Expected(m)'
    PROVE  mail' \in Seq(Mails) /\ Len(mail') <= BootInbox /\ BootMailInv'
  <1>1. /\ mail \in Seq(Mails) /\ Len(mail) \in Nat /\ \A i \in 1 .. Len(mail) : mail[i] \in Mails
        /\ mail' \in Seq(Mails) /\ Len(mail') = Len(mail) + 1
        /\ \A i \in 1 .. Len(mail) + 1 : mail'[i] = IF i = Len(mail) + 1 THEN m ELSE mail[i]
    BY QueueFacts DEF BootInv, BootTypesInv
  <1>2. Len(mail') <= BootInbox
    BY <1>1, BootBounds
  <1>3. ASSUME NEW i \in 1 .. Len(mail'), NEW n, n = mail'[i] PROVE Expected(n)'
    <2>1. CASE i = Len(mail) + 1
      <3>1. n = m
        BY <1>1, <1>3, <2>1
      <3> QED  BY <3>1
    <2>2. CASE i # Len(mail) + 1
      <3>1. i \in 1 .. Len(mail) /\ mail'[i] = mail[i]
        BY <1>1, <2>2
      <3>2. Expected(n) /\ n \in Mails
        BY <1>1, <1>3, <3>1 DEF BootInv, BootMailInv
      <3> QED  BY <3>1, <3>2
    <2> QED  BY <2>1, <2>2
  <1> QED
    BY <1>1, <1>2, <1>3 DEF BootMailInv, Expected, OwnsBootstrap

LEMMA MailShrinks ==
    ASSUME BootInv, mail # <<>>, mail' = Tail(mail), \A msg \in Mails : Expected(msg) => Expected(msg)'
    PROVE  mail' \in Seq(Mails) /\ Len(mail') <= BootInbox /\ BootMailInv'
  <1>1. /\ mail \in Seq(Mails) /\ Len(mail) \in Nat /\ \A i \in 1 .. Len(mail) : mail[i] \in Mails
        /\ mail' \in Seq(Mails) /\ Len(mail') = Len(mail) - 1
        /\ \A i \in 1 .. Len(mail) - 1 : mail'[i] = mail[i + 1]
    <2>1. mail \in Seq(Mails) /\ Mails # {}
      <3>1. [kind |-> "other", id |-> 0, gen |-> 0, step |-> 0] \in Mails
        BY BootBounds DEF Mails
      <3> QED  BY <3>1 DEF BootInv, BootTypesInv
    <2>2. PICK m : m \in Mails
      BY <2>1
    <2> QED  BY <2>1, <2>2, QueueFacts
  <1>2. Len(mail') <= BootInbox
    BY <1>1, BootBounds DEF BootInv, BootTypesInv
  <1>3. ASSUME NEW i \in 1 .. Len(mail'), NEW n, n = mail'[i] PROVE Expected(n)'
    <2>1. i + 1 \in 1 .. Len(mail) /\ mail'[i] = mail[i + 1]
      BY <1>1
    <2>2. Expected(n) /\ n \in Mails
      BY <1>1, <1>3, <2>1 DEF BootInv, BootMailInv
    <2> QED  BY <2>1, <2>2
  <1> QED
    BY <1>1, <1>2, <1>3 DEF BootMailInv, Expected, OwnsBootstrap

\* New work has an id that no message has.
LEMMA AdmitKeeps ==
    ASSUME BootInv, bootWork = NoWork, UNCHANGED <<desired, attempts, mail, stored, bootFaults>>,
           NEW what \in {"Bootstrapping", "Reconciling"}, Admit(what), retry' \in 0 .. None,
           \/ what = "Reconciling" /\ bootTask' = bootTask
           \/ /\ what = "Bootstrapping"
              /\ bootTask' = [id |-> nextWork, gen |-> desired, at |-> "announcing", step |-> 0]
    PROVE  BootInv'
  <1>0. BootTypesInv /\ BootWorkInv
    BY DEF BootInv
  <1>1. /\ bootWork' \in BootWorks /\ bootWork'.id = nextWork /\ bootWork'.kind = what /\ nextWork' = nextWork + 1
        /\ nextWork' \in Nat \ {0} /\ nextWork \in Nat /\ nextWork >= 1
        /\ shownBoot' \in ShownBoots /\ shownBoot'.step = 0
        /\ shownBoot'.phase = IF what = "Bootstrapping" THEN "Running" ELSE "none"
    <2>1. nextWork \in Nat /\ nextWork >= 1 /\ desired \in Nat
      BY <1>0, BootFields
    <2> QED  BY <2>1, BootConstants DEF Admit, BootWorks
  <1>2. bootTask = NoTask
    BY <1>0, BootConstants, BootFields DEF BootWorkInv
  <1>3. /\ bootTask' \in BootTasks
        /\ \/ bootTask' = NoTask
           \/ what = "Bootstrapping" /\ bootTask'.id = nextWork /\ bootTask'.at = "announcing" /\ bootTask'.step = 0
    <2>1. nextWork \in Nat /\ desired \in Nat /\ 0 \in 0 .. Steps
      BY <1>0, BootFields, BootBounds
    <2> QED  BY <1>2, <2>1, BootConstants DEF BootTasks
  <1>4. ASSUME NEW msg \in Mails, Expected(msg) PROVE Expected(msg)'
    <2> SUFFICES ASSUME msg.kind # "other"
                 PROVE  /\ msg.id \in 1 .. nextWork' - 1 /\ msg.id # bootTask'.id /\ ~OwnsBootstrap(msg)'
      BY DEF Expected
    <2>1. msg.id \in 1 .. nextWork - 1
      BY <1>4 DEF Expected
    <2>2. msg.id # nextWork /\ msg.id # 0 /\ msg.id \in 1 .. nextWork' - 1
      BY <1>1, <2>1
    <2> QED  BY <1>1, <1>3, <2>2, BootConstants DEF OwnsBootstrap
  <1>5. mail' \in Seq(Mails) /\ Len(mail') <= BootInbox /\ BootMailInv'
    BY <1>4, MailStays
  <1>6. BootTypesInv'
    BY <1>0, <1>1, <1>3, <1>5 DEF BootTypesInv
  <1>7. BootWorkInv'
    BY <1>1, <1>3, BootConstants DEF BootWorkInv
  <1>8. ProgressTrue'
    BY <1>1 DEF ProgressTrue
  <1>9. bootFaults'.failedGen <= desired'
    BY DEF BootInv
  <1> QED
    BY <1>5, <1>6, <1>7, <1>8, <1>9 DEF BootInv

LEMMA NewGenerationKeeps ==
    ASSUME BootInv, NewGeneration
    PROVE  BootInv'
  <1>0. BootTypesInv /\ attempts \in Attempts /\ desired \in 1 .. MaxGenerations /\ bootFaults.failedGen \in Nat
        /\ bootFaults.failedGen <= desired
    BY BootFields DEF BootInv, BootTypesInv
  <1>1. /\ desired' = desired + 1 /\ desired < MaxGenerations /\ retry' = None /\ attempts' = [attempts EXCEPT !.ready = FALSE]
        /\ UNCHANGED <<bootWork, shownBoot, bootTask, mail, nextWork, stored, bootFaults>>
    BY DEF NewGeneration
  <1>2. attempts' \in Attempts /\ attempts'.failures = attempts.failures
    BY <1>0, <1>1 DEF Attempts
  <1>3. desired' \in 1 .. MaxGenerations /\ bootFaults'.failedGen < desired' /\ bootFaults'.failedGen # desired'
    BY <1>0, <1>1, BootBounds
  <1>4. \A msg \in Mails : Expected(msg) => Expected(msg)'
    BY <1>1, <1>2 DEF Expected, OwnsBootstrap
  <1>5. mail' \in Seq(Mails) /\ Len(mail') <= BootInbox /\ BootMailInv'
    BY <1>1, <1>4, MailStays
  <1>6. BootTypesInv'
    BY <1>0, <1>1, <1>2, <1>3, <1>5, BootConstants DEF BootTypesInv
  <1>7. BootWorkInv'
    BY <1>1 DEF BootInv, BootWorkInv
  <1>8. ProgressTrue'
    BY <1>1, <1>2, <1>3 DEF BootInv, ProgressTrue
  <1>9. bootFaults'.failedGen <= desired'
    BY <1>0, <1>1
  <1> QED
    BY <1>5, <1>6, <1>7, <1>8, <1>9 DEF BootInv

\* The task goes on, with or without a message that fits.
LEMMA TaskGoesOn ==
    ASSUME BootInv, UNCHANGED <<desired, bootWork, shownBoot, attempts, retry, nextWork, stored, bootFaults>>,
           bootTask.at # "none", bootTask' \in BootTasks, bootTask'.id = bootTask.id, bootTask'.at # "none",
           bootTask.step <= bootTask'.step,
           \/ UNCHANGED mail
           \/ /\ Len(mail) < BootInbox
              /\ \E m \in Mails : /\ mail' = Append(mail, m) /\ m.id = bootTask.id
                                  /\ m.kind \notin Verdicts /\ m.step <= bootTask'.step
    PROVE  BootInv'
  <1>0. BootTypesInv /\ BootWorkInv /\ bootTask.step \in 0 .. Steps /\ bootTask'.step \in 0 .. Steps
    BY BootFields DEF BootInv, BootTasks
  <1>1. bootTask.id = bootWork.id /\ bootWork.kind = "Bootstrapping" /\ bootTask.id \in 1 .. nextWork - 1 /\ bootTask.id # 0
    BY <1>0 DEF BootWorkInv
  <1>2. ASSUME NEW msg \in Mails, Expected(msg) PROVE Expected(msg)'
    <2>1. msg.step \in 0 .. Steps
      BY DEF Mails
    <2>2. msg.step <= bootTask.step => msg.step <= bootTask'.step
      BY <1>0, <2>1, BootBounds
    <2> QED  BY <1>2, <2>2 DEF Expected, OwnsBootstrap
  <1>3. mail' \in Seq(Mails) /\ Len(mail') <= BootInbox /\ BootMailInv'
    <2>1. CASE UNCHANGED mail
      BY <1>2, <2>1, MailStays
    <2>2. CASE /\ Len(mail) < BootInbox
               /\ \E m \in Mails : /\ mail' = Append(mail, m) /\ m.id = bootTask.id
                                   /\ m.kind \notin Verdicts /\ m.step <= bootTask'.step
      <3>1. PICK m \in Mails : /\ mail' = Append(mail, m) /\ m.id = bootTask.id
                               /\ m.kind \notin Verdicts /\ m.step <= bootTask'.step
        BY <2>2
      <3>2. Expected(m)'
        BY <1>1, <3>1 DEF Expected, Verdicts
      <3> QED  BY <1>2, <2>2, <3>1, <3>2, MailGrows
    <2> QED  BY <2>1, <2>2
  <1>4. BootTypesInv'
    BY <1>0, <1>3 DEF BootTypesInv
  <1>5. BootWorkInv'
    BY <1>0, <1>1 DEF BootWorkInv
  <1>6. ProgressTrue'
    <2>1. shownBoot.step \in 0 .. Steps
      BY <1>0, BootFields
    <2>2. shownBoot.step # 0 => shownBoot.step <= bootTask'.step
      <3>1. shownBoot.step # 0 => shownBoot.step <= bootTask.step
        BY <1>1 DEF BootInv, ProgressTrue
      <3> QED  BY <1>0, <2>1, <3>1, BootBounds
    <2> QED  BY <1>1, <2>2 DEF BootInv, ProgressTrue
  <1>7. bootFaults'.failedGen <= desired'
    BY DEF BootInv
  <1> QED
    BY <1>3, <1>4, <1>5, <1>6, <1>7 DEF BootInv

LEMMA MessageFacts ==
    ASSUME BootTypesInv, NEW what \in {"Started", "StepStarted", "StepFinished", "StepFailed"} \cup Verdicts,
           NEW step \in 0 .. Steps
    PROVE  /\ Message(what, step) \in Mails /\ Message(what, step).id = bootTask.id
           /\ Message(what, step).kind = what /\ Message(what, step).step = step
  BY BootFields DEF Message, Mails

LEMMA TaskReportsKeeps ==
    ASSUME BootInv, TaskAnnounces \/ TaskReports
    PROVE  BootInv'
  <1>0. BootTypesInv /\ bootTask \in BootTasks /\ bootTask.step \in 0 .. Steps
    BY BootFields DEF BootInv, BootTypesInv
  <1>1. UNCHANGED <<desired, bootWork, shownBoot, attempts, retry, nextWork, stored, bootFaults>>
    BY DEF TaskAnnounces, TaskReports
  <1>2. bootTask.at # "none"
    BY DEF TaskAnnounces, TaskReports
  <1>z. 0 \in 0 .. Steps /\ 0 <= bootTask.step /\ bootTask.step <= bootTask.step
    BY <1>0, BootBounds
  <1>3. CASE TaskAnnounces
    <2>1. bootTask' \in BootTasks /\ bootTask'.id = bootTask.id /\ bootTask'.at = "running" /\ bootTask'.step = bootTask.step
      BY <1>0, <1>3 DEF TaskAnnounces, BootTasks
    <2> DEFINE m == Message("Started", 0)
    <2>2. m \in Mails /\ m.id = bootTask.id /\ m.kind = "Started" /\ m.step = 0
      BY <1>0, <1>z, MessageFacts
    <2>3. Len(mail) < BootInbox /\ mail' = Append(mail, m)
      BY <1>3 DEF TaskAnnounces, QueueCompletion
    <2> HIDE DEF m
    <2> QED  BY <1>1, <1>2, <1>z, <2>1, <2>2, <2>3, TaskGoesOn DEF Verdicts
  <1>4. ASSUME NEW what \in {"StepStarted", "StepFinished", "StepFailed"}, NEW step \in 0 .. Steps,
               QueueBootstrapEvent(what, step), bootTask' \in BootTasks, bootTask'.id = bootTask.id,
               bootTask'.at # "none", bootTask.step <= bootTask'.step, step <= bootTask'.step
        PROVE  BootInv'
    <2> DEFINE m == Message(what, step)
    <2>1. m \in Mails /\ m.id = bootTask.id /\ m.kind = what /\ m.step = step
      BY <1>0, MessageFacts
    <2>2. UNCHANGED mail \/ (Len(mail) < BootInbox /\ mail' = Append(mail, m))
      BY <1>4 DEF QueueBootstrapEvent
    <2> HIDE DEF m
    <2>3. m.kind \notin Verdicts
      BY <2>1 DEF Verdicts
    <2> QED  BY <1>1, <1>2, <1>4, <2>1, <2>2, <2>3, TaskGoesOn
  <1>5. CASE /\ bootTask.step < Steps /\ QueueBootstrapEvent("StepStarted", bootTask.step + 1)
             /\ bootTask' = [bootTask EXCEPT !.step = @ + 1] /\ bootTask.at = "running"
    <2> DEFINE next == bootTask.step + 1
    <2>1. next \in 0 .. Steps /\ bootTask.step <= next /\ next <= next
      BY <1>0, <1>5, BootBounds
    <2>2. bootTask' = [bootTask EXCEPT !.step = next] /\ QueueBootstrapEvent("StepStarted", next)
      BY <1>5
    <2> HIDE DEF next
    <2>3. bootTask' \in BootTasks /\ bootTask'.id = bootTask.id /\ bootTask'.at = "running" /\ bootTask'.step = next
      BY <1>0, <1>5, <2>1, <2>2 DEF BootTasks
    <2> QED  BY <1>4, <2>1, <2>2, <2>3
  <1>6. CASE QueueBootstrapEvent("StepFinished", bootTask.step) /\ UNCHANGED bootTask
    BY <1>0, <1>2, <1>4, <1>6, <1>z
  <1>7. CASE QueueBootstrapEvent("StepFailed", bootTask.step) /\ bootTask' = [bootTask EXCEPT !.at = "failing"]
    <2>1. bootTask' \in BootTasks /\ bootTask'.id = bootTask.id /\ bootTask'.at = "failing" /\ bootTask'.step = bootTask.step
      BY <1>0, <1>7 DEF BootTasks
    <2> QED  BY <1>0, <1>4, <1>7, <1>z, <2>1
  <1>8. CASE bootTask' = [bootTask EXCEPT !.at = "finishing"] /\ UNCHANGED mail
    <2>1. bootTask' \in BootTasks /\ bootTask'.id = bootTask.id /\ bootTask'.at = "finishing" /\ bootTask'.step = bootTask.step
      BY <1>0, <1>8 DEF BootTasks
    <2> QED  BY <1>1, <1>2, <1>8, <1>z, <2>1, TaskGoesOn
  <1> QED
    BY <1>3, <1>5, <1>6, <1>7, <1>8 DEF TaskReports

LEMMA NotZero ==
    ASSUME NEW n, NEW top, n \in 1 .. top
    PROVE  n # 0
  OBVIOUS

LEMMA TaskEndsKeeps ==
    ASSUME BootInv, TaskEnds
    PROVE  BootInv'
  <1>0. BootTypesInv /\ BootWorkInv
    BY DEF BootInv
  <1>1. /\ bootTask.at # "none" /\ bootTask' = NoTask
        /\ UNCHANGED <<desired, bootWork, shownBoot, attempts, retry, nextWork, stored, bootFaults>>
    BY DEF TaskEnds
  <1>2. bootTask.id = bootWork.id /\ bootWork.kind = "Bootstrapping" /\ bootTask.id \in 1 .. nextWork - 1 /\ bootTask.id # 0
    BY <1>0, <1>1 DEF BootWorkInv
  <1>3. PICK what \in Verdicts : QueueCompletion(what) /\ (what = "Failed" => attempts.failures < MaxFailures)
    BY DEF TaskEnds, Verdicts
  <1>m. PICK m : m = Message(what, 0)
    OBVIOUS
  <1>4. m \in Mails /\ m.id = bootTask.id /\ m.kind = what
    <2>1. 0 \in 0 .. Steps
      BY BootBounds
    <2> QED  BY <1>0, <1>m, <2>1, MessageFacts
  <1>5. Len(mail) < BootInbox /\ mail' = Append(mail, m)
    BY <1>3, <1>m DEF QueueCompletion
  <1>6. ASSUME NEW msg \in Mails, Expected(msg) PROVE Expected(msg)'
    <2>1. msg.kind # "other" => msg.id \in 1 .. nextWork - 1 /\ msg.id # 0
      BY <1>6, NotZero DEF Expected
    <2>2. bootTask'.id = 0 /\ nextWork' = nextWork
      BY <1>1, BootConstants
    <2>3. OwnsBootstrap(msg)' <=> OwnsBootstrap(msg)
      BY <1>1 DEF OwnsBootstrap
    <2> QED  BY <1>1, <1>6, <2>1, <2>2, <2>3 DEF Expected
  <1>7. Expected(m)'
    <2>1. bootTask'.id = 0 /\ nextWork' = nextWork /\ attempts' = attempts
      BY <1>1, BootConstants
    <2> QED  BY <1>2, <1>3, <1>4, <2>1 DEF Expected
  <1>8. mail' \in Seq(Mails) /\ Len(mail') <= BootInbox /\ BootMailInv'
    BY <1>4, <1>5, <1>6, <1>7, MailGrows
  <1>9. BootTypesInv'
    BY <1>0, <1>1, <1>8, BootConstants DEF BootTypesInv
  <1>10. BootWorkInv'
    BY <1>0, <1>1, BootConstants DEF BootWorkInv
  <1>11. ProgressTrue'
    BY <1>1, <1>2, BootConstants DEF BootInv, ProgressTrue
  <1>12. bootFaults'.failedGen <= desired'
    BY <1>1 DEF BootInv
  <1> QED
    BY <1>8, <1>9, <1>10, <1>11, <1>12 DEF BootInv

LEMMA OtherMailKeeps ==
    ASSUME BootInv, OtherMail
    PROVE  BootInv'
  <1> DEFINE m == [kind |-> "other", id |-> 0, gen |-> 0, step |-> 0]
  <1>1. /\ Len(mail) < BootInbox /\ mail' = Append(mail, m)
        /\ UNCHANGED <<desired, bootWork, shownBoot, attempts, retry, bootTask, nextWork, stored, bootFaults>>
    BY DEF OtherMail
  <1>2. m \in Mails /\ m.kind = "other"
    BY BootBounds DEF Mails
  <1> HIDE DEF m
  <1>3. Expected(m)' /\ \A msg \in Mails : Expected(msg) => Expected(msg)'
    BY <1>1, <1>2 DEF Expected, OwnsBootstrap
  <1>4. mail' \in Seq(Mails) /\ Len(mail') <= BootInbox /\ BootMailInv'
    BY <1>1, <1>2, <1>3, MailGrows
  <1>5. BootTypesInv' /\ BootWorkInv' /\ ProgressTrue' /\ bootFaults'.failedGen <= desired'
    BY <1>1, <1>4 DEF BootInv, BootTypesInv, BootWorkInv, ProgressTrue
  <1> QED
    BY <1>4, <1>5 DEF BootInv

\* Without a task the work is dropped: nothing in the inbox is about it any more.
LEMMA ClearKeeps ==
    ASSUME BootInv, bootTask = NoTask, UNCHANGED <<desired, bootTask, nextWork, stored>>, bootWork' = NoWork,
           UNCHANGED mail \/ (mail # <<>> /\ mail' = Tail(mail)),
           attempts' \in Attempts, retry' \in 0 .. None, bootFaults' \in BootFaultSet, bootFaults'.failedGen <= desired,
           \/ shownBoot' = NoBoot
           \/ /\ shownBoot' \in ShownBoots /\ shownBoot'.phase = "BackingOff" /\ shownBoot'.step = 0
              /\ shownBoot'.count = attempts'.failures /\ retry' # None
    PROVE  BootInv'
  <1>0. BootTypesInv /\ BootWorkInv
    BY DEF BootInv
  <1>1. ASSUME NEW msg \in Mails, Expected(msg) PROVE Expected(msg)'
    <2>1. ~OwnsBootstrap(msg)'
      BY BootConstants DEF OwnsBootstrap
    <2> QED  BY <1>1, <2>1 DEF Expected
  <1>2. mail' \in Seq(Mails) /\ Len(mail') <= BootInbox /\ BootMailInv'
    BY <1>1, MailStays, MailShrinks
  <1>3. BootTypesInv'
    BY <1>0, <1>2, BootConstants DEF BootTypesInv
  <1>4. BootWorkInv'
    BY <1>0, BootConstants DEF BootWorkInv
  <1>5. ProgressTrue'
    BY BootConstants DEF ProgressTrue
  <1> QED
    BY <1>2, <1>3, <1>4, <1>5 DEF BootInv

\* A message that changes nothing.
LEMMA IgnoredKeeps ==
    ASSUME BootInv, mail # <<>>, mail' = Tail(mail),
           UNCHANGED <<desired, bootWork, shownBoot, attempts, retry, bootTask, nextWork, stored, bootFaults>>
    PROVE  BootInv'
  <1>1. \A msg \in Mails : Expected(msg) => Expected(msg)'
    BY DEF Expected, OwnsBootstrap
  <1>2. mail' \in Seq(Mails) /\ Len(mail') <= BootInbox /\ BootMailInv'
    BY <1>1, MailShrinks
  <1>3. BootTypesInv'
    BY <1>2 DEF BootInv, BootTypesInv
  <1>4. BootWorkInv' /\ ProgressTrue'
    BY DEF BootInv, BootWorkInv, ProgressTrue
  <1> QED
    BY <1>2, <1>3, <1>4 DEF BootInv

\* The message that is taken from the inbox.
LEMMA HeadFacts ==
    ASSUME BootInv, mail # <<>>
    PROVE  Head(mail) \in Mails /\ Expected(Head(mail))
  <1>1. mail \in Seq(Mails) /\ BootMailInv
    BY DEF BootInv, BootTypesInv
  <1>2. PICK e : e \in Mails
    <2>1. [kind |-> "other", id |-> 0, gen |-> 0, step |-> 0] \in Mails
      BY BootBounds DEF Mails
    <2> QED  BY <2>1
  <1>3. Head(mail) \in Mails /\ Head(mail) = mail[1] /\ 1 \in 1 .. Len(mail)
    BY <1>1, <1>2, QueueFacts
  <1> QED
    BY <1>1, <1>3 DEF BootMailInv

LEMMA DelayFacts ==
    ASSUME NEW count \in Nat
    PROVE  BootstrapRetryDelay(count) \in 0 .. RetryMaxDelay
  <1> DEFINE n == Least(IF count = 0 THEN 0 ELSE count - 1, 8)
  <1>1. n \in 0 .. 8
    BY DEF Least
  <1> HIDE DEF n
  <1> DEFINE d == RetryDelay * 2^n
  <1>2. d \in Nat
    BY <1>1, BootAssumption
  <1> HIDE DEF d
  <1>3. Least(d, RetryMaxDelay) \in 0 .. RetryMaxDelay
    BY <1>2, BootBounds DEF Least
  <1> QED
    BY <1>3 DEF BootstrapRetryDelay, d, n

\* An event that is shown is about the work that is held.
LEMMA ShowsKeeps ==
    ASSUME BootInv, mail # <<>>, mail' = Tail(mail), NEW msg \in Mails, Expected(msg), ShowsEvent(msg),
           msg.kind \in {"Started", "StepStarted", "StepFinished", "StepFailed"}, ApplyBootstrapEvent(msg),
           UNCHANGED <<desired, bootWork, retry, bootTask, nextWork, stored, bootFaults>>
    PROVE  BootInv'
  <1>0. /\ BootTypesInv /\ BootWorkInv /\ UNCHANGED attempts /\ shownBoot \in ShownBoots
        /\ attempts.failures \in Nat /\ 0 \in 0 .. Steps
    <2>1. BootTypesInv /\ BootWorkInv /\ shownBoot \in ShownBoots
      BY DEF BootInv, BootTypesInv
    <2>2. UNCHANGED attempts
      BY DEF ApplyBootstrapEvent
    <2>3. attempts.failures \in Nat /\ 0 \in 0 .. Steps
      BY <2>1, BootFields, BootBounds
    <2> QED  BY <2>1, <2>2, <2>3
  <1>1. bootWork.kind = "Bootstrapping" /\ bootWork.id = msg.id
    BY DEF ShowsEvent, OwnsBootstrap
  <1>2. bootWork # NoWork
    BY <1>1, BootConstants
  <1>3. msg.id = bootTask.id => msg.step <= bootTask.step
    BY DEF Expected
  <1>4. /\ shownBoot' \in ShownBoots /\ shownBoot'.phase \in {"none", "Running", "Failed"}
        /\ shownBoot'.step \in {0, msg.step}
        /\ shownBoot'.phase = "Failed" => shownBoot'.count = attempts.failures + 1
    <2>1. CASE msg.kind \in {"Started", "StepStarted"}
      <3>1. shownBoot' = [phase |-> "Running", step |-> msg.step, count |-> 0] /\ msg.step \in 0 .. Steps
        BY <2>1 DEF ApplyBootstrapEvent, Mails
      <3> QED  BY <3>1 DEF ShownBoots
    <2>2. CASE msg.kind = "StepFinished"
      <3>1. shownBoot' = IF shownBoot = NoBoot THEN NoBoot ELSE [shownBoot EXCEPT !.step = 0]
        BY <2>2 DEF ApplyBootstrapEvent
      <3>2. shownBoot.phase \in {"none", "Running", "Failed"}
            /\ (shownBoot.phase = "Failed" => shownBoot.count = attempts.failures + 1)
        BY <1>0, <1>2, BootFields DEF BootInv, ProgressTrue
      <3> QED  BY <1>0, <3>1, <3>2, BootConstants DEF ShownBoots
    <2>3. CASE msg.kind = "StepFailed"
      <3> DEFINE n == attempts.failures + 1
      <3>1. shownBoot' = [phase |-> "Failed", step |-> 0, count |-> n] /\ n \in Nat
        BY <1>0, <2>3 DEF ApplyBootstrapEvent
      <3> HIDE DEF n
      <3>2. shownBoot' \in ShownBoots /\ shownBoot'.phase = "Failed" /\ shownBoot'.step = 0 /\ shownBoot'.count = n
        BY <1>0, <3>1 DEF ShownBoots
      <3> QED  BY <3>2 DEF n
    <2> QED  BY <2>1, <2>2, <2>3
  <1>5. \A other \in Mails : Expected(other) => Expected(other)'
    BY <1>0 DEF Expected, OwnsBootstrap
  <1>6. mail' \in Seq(Mails) /\ Len(mail') <= BootInbox /\ BootMailInv'
    BY <1>5, MailShrinks
  <1>7. BootTypesInv'
    BY <1>0, <1>4, <1>6 DEF BootTypesInv
  <1>8. BootWorkInv'
    BY <1>0 DEF BootWorkInv
  <1>9. ProgressTrue'
    BY <1>0, <1>1, <1>3, <1>4 DEF ProgressTrue
  <1>10. bootFaults'.failedGen <= desired'
    BY DEF BootInv
  <1> QED
    BY <1>6, <1>7, <1>8, <1>9, <1>10 DEF BootInv

\* A verdict about the work that is held comes when its task is gone.
LEMMA FinishKeeps ==
    ASSUME BootInv, mail # <<>>, mail' = Tail(mail), NEW msg \in Mails, Expected(msg), OwnsBootstrap(msg),
           msg.kind \in Verdicts, FinishStale \/ FinishPassed \/ (msg.kind = "Failed" /\ FinishFailed),
           UNCHANGED <<desired, bootTask, nextWork, stored>>
    PROVE  BootInv'
  <1>0. /\ BootTypesInv /\ BootWorkInv /\ attempts \in Attempts /\ bootFaults \in BootFaultSet
        /\ bootFaults.failedGen <= desired /\ attempts.failures \in Nat /\ desired \in Nat
        /\ 0 \in 0 .. Steps /\ 0 \in 0 .. MaxFailures /\ 0 \in 0 .. RetryMaxDelay
    BY BootFields, BootBounds DEF BootInv, BootTypesInv
  <1>1. bootTask = NoTask
    <2>1. bootWork.id = msg.id /\ msg.id # bootTask.id
      BY DEF OwnsBootstrap, Expected, Verdicts
    <2> QED  BY <1>0, <2>1 DEF BootWorkInv
  <1>2. CASE FinishStale
    BY <1>0, <1>1, <1>2, ClearKeeps, BootConstants DEF FinishStale, Clear
  <1>3. CASE FinishPassed
    <2>1. attempts' = [failures |-> 0, wait |-> 0, ready |-> TRUE]
      BY <1>3 DEF FinishPassed
    <2>2. attempts' \in Attempts
      BY <1>0, <2>1 DEF Attempts
    <2> QED  BY <1>0, <1>1, <1>3, <2>2, ClearKeeps, BootConstants DEF FinishPassed, Clear
  <1>4. CASE msg.kind = "Failed" /\ FinishFailed
    <2> DEFINE count == attempts.failures + 1
               delay == BootstrapRetryDelay(count)
    <2>1. /\ attempts' = [failures |-> count, wait |-> delay, ready |-> FALSE] /\ retry' = delay
          /\ shownBoot' = [phase |-> "BackingOff", step |-> 0, count |-> count] /\ bootWork' = NoWork
          /\ bootFaults' = [bootFaults EXCEPT !.failedGen = desired]
      BY <1>4 DEF FinishFailed
    <2>2. count \in 0 .. MaxFailures /\ count \in Nat
      BY <1>0, <1>4, BootBounds DEF Expected
    <2>3. delay \in 0 .. RetryMaxDelay
      BY <2>2, DelayFacts
    <2> HIDE DEF count, delay
    <2>4. attempts' \in Attempts /\ attempts'.failures = count
      BY <2>1, <2>2, <2>3 DEF Attempts
    <2>5. shownBoot' \in ShownBoots /\ shownBoot'.phase = "BackingOff" /\ shownBoot'.step = 0 /\ shownBoot'.count = count
      BY <1>0, <2>1, <2>2 DEF ShownBoots
    <2>6. bootFaults' \in BootFaultSet /\ bootFaults'.failedGen = desired
      BY <1>0, <2>1 DEF BootFaultSet
    <2>7. retry' \in 0 .. None /\ retry' # None
      BY <2>1, <2>3, BootConstants
    <2>8. bootFaults'.failedGen <= desired
      BY <1>0, <2>6
    <2> QED  BY <1>1, <2>1, <2>4, <2>5, <2>6, <2>7, <2>8, ClearKeeps
  <1> QED
    BY <1>2, <1>3, <1>4

LEMMA HandleMailKeeps ==
    ASSUME BootInv, HandleMail
    PROVE  BootInv'
  <1> PICK msg : msg = Head(mail)
    OBVIOUS
  <1>1. /\ mail # <<>> /\ mail' = Tail(mail) /\ UNCHANGED <<desired, bootTask, nextWork, stored>>
    BY DEF HandleMail
  <1>2. msg \in Mails /\ Expected(msg)
    BY <1>1, HeadFacts
  <1>3. \/ UNCHANGED <<bootWork, shownBoot, attempts, retry, bootFaults>>
        \/ /\ msg.kind \in {"Started", "StepStarted", "StepFinished", "StepFailed"}
           /\ ShowsEvent(msg) /\ ApplyBootstrapEvent(msg) /\ UNCHANGED <<bootWork, retry, bootFaults>>
        \/ /\ msg.kind \in Verdicts /\ OwnsBootstrap(msg)
           /\ FinishStale \/ FinishPassed \/ (msg.kind = "Failed" /\ FinishFailed)
    BY DEF HandleMail, Verdicts
  <1> QED
    BY <1>1, <1>2, <1>3, IgnoredKeeps, ShowsKeeps, FinishKeeps

LEMMA OtherWorkEndsKeeps ==
    ASSUME BootInv, OtherWorkEnds
    PROVE  BootInv'
  <1>0. /\ BootTypesInv /\ BootWorkInv /\ attempts \in Attempts /\ bootFaults \in BootFaultSet
        /\ bootFaults.failedGen <= desired /\ retry \in 0 .. None
    BY DEF BootInv, BootTypesInv
  <1>1. bootTask = NoTask
    BY <1>0 DEF BootWorkInv, OtherWorkEnds
  <1> QED
    BY <1>0, <1>1, ClearKeeps DEF OtherWorkEnds, Clear

LEMMA TickKeeps ==
    ASSUME BootInv, Tick
    PROVE  BootInv'
  <1>0. BootTypesInv /\ BootWorkInv /\ attempts \in Attempts /\ stored \in Attempts
    BY DEF BootInv, BootTypesInv
  <1>1. /\ retry \in 1 .. RetryMaxDelay /\ retry' = retry - 1
        /\ attempts' = [attempts EXCEPT !.wait = Sooner(attempts.wait)]
        /\ stored' = [stored EXCEPT !.wait = Sooner(stored.wait)]
        /\ UNCHANGED <<desired, bootWork, shownBoot, bootTask, mail, nextWork, bootFaults>>
    BY DEF Tick
  <1>2. Sooner(attempts.wait) \in 0 .. RetryMaxDelay /\ Sooner(stored.wait) \in 0 .. RetryMaxDelay
    BY <1>0, BootBounds, BootFields DEF Sooner
  <1>3. attempts' \in Attempts /\ attempts'.failures = attempts.failures /\ stored' \in Attempts
    BY <1>0, <1>1, <1>2 DEF Attempts
  <1>4. retry' \in 0 .. None /\ retry' # None
    BY <1>1, BootConstants
  <1>5. \A msg \in Mails : Expected(msg) => Expected(msg)'
    BY <1>1, <1>3 DEF Expected, OwnsBootstrap
  <1>6. mail' \in Seq(Mails) /\ Len(mail') <= BootInbox /\ BootMailInv'
    BY <1>1, <1>5, MailStays
  <1>7. BootTypesInv' /\ BootWorkInv'
    BY <1>0, <1>1, <1>3, <1>4, <1>6 DEF BootTypesInv, BootWorkInv
  <1>8. ProgressTrue' /\ bootFaults'.failedGen <= desired'
    BY <1>1, <1>3, <1>4 DEF BootInv, ProgressTrue
  <1> QED
    BY <1>6, <1>7, <1>8 DEF BootInv

LEMMA SaveStatusKeeps ==
    ASSUME BootInv, SaveStatus
    PROVE  BootInv'
  <1>1. stored' = attempts /\ UNCHANGED <<desired, bootWork, shownBoot, attempts, retry, bootTask, mail, nextWork, bootFaults>>
    BY DEF SaveStatus
  <1>2. \A msg \in Mails : Expected(msg) => Expected(msg)'
    BY <1>1 DEF Expected, OwnsBootstrap
  <1>3. mail' \in Seq(Mails) /\ Len(mail') <= BootInbox /\ BootMailInv'
    BY <1>1, <1>2, MailStays
  <1>4. BootTypesInv' /\ BootWorkInv'
    BY <1>1, <1>3 DEF BootInv, BootTypesInv, BootWorkInv
  <1>5. ProgressTrue' /\ bootFaults'.failedGen <= desired'
    BY <1>1 DEF BootInv, ProgressTrue
  <1> QED
    BY <1>3, <1>4, <1>5 DEF BootInv

LEMMA CrashAndLoadKeeps ==
    ASSUME BootInv, CrashAndLoad
    PROVE  BootInv'
  <1>0. /\ BootTypesInv /\ stored \in Attempts /\ bootFaults \in BootFaultSet /\ bootFaults.failedGen <= desired
        /\ bootFaults.crashes \in Nat
    BY BootFields DEF BootInv, BootTypesInv
  <1> DEFINE doc == [stored EXCEPT !.ready = FALSE]
             crashed == bootFaults.crashes + 1
  <1>1. /\ attempts' = doc /\ retry' = BootstrapRetryDeadline(doc) /\ bootWork' = NoWork /\ shownBoot' = NoBoot
        /\ bootTask' = NoTask /\ mail' = <<>> /\ nextWork' = 1 /\ UNCHANGED <<desired, stored>>
        /\ bootFaults' = [bootFaults EXCEPT !.crashes = crashed]
    BY DEF CrashAndLoad, Clear
  <1>2. doc \in Attempts /\ crashed \in Nat
    <2>1. doc \in Attempts
      BY <1>0 DEF Attempts
    <2>2. crashed \in Nat
      BY <1>0
    <2> QED  BY <2>1, <2>2
  <1> HIDE DEF doc, crashed
  <1>3. retry' \in 0 .. None
    <2>1. doc.wait \in 0 .. RetryMaxDelay
      BY <1>2 DEF Attempts
    <2> QED  BY <1>1, <2>1, BootConstants DEF BootstrapRetryDeadline
  <1>4. bootFaults' \in BootFaultSet /\ bootFaults'.failedGen = bootFaults.failedGen
    BY <1>0, <1>1, <1>2 DEF BootFaultSet
  <1>5. mail' \in Seq(Mails) /\ Len(mail') = 0
    BY <1>1, EmptySeq
  <1>6. BootTypesInv'
    BY <1>0, <1>1, <1>2, <1>3, <1>4, <1>5, BootConstants, BootBounds DEF BootTypesInv
  <1>7. BootWorkInv'
    BY <1>1, BootConstants DEF BootWorkInv
  <1>8. BootMailInv'
    BY <1>5 DEF BootMailInv
  <1>9. ProgressTrue' /\ bootFaults'.failedGen <= desired'
    BY <1>0, <1>1, <1>4, BootConstants DEF ProgressTrue
  <1> QED
    BY <1>6, <1>7, <1>8, <1>9 DEF BootInv

LEMMA BootInitHolds ==
    ASSUME BootInit
    PROVE  BootInv
  <1>1. mail \in Seq(Mails) /\ Len(mail) = 0
    BY EmptySeq DEF BootInit
  <1>2. /\ desired = 1 /\ bootWork = NoWork /\ shownBoot = NoBoot /\ attempts = Fresh /\ retry = None
        /\ bootTask = NoTask /\ nextWork = 1 /\ stored = Fresh
    BY DEF BootInit
  <1>3. bootFaults \in BootFaultSet /\ bootFaults.failedGen = 0
    BY DEF BootInit, BootFaultSet
  <1>4. BootTypesInv
    BY <1>1, <1>2, <1>3, BootConstants, BootBounds DEF BootTypesInv
  <1>5. BootWorkInv /\ ProgressTrue
    BY <1>2, BootConstants DEF BootWorkInv, ProgressTrue
  <1>6. BootMailInv
    BY <1>1 DEF BootMailInv
  <1> QED
    BY <1>2, <1>3, <1>4, <1>5, <1>6 DEF BootInv

LEMMA BootStutters ==
    ASSUME BootInv, UNCHANGED bootVars
    PROVE  BootInv'
  BY DEF BootInv, BootTypesInv, BootWorkInv, BootMailInv, Expected, OwnsBootstrap, ProgressTrue, bootVars

LEMMA BootStep ==
    ASSUME BootInv, [BootNext]_bootVars
    PROVE  BootInv'
  <1>1. CASE ReconcileBootstrap
    BY <1>1, AdmitKeeps, BootConstants DEF ReconcileBootstrap, BootstrapRetryWake
  <1>2. CASE OtherWork
    <2>1. retry' \in 0 .. None
      BY <1>2 DEF OtherWork, BootInv, BootTypesInv
    <2> QED  BY <1>2, <2>1, AdmitKeeps DEF OtherWork
  <1> QED
    BY <1>1, <1>2, NewGenerationKeeps, TaskReportsKeeps, TaskEndsKeeps, OtherMailKeeps, HandleMailKeeps,
       OtherWorkEndsKeeps, TickKeeps, SaveStatusKeeps, CrashAndLoadKeeps, BootStutters DEF BootNext

\* The task, its messages and the work that is held stay together in every execution.
THEOREM BootInvariant == BootSpec => []BootInv
  <1>1. BootInit => BootInv
    BY BootInitHolds
  <1>2. BootInv /\ [BootNext]_bootVars => BootInv'
    BY BootStep
  <1> QED
    BY <1>1, <1>2, PTL DEF BootSpec

\* The bootstrap's state keeps its types: the inbox its capacity and every recorded wait
\* the longest delay, however often the doubling is repeated.
THEOREM BootTypes == BootSpec => []BootTypeOK
  <1>1. BootInv => BootTypeOK
    BY BootFields DEF BootInv, BootTypesInv, BootTypeOK
  <1> QED
    BY <1>1, BootInvariant, PTL

\* handle_bootstrap_completion and apply_bootstrap_event: what the status shows of a
\* bootstrap is the progress of the attempt under way, whatever events are dropped or late.
THEOREM ProgressIsTrue == BootSpec => []ProgressTrue
  <1>1. BootInv => ProgressTrue
    BY DEF BootInv
  <1> QED
    BY <1>1, BootInvariant, PTL
=============================================================================
