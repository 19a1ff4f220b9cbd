---------------------------- MODULE AgentDocument ----------------------------
(***************************************************************************)
(* core/agentdp-core/src/agent/document.rs: the desired and observed state *)
(* of one agent, and agentdp-server/src/agent/wait.rs: what a client that  *)
(* waits on a generation is told.                                          *)
(*                                                                         *)
(* A template stands for the AgentSpec of a manifest.  The key of an agent *)
(* base is a digest of what the base is built from, so the template itself *)
(* serves as the key.                                                      *)
(***************************************************************************)
EXTENDS Integers

CONSTANTS
    Templates,       \* the AgentSpec values manifests may carry
    AuthBindings,    \* the mediated auth bindings each template asks for
    Manifests,       \* the manifests clients apply
    MaxReplicas      \* bound: the largest replica count

None == "none"

ASSUME TemplatesAssumption == Templates # {} /\ None \notin Templates
ASSUME ReplicasAssumption == MaxReplicas \in Nat \ {0}

Ids == 0 .. MaxReplicas - 1

Keys == Templates \cup {None}    \* Option<AgentBaseKey>

ASSUME ManifestsAssumption ==
    Manifests \subseteq [tmpl : Templates, replicas : 0 .. MaxReplicas, paused : BOOLEAN]

Phases == {"Materialized", "Running", "Stopped", "Deleting", "Deleted", "Failed"}

InstanceStatuses ==
    [mbase : Keys, mtmpl : Keys,             \* materialized base and template
     phase : Phases,
     recon : {"none", "ok", "stale"},        \* reconciliation
     ready : BOOLEAN,                        \* readiness
     hostReady : Nat,                        \* generation host inputs are Ready for, or 0
     expired : BOOLEAN,                      \* some credential is Expired
     observed : Nat,
     pid : BOOLEAN,                          \* backend records a QEMU pid
     busy : BOOLEAN,                         \* work shows a transition or bootstrap
     sessions : {0, 1}]                      \* work.sessions.active

AgentDocs ==
    [gen : Nat, del : BOOLEAN,                                  \* metadata
     tmpl : Templates, replicas : Nat, paused : BOOLEAN,        \* spec
     baseDesired : Keys, baseReady : Keys,                      \* status.agent_base
     basePhase : {"Missing", "Building", "Ready", "Failed"},
     observed : Nat, deleted : BOOLEAN, reconciling : BOOLEAN,  \* status
     active : Nat, ready : Nat,                                 \* status.replicas
     instances : [Ids -> SUBSET InstanceStatuses]]              \* an option for each id

FromManifest(m) ==
    [gen |-> 1, del |-> FALSE,
     tmpl |-> m.tmpl, replicas |-> m.replicas, paused |-> m.paused,
     baseDesired |-> None, baseReady |-> None, basePhase |-> "Missing",
     observed |-> 0, deleted |-> FALSE, reconciling |-> TRUE,
     active |-> 0, ready |-> 0, instances |-> [i \in Ids |-> {}]]

DesiredState(d) ==
    [del |-> d.del, tmpl |-> d.tmpl, replicas |-> d.replicas, paused |-> d.paused]

RefreshStatusProjection(d, deleted) ==
    [d EXCEPT !.deleted = deleted, !.reconciling = d.observed # d.gen]

\* The agent base survives an update that keeps the template.
FromManifestAfterExisting(m, d) ==
    LET new == FromManifest(m)
        keep == d.tmpl = m.tmpl
    IN  IF DesiredState(new) = DesiredState(d)
        THEN d
        ELSE RefreshStatusProjection(
               [new EXCEPT !.gen = d.gen + 1,
                           !.observed = d.observed,
                           !.active = d.active,
                           !.ready = d.ready,
                           !.instances = d.instances,
                           !.baseDesired = IF keep THEN d.baseDesired ELSE None,
                           !.baseReady   = IF keep THEN d.baseReady ELSE None,
                           !.basePhase   = IF keep THEN d.basePhase ELSE "Missing"],
               FALSE)

MarkDeletionRequested(d) ==
    IF d.del THEN d ELSE [d EXCEPT !.del = TRUE, !.gen = @ + 1]

\* Mutant: scaling forgets to start a new generation.
SetReplicasInPlace(d, n) == [d EXCEPT !.replicas = n]

SetReplicas(d, n) ==
    IF d.replicas = n THEN d ELSE [d EXCEPT !.replicas = n, !.gen = @ + 1]

MarkBaseDesired(d, key) ==
    IF d.baseDesired = key /\ d.basePhase = "Building"
    THEN d
    ELSE [d EXCEPT !.baseDesired = key, !.baseReady = None, !.basePhase = "Building"]

MarkBaseReady(d, key) ==
    [d EXCEPT !.baseDesired = key, !.baseReady = key, !.basePhase = "Ready"]

MarkBaseFailed(d) == [d EXCEPT !.basePhase = "Failed"]

Inactive(d) == d.paused \/ d.replicas = 0

-----------------------------------------------------------------------------
(* wait.rs: the answer to a client that waits on generation gen. *)

Satisfied(d, gen, condition) ==
    \/ condition = "Accepted"
    \/ condition = "Observed" /\ d.observed = gen
    \/ condition = "Ready"    /\ d.observed = gen /\ d.ready = d.replicas /\ ~d.reconciling
    \/ condition = "Paused"   /\ d.observed = gen /\ d.paused /\ ~d.del /\ d.active = 0 /\ ~d.reconciling
    \/ condition = "Stopped"  /\ d.observed = gen /\ d.active = 0 /\ ~d.reconciling
    \/ condition = "Deleted"  /\ d.observed = gen /\ d.deleted

BaseFailureBlocks(d, condition) ==
    /\ d.basePhase = "Failed"
    /\ \/ condition = "Ready"
       \/ condition = "Observed" /\ ~d.paused /\ ~d.del /\ d.replicas > 0

InstanceFailed(d, gen) ==
    \E i \in Ids : \E s \in d.instances[i] : s.observed = gen /\ s.phase = "Failed"

WaitStatus(d, gen, condition) ==
    IF d.gen > gen THEN "Superseded"
    ELSE IF d.gen < gen THEN "Pending"
    ELSE IF Satisfied(d, gen, condition) THEN "Satisfied"
    ELSE IF d.deleted THEN "Deleted"
    ELSE IF BaseFailureBlocks(d, condition) \/ InstanceFailed(d, gen) THEN "Failed"
    ELSE "Pending"
=============================================================================
