------------------------------- MODULE MCHost -------------------------------
(***************************************************************************)
(* The frame ring between the server's threads and the other components on *)
(* the host and in the guest, each on a small instance. A behaviour is one *)
(* of its subject component, chosen in the initial state. The ring, which  *)
(* has proofs, is extended and has its own variables; the others are       *)
(* instantiated, and v1, v2, ... hold the subject's variables. So the      *)
(* states of the suite are the sum of the components' states and not their *)
(* product.                                                                *)
(***************************************************************************)
EXTENDS Ring

VARIABLES
    subject,   \* the component of this behaviour
    v1, v2, v3, v4, v5, v6, v7, v8, v9, v10, v11   \* the variables of the subject

\* Two system steps that exclude each other and a user step that needs one of them; a retry, a
\* restart of the guest and a broken channel.
Gb == INSTANCE GuestBootstrap WITH
        Steps <- {"a", "b", "u"}, DependsOn <- [a |-> {}, b |-> {}, u |-> {"a"}],
        UserSteps <- {"u"}, Resources <- [a |-> {"r"}, b |-> {"r"}, u |-> {}], MaxParallel <- 2,
        MaxEpoch <- 1, MaxRestarts <- 1, MaxBreaks <- 1, Window <- 2,
        record <- v1, guest <- v2, toHost <- v3, toGuest <- v4, connected <- v5, session <- v6,
        call <- v7, outcome <- v8, faults <- v9

\* Every pair of plugins; port ranges that overlap and that pass the last port.
Mp == INSTANCE ManifestPlan WITH
        MaxPlugins <- 2, MaxPort <- 4, MaxReplicas <- 2,
        manifest <- v1, stage <- v2, plan <- v3, ports <- v4

\* Two clients that start, upgrade and stop three servers, one of which may crash.
Sp == INSTANCE ServerProcess WITH
        Servers <- {"p1", "p2", "p3"}, Clients <- {"c1", "c2"}, MaxServerFaults <- 1,
        lock <- v1, socket <- v2, binary <- v3, sv <- v4, cl <- v5, overlap <- v6,
        svFaults <- v7

\* Two connections and queues of one, so that the second message finds each queue full; the
\* agent is created again once.
Rq == INSTANCE Requests WITH
        Conns <- {"a", "b"}, MaxVersion <- 3, MaxAgents <- 2, InboxCapacity <- 1,
        StreamCapacity <- 1, EventCapacity <- 1, MaxChunks <- 1, MaxPersistFaults <- 1,
        cn <- v1, rq <- v2, reg <- v3, ag <- v4, inbox <- v5, disk <- v6, reqFaults <- v7

\* Two logs of three events; a chunk shorter than a line.
El == INSTANCE EventLog WITH
        Logs <- {1, 2}, WriteCapacity <- 2, MaxSequence <- 3, ChunkTokens <- 2,
        file <- v1, logServer <- v2, counter <- v3, records <- v4, writing <- v5, repairs <- v6,
        logFailed <- v7

\* Three steps of the thread reach traffic and emit more events than the agent's channel holds.
Ns == INSTANCE NetworkStatus WITH
        HostPorts <- {1}, MaxSteps <- 3, EventRing <- 4, EventChannel <- 3,
        startup <- v1, thread <- v2, ring <- v3, observed <- v4, held <- v5, toAgent <- v6,
        shown <- v7, waiter <- v8

\* Two variables, of which one is assigned twice, none or both are there, and a token; a start
\* and two more tasks that overlap.
Ms == INSTANCE MediatedSecrets WITH
        EnvNames <- {"A", "B"}, Token <- "T", MaxLines <- 2, MaxPlaceholders <- 9,
        MaxTasks <- 3, MaxEdits <- 1, MaxGens <- 1, MaxSecretFaults <- 1,
        hostEnv <- v1, hostAuth <- v2, machine <- v3, guestEnv <- v4, guestFile <- v5,
        stored <- v6, saved <- v7, net <- v8, secretFile <- v9, secretTask <- v10,
        secretLog <- v11

registers == <<v1, v2, v3, v4, v5, v6, v7, v8, v9, v10, v11>>
extended == <<ringVars>>
suiteVars == <<subject, registers, extended>>

\* The extended components that are not the subject rest in one initial state.
Rest ==
    /\ RingInit /\ (subject # "ring" => ~producer.buffered /\ ringSlots[0] = CHOOSE v \in RingValues : TRUE)

Blank == v1 = 0 /\ v2 = 0 /\ v3 = 0 /\ v4 = 0 /\ v5 = 0 /\ v6 = 0 /\ v7 = 0 /\ v8 = 0
         /\ v9 = 0 /\ v10 = 0 /\ v11 = 0

SuiteInit ==
    \/ subject = "ring" /\ Rest /\ Blank
    \/ subject = "guest" /\ Rest /\ Gb!GuestInit /\ v10 = 0 /\ v11 = 0
    \/ subject = "manifest" /\ Rest /\ Mp!PlanInit /\ v5 = 0 /\ v6 = 0 /\ v7 = 0 /\ v8 = 0
       /\ v9 = 0 /\ v10 = 0 /\ v11 = 0
    \/ subject = "process" /\ Rest /\ Sp!ProcInit /\ v8 = 0 /\ v9 = 0 /\ v10 = 0 /\ v11 = 0
    \/ subject = "requests" /\ Rest /\ Rq!ReqInit /\ v8 = 0 /\ v9 = 0 /\ v10 = 0 /\ v11 = 0
    \/ subject = "log" /\ Rest /\ El!LogInit /\ v8 = 0 /\ v9 = 0 /\ v10 = 0 /\ v11 = 0
    \/ subject = "status" /\ Rest /\ Ns!NetStatusInit /\ v9 = 0 /\ v10 = 0 /\ v11 = 0
    \/ subject = "secrets" /\ Rest /\ Ms!SecretInit

RingStep == subject = "ring" /\ RingNext /\ UNCHANGED <<subject, registers>>
GuestBootstrapStep == subject = "guest" /\ Gb!GuestNext
                      /\ UNCHANGED <<subject, extended, v10, v11>>
ManifestPlanStep == subject = "manifest" /\ Mp!PlanNext
                    /\ UNCHANGED <<subject, extended, v5, v6, v7, v8, v9, v10, v11>>
ServerProcessStep == subject = "process" /\ Sp!ProcNext
                     /\ UNCHANGED <<subject, extended, v8, v9, v10, v11>>
RequestsStep == subject = "requests" /\ Rq!ReqNext
                /\ UNCHANGED <<subject, extended, v8, v9, v10, v11>>
EventLogStep == subject = "log" /\ El!LogNext
                /\ UNCHANGED <<subject, extended, v8, v9, v10, v11>>
NetworkStatusStep == subject = "status" /\ Ns!NetStatusNext
                     /\ UNCHANGED <<subject, extended, v9, v10, v11>>
MediatedSecretsStep == subject = "secrets" /\ Ms!SecretNext /\ UNCHANGED <<subject, extended>>

SuiteNext ==
    \/ RingStep \/ GuestBootstrapStep \/ ManifestPlanStep \/ ServerProcessStep
    \/ RequestsStep \/ EventLogStep \/ NetworkStatusStep \/ MediatedSecretsStep

SuiteSpec == SuiteInit /\ [][SuiteNext]_suiteVars
-----------------------------------------------------------------------------
\* Every component keeps its variables in their types and its queues within their capacities.
HostTypeOK ==
    /\ subject = "ring" => RingTypeOK
    /\ subject = "guest" => Gb!GuestTypeOK
    /\ subject = "manifest" => Mp!PlanTypeOK
    /\ subject = "process" => Sp!ProcTypeOK
    /\ subject = "requests" => Rq!ReqTypeOK
    /\ subject = "log" => El!LogTypeOK
    /\ subject = "status" => Ns!NetStatusTypeOK
    /\ subject = "secrets" => Ms!SecretTypeOK

\* What the server records and shows of work done elsewhere is true, through full rings,
\* dropped events, restarts and crashes: the state, ports and counters of a network
\* (runtime.rs refresh); the event log, whose whole lines are in order and below the next
\* number also after a torn line was repaired, and whose tail, read from the end in chunks,
\* is the tail of the file (event_log.rs); and the placeholder stored for a secret, which is
\* the one the guest has and the one the network knows, whoever collected the secrets last
\* (seed.rs).
RecordsTrue ==
    /\ subject = "status" => Ns!ShownNetworkHonest
    /\ subject = "log" => El!LogSound /\ El!TailExact
    /\ subject = "secrets" => Ms!PlaceholderKept

\* A bootstrap is reported passed only when every step has passed, failed only for an epoch
\* that failed, and steps run in the order, and with the exclusions, the plan asks for,
\* through restarts of the guest and broken channels (agentdp-guest).
GuestOutcome ==
    /\ subject = "guest" => Gb!OutcomeTrue /\ Gb!StepsInOrder

\* A manifest that was accepted renders to a plan whose steps come after what they need and
\* never edit the same file at the same time, and instances get disjoint, valid host ports
\* (manifest and provisioning).
ManifestSound ==
    /\ subject = "manifest" => Mp!PlanSound /\ Mp!HostPortsDisjoint

\* A server that serves owns the lock and the socket path; a client that waits sees the
\* latest document, nothing it was shown is undone by a restart, and no request is left
\* without somebody who will answer it.
ClientsServed ==
    /\ subject = "process" => Sp!ServerReachable
    /\ subject = "requests" => Rq!WaiterCurrent /\ Rq!ShownIsDurable /\ Rq!NobodyForgotten
=============================================================================
