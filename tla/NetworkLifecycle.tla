-------------------------- MODULE NetworkLifecycle --------------------------
(***************************************************************************)
(* What an instance network promises about the states it reports           *)
(* (InstanceNetworkState, agentdp-network/src/network.rs).  Each guest     *)
(* session is a new generation; a network that has ended stays ended.      *)
(***************************************************************************)
EXTENDS Naturals

CONSTANT MaxGeneration  \* bound: guest sessions in a behaviour

VARIABLES state, generation

lifecycleVars == <<state, generation>>

NetworkStates == {"starting", "connecting", "connected", "traffic-observed", "backoff",
                  "stopping", "stopped", "failed"}
Terminal == {"stopped", "failed"}

LifecycleInit == state = "starting" /\ generation = 0

BeginConnecting ==
    /\ state \in {"starting", "backoff"}
    /\ state' = "connecting" /\ UNCHANGED generation
Connect ==
    /\ state \in {"connecting", "backoff"} /\ generation < MaxGeneration
    /\ state' = "connected" /\ generation' = generation + 1
ObserveTraffic ==
    /\ state = "connected"
    /\ state' = "traffic-observed" /\ UNCHANGED generation
BackOff ==
    /\ state \in {"connecting", "connected", "traffic-observed", "backoff"}
    /\ state' = "backoff" /\ UNCHANGED generation
BeginStopping ==
    /\ state \notin Terminal \cup {"stopping"}
    /\ state' = "stopping" /\ UNCHANGED generation
Stop ==
    /\ state = "stopping"
    /\ state' = "stopped" /\ UNCHANGED generation
Fail ==
    /\ state \in {"starting", "backoff"}
    /\ state' = "failed" /\ UNCHANGED generation

LifecycleNext ==
    \/ BeginConnecting \/ Connect \/ ObserveTraffic \/ BackOff
    \/ BeginStopping \/ Stop \/ Fail

LifecycleSpec == LifecycleInit /\ [][LifecycleNext]_lifecycleVars
=============================================================================
