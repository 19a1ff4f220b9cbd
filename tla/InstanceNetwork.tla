--------------------------- MODULE InstanceNetwork ---------------------------
(***************************************************************************)
(* The network thread of one instance as the agent's control loop sees it  *)
(* (agentdp-server/src/services/instance_network): start, stop, the change *)
(* of secrets, the ring of events the thread fills, and the task that      *)
(* drains it into the observation and into the agent's channel.  A network *)
(* that has ended may be replaced while its drain is still at work, so     *)
(* every start has a record of its own.  What the thread does is module    *)
(* EventLoop; here it emits events and ends.                               *)
(***************************************************************************)
EXTENDS Naturals, SequencesExt

CONSTANTS MaxNetworks, MaxEvents,               \* bounds: networks started, events each emits
          RingCapacity, ChannelCapacity, CommandCapacity

ASSUME InstAssumption ==
    {MaxNetworks, MaxEvents, RingCapacity, ChannelCapacity, CommandCapacity} \subseteq Nat

VARIABLES
    nets,     \* one record per network that was started
    current,  \* runtime_state: the network held, 0 for None
    channel,  \* how many events are in the agent's channel
    stopCall  \* the call of stop: [net, at], or NoStop

instVars == <<nets, current, channel, stopCall>>

NoStop == [net |-> 0, at |-> "idle"]
Terminals == {"Stopped", "Failed"}
Started == [thread |-> "running", commands |-> <<>>, dropped |-> 0, ring |-> <<>>, status |-> "Starting",
            drops |-> 0, missed |-> 0, seen |-> 0, emitted |-> 0, drain |-> TRUE]

InstTypeOK ==
    /\ DOMAIN nets \subseteq 1 .. MaxNetworks /\ current \in 0 .. Len(nets)
    /\ \A n \in DOMAIN nets :
          /\ nets[n].thread \in {"running", "released", "finished"}
          /\ Len(nets[n].ring) <= RingCapacity /\ Len(nets[n].commands) <= CommandCapacity
          /\ nets[n].status \in {"Starting", "Connected"} \cup Terminals
    /\ channel \in 0 .. ChannelCapacity
    /\ stopCall.at \in {"idle", "sending", "joining", "draining"}

InstInit == nets = <<>> /\ current = 0 /\ channel = 0 /\ stopCall = NoStop

\* InstanceNetworkRuntime::is_running.
IsRunning(n) == nets[n].thread # "finished" /\ nets[n].status \notin Terminals
-----------------------------------------------------------------------------

\* existing_network: a network that runs is kept; one that has ended is dropped,
\* and a failure it reported is returned once.
ExistingNetwork == IF current # 0 /\ IsRunning(current) THEN {current} ELSE {}

\* start.  The thread may fail to spawn, or fail before its loop exists: nothing is
\* held then.  Dropping the runtime that has ended stops nothing: its thread has
\* already let go.
Start ==
    LET failed == current # 0 /\ nets[current].status = "Failed"
    IN  /\ stopCall = NoStop /\ ExistingNetwork = {}
        /\ \/ failed /\ current' = 0 /\ UNCHANGED nets
           \/ ~failed /\ Len(nets) < MaxNetworks /\ nets' = Append(nets, Started) /\ current' = Len(nets) + 1
           \/ ~failed /\ current # 0 /\ current' = 0 /\ UNCHANGED nets
        /\ UNCHANGED <<channel, stopCall>>

\* update_secrets: refused when the network has ended, an error when the queue is full.
UpdateSecrets ==
    /\ stopCall = NoStop /\ current # 0 /\ IsRunning(current) /\ Len(nets[current].commands) < CommandCapacity
    /\ nets' = [nets EXCEPT ![current].commands = Append(@, "UpdateSecrets")]
    /\ UNCHANGED <<current, channel, stopCall>>

\* stop takes the runtime at once; a second call returns.
StopNetwork ==
    /\ stopCall = NoStop /\ current # 0
    /\ stopCall' = [net |-> current, at |-> "sending"] /\ current' = 0
    /\ UNCHANGED <<nets, channel>>

\* send_stop: a full queue is tried again until STOP_TIMEOUT.
SendStop ==
    /\ stopCall.at = "sending" /\ stopCall' = [stopCall EXCEPT !.at = "joining"]
    /\ LET n == stopCall.net
       IN  IF nets[n].thread # "running" THEN UNCHANGED nets
           ELSE \/ Len(nets[n].commands) < CommandCapacity /\ nets' = [nets EXCEPT ![n].commands = Append(@, "Stop")]
                \/ Len(nets[n].commands) = CommandCapacity /\ UNCHANGED nets
    /\ UNCHANGED <<current, channel>>

\* join_network_thread: the thread has finished, or the timeout has passed.
JoinThread ==
    /\ stopCall.at = "joining" /\ stopCall' = [stopCall EXCEPT !.at = "draining"]
    /\ UNCHANGED <<nets, current, channel>>

\* Mutant: the output task is not waited for.
StopReturnsEarly == stopCall.at = "draining" /\ stopCall' = NoStop /\ UNCHANGED <<nets, current, channel>>

\* The output task is awaited whatever the join returned.
StopReturns ==
    /\ stopCall.at = "draining" /\ ~nets[stopCall.net].drain
    /\ stopCall' = NoStop
    /\ UNCHANGED <<nets, current, channel>>
-----------------------------------------------------------------------------
\* Mutant: the capacity of the ring is not looked at.
EmitAnyhow(r, kind) ==
    [r EXCEPT !.ring = Append(@, [kind |-> kind, before |-> r.dropped]), !.dropped = 0, !.emitted = @ + 1]

\* NetworkEventProducer::emit: an event that finds the ring full is counted, and
\* the count travels with the next one that does not.
Emit(r, kind) ==
    IF Len(r.ring) < RingCapacity
    THEN [r EXCEPT !.ring = Append(@, [kind |-> kind, before |-> r.dropped]), !.dropped = 0, !.emitted = @ + 1]
    ELSE [r EXCEPT !.dropped = @ + 1, !.emitted = @ + 1]

\* The network thread: it takes commands, emits events, lets go of what it holds
\* and reports why, and ends.
Thread(n) ==
    /\ \/ /\ nets[n].thread = "running" /\ nets[n].commands # <<>> /\ Head(nets[n].commands) = "UpdateSecrets"
          /\ nets' = [nets EXCEPT ![n].commands = Tail(@)]
       \/ /\ nets[n].thread = "running" /\ nets[n].emitted < MaxEvents
          /\ nets' = [nets EXCEPT ![n] = Emit(@, "Connected")]
       \/ /\ nets[n].thread = "running" /\ nets[n].commands # <<>> /\ Head(nets[n].commands) = "Stop"
          /\ nets' = [nets EXCEPT ![n] = [Emit(@, "Stopped") EXCEPT !.thread = "released"]]
       \/ /\ nets[n].thread = "running"
          /\ nets' = [nets EXCEPT ![n] = [Emit(@, "Failed") EXCEPT !.thread = "released"]]
       \/ /\ nets[n].thread = "released"
          /\ nets' = [nets EXCEPT ![n].thread = "finished"]
    /\ UNCHANGED <<current, channel, stopCall>>

\* observe_event, and the count of what the ring and the agent's channel had no room for.
Observe(r) ==
    [r EXCEPT !.ring = Tail(@), !.seen = @ + 1, !.status = IF @ \in Terminals THEN @ ELSE Head(r.ring).kind,
              !.drops = @ + Head(r.ring).before + (IF channel = ChannelCapacity THEN 1 ELSE 0),
              !.missed = @ + (IF channel = ChannelCapacity THEN 1 ELSE 0)]

\* drain_network_outputs.
Drain(n) ==
    /\ nets[n].drain
    /\ \/ /\ nets[n].ring # <<>>
          /\ nets' = [nets EXCEPT ![n] = Observe(@)]
          /\ channel' = IF channel = ChannelCapacity THEN channel ELSE channel + 1
       \/ /\ nets[n].ring = <<>> /\ nets[n].thread = "finished"
          /\ nets' = [nets EXCEPT ![n].drain = FALSE] /\ UNCHANGED channel
    /\ UNCHANGED <<current, stopCall>>

\* refresh_runtime_observations: the agent's control loop drains the channel.
TakeEvents ==
    /\ channel > 0 /\ channel' = 0
    /\ UNCHANGED <<nets, current, stopCall>>

InstNext ==
    \/ Start \/ UpdateSecrets \/ StopNetwork \/ SendStop \/ JoinThread \/ StopReturns \/ TakeEvents
    \/ \E n \in DOMAIN nets : Thread(n) \/ Drain(n)

InstSpec == InstInit /\ [][InstNext]_instVars
-----------------------------------------------------------------------------
\* Two networks never serve the same instance: one that is replaced or was stopped
\* has let go of the guest's transport and of the host ports.
OneNetwork == \A n \in DOMAIN nets : nets[n].thread = "running" => n \in {current, stopCall.net}

\* No event is lost without being counted: what the thread emitted was observed, is
\* in the ring, or is a drop the observation shows or the next event will carry.
BeforeOf(s) == FoldSeq(LAMBDA event, sum : event.before + sum, 0, s)
DropsAccounted ==
    \A n \in DOMAIN nets :
        nets[n].emitted = nets[n].seen + Len(nets[n].ring) + nets[n].dropped
                          + BeforeOf(nets[n].ring) + (nets[n].drops - nets[n].missed)
=============================================================================
