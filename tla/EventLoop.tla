----------------------------- MODULE EventLoop ------------------------------
(***************************************************************************)
(* The thread of one instance network: the connection loop and the two     *)
(* drive phases of a turn (agentdp-network/src/event_loop.rs), with the    *)
(* guest's frame IO (guest.rs) and the timers (timer.rs).  Every item in a *)
(* queue carries the generation of the guest session it was made in.  The  *)
(* budget may stop the work on any queue; components, the guest and time   *)
(* are nondeterministic.  Queues hold one item, the other items behave     *)
(* like it.                                                                *)
(***************************************************************************)
EXTENDS Naturals, Sequences

CONSTANTS
    MaxGeneration,   \* bound: guest sessions in a behaviour
    MaxUpdates       \* bound: UpdateSecrets commands in a behaviour

ASSUME LoopBounds == MaxGeneration \in Nat /\ MaxUpdates \in Nat

VARIABLES
    pc,          \* where the thread is
    target,      \* the timer wait_until_timer_or_stop waits for
    state,       \* status.state
    generation,  \* the guest session's generation
    guest,       \* a guest session is registered
    ports,       \* host ports are bound
    guestEvents, \* component_events.guest: frames and the disconnect
    netEvents,   \* component_events of host ports and UDP egress
    frames,      \* component_outputs.guest_frames
    hostOutputs, \* component_outputs towards host ports and UDP egress
    outbound,    \* GuestIo.outbound
    disconnect,  \* guest_disconnect: the generation it was recorded for
    armed,       \* timers with a deadline
    commands,    \* the command inbox
    secrets,     \* the update the gateway's policy holds
    ingested,    \* history: <<generation of a frame, generation that ingested it>>
    sent         \* history: the updates sent so far

loopVars == <<pc, target, state, generation, guest, ports, guestEvents, netEvents, frames,
              hostOutputs, outbound, disconnect, armed, commands, secrets, ingested, sent>>
queues == <<guestEvents, netEvents, frames, hostOutputs, outbound>>
history == <<ingested, sent>>

Timers == {"ConnectRetry", "Reconnect", "GatewayPoll", "UdpExpiry", "StatusPublish"}
Generations == 1 .. MaxGeneration
NoGeneration == 0
Updates == 0 .. MaxUpdates
StopCommand == 0   \* the other commands are the updates, 1 .. MaxUpdates

QueueOf(S) == {<<>>} \cup {<<x>> : x \in S}

GuestEvents == [kind : {"frame", "disconnected"}, gen : Generations]

Lifecycle == INSTANCE NetworkLifecycle

LoopTypeOK ==
    /\ target \in Timers
    /\ state \in Lifecycle!NetworkStates
    /\ generation \in 0 .. MaxGeneration
    /\ {guest, ports} \subseteq BOOLEAN
    /\ guestEvents \in QueueOf(GuestEvents)
    /\ {netEvents, frames, hostOutputs, outbound} \subseteq QueueOf(Generations)
    /\ disconnect \in 0 .. MaxGeneration
    /\ armed \subseteq Timers
    /\ secrets \in Updates /\ sent \in Updates

LoopInit ==
    /\ pc = "begin" /\ target = "ConnectRetry"
    /\ state = "starting" /\ generation = 0
    /\ guest = FALSE /\ ports = FALSE
    /\ guestEvents = <<>> /\ netEvents = <<>> /\ frames = <<>>
    /\ hostOutputs = <<>> /\ outbound = <<>>
    /\ disconnect = NoGeneration
    /\ armed = {"StatusPublish"}
    /\ commands = <<>>
    /\ secrets = 0 /\ ingested = {} /\ sent = 0

Goto(label) == pc' = label
-----------------------------------------------------------------------------
\* drop_runtime_resources and reset_dataplane: the components are made again from
\* the specification of the network, which still holds the first secrets.  The
\* queues of events and outputs are not touched; GuestIo takes its frames with it.
DropRuntime ==
    /\ guest' = FALSE /\ ports' = FALSE /\ outbound' = <<>>
    /\ disconnect' = NoGeneration
    /\ secrets' = 0

\* refresh_timers: the gateway is always polled again, UDP expiry follows the
\* proxies there are.
RefreshTimers(remaining) ==
    \E udp \in SUBSET {"UdpExpiry"} :
        armed' = (remaining \ {"UdpExpiry"}) \cup {"GatewayPoll"} \cup udp

\* Mutant: the state goes back to starting.
BeginConnectAgain ==
    /\ pc = "begin"
    /\ guest' = FALSE /\ outbound' = <<>> /\ disconnect' = NoGeneration /\ secrets' = 0
    /\ ports' = TRUE /\ state' = "starting" /\ Goto("connect")
    /\ RefreshTimers(armed)
    /\ UNCHANGED <<target, generation, guestEvents, netEvents, frames, hostOutputs, commands, history>>

\* begin_connect: reset_network drops everything and binds the host ports, which
\* may fail and then ends the network.
BeginConnect ==
    /\ pc = "begin"
    /\ guest' = FALSE /\ outbound' = <<>> /\ disconnect' = NoGeneration /\ secrets' = 0
    /\ \/ /\ ports' = TRUE /\ state' = "connecting" /\ Goto("connect")
          /\ RefreshTimers(armed)
       \/ /\ ports' = FALSE /\ state' = "failed" /\ Goto("ended")
          /\ UNCHANGED armed
    /\ UNCHANGED <<target, generation, guestEvents, netEvents, frames, hostOutputs, commands, history>>

WaitFor(timer) == target' = timer /\ armed' = armed \cup {timer} /\ Goto("wait")

\* connect_once: pending, connected, connected but not registered, or failed.
ConnectPending ==
    /\ pc = "connect"
    /\ WaitFor("ConnectRetry")
    /\ UNCHANGED <<state, generation, guest, ports, queues, disconnect, commands, secrets, history>>

ConnectFails ==
    /\ pc \in {"connect", "registerFailed"}
    /\ state' = "backoff"
    /\ WaitFor("Reconnect")
    /\ UNCHANGED <<generation, guest, ports, queues, disconnect, commands, secrets, history>>

ConnectSucceeds ==
    /\ pc = "connect" /\ generation < MaxGeneration
    /\ generation' = generation + 1
    /\ state' = "connected"
    /\ \/ guest' = TRUE /\ Goto("commands")
       \/ guest' = FALSE /\ Goto("registerFailed")
    /\ UNCHANGED <<target, ports, queues, disconnect, armed, commands, secrets, history>>

\* Mutant: only a stop that is the first command counts.
StopsFirst == commands # <<>> /\ commands[1] = StopCommand

\* process_commands: everything up to a stop is handled.  An update of the secrets
\* also retires the proxies of the changed authorities and polls the gateway.
Stops == \E i \in DOMAIN commands : commands[i] = StopCommand
Handled == {i \in DOMAIN commands : commands[i] # StopCommand}

TakeCommands ==
    /\ commands' = <<>>
    /\ \/ Handled = {} /\ UNCHANGED secrets
       \/ \E last \in Handled :
            (\A i \in Handled : i <= last) /\ secrets' = commands[last]

\* wait_until_timer_or_stop: one round.  The timers that are due lose their
\* deadline, and only the status timer gets a new one.
WaitRound ==
    /\ pc = "wait"
    /\ TakeCommands
    /\ IF Stops THEN Goto("end") /\ UNCHANGED <<target, armed>>
       ELSE \E due \in SUBSET armed :
            /\ armed' = (armed \ due) \cup (due \cap {"StatusPublish"})
                        \cup (IF target \in due /\ target = "Reconnect" THEN {"ConnectRetry"} ELSE {})
            /\ IF target \notin due THEN UNCHANGED <<pc, target>>
               ELSE IF target = "Reconnect" THEN target' = "ConnectRetry" /\ UNCHANGED pc
               ELSE Goto("connect") /\ UNCHANGED target
    /\ UNCHANGED <<state, generation, guest, ports, queues, disconnect, ingested, sent>>

\* stop: both states are published, the runtime is dropped between them.
EndStopping ==
    /\ pc = "end" /\ state # "stopping"
    /\ state' = "stopping"
    /\ UNCHANGED <<pc, target, generation, guest, ports, queues, disconnect, armed, commands, secrets, history>>
EndStopped ==
    /\ pc = "end" /\ state = "stopping"
    /\ state' = "stopped" /\ Goto("ended")
    /\ DropRuntime
    /\ UNCHANGED <<target, generation, guestEvents, netEvents, frames, hostOutputs, armed, commands, history>>
-----------------------------------------------------------------------------
\* The turn: commands, the queued phase, the reactor, the ready phase.
TurnCommands ==
    /\ pc = "commands"
    /\ TakeCommands
    /\ Goto(IF Stops THEN "end" ELSE "flush")
    /\ armed' = IF Handled # {} THEN armed \cup {"GatewayPoll"} ELSE armed
    /\ UNCHANGED <<target, state, generation, guest, ports, queues, disconnect, ingested, sent>>

\* Mutant: a queue that is full takes one more.
AddedAnyhow(q) == {q, Append(q, generation)}

\* push_component_output, on queues that hold one; and what a step may leave of a queue.
Added(q) == IF q = <<>> THEN {q, <<generation>>} ELSE {q}
Drained(q) == {q, <<>>}

\* Mutant: the generation of an event is not looked at.
HandleGuestEventOfAnySession(event) ==
    \/ /\ event.kind = "frame"
       /\ guestEvents' = <<>>
       /\ ingested' = ingested \cup {<<event.gen, generation>>}
       /\ frames' \in Added(frames) /\ hostOutputs' \in Added(hostOutputs)
       /\ UNCHANGED <<disconnect, state>>
    \/ /\ event.kind = "disconnected"
       /\ guestEvents' = <<>> /\ disconnect' = generation
       /\ UNCHANGED <<frames, hostOutputs, state, ingested>>

\* handle_guest_event, part of process_component_events: an event of an earlier
\* generation is ignored.  A frame may be refused by the gateway and stays first;
\* otherwise it leaves frames and host outputs behind.
HandleGuestEvent(event) ==
    \/ /\ event.kind = "frame" /\ event.gen = generation
       /\ UNCHANGED <<guestEvents, frames, hostOutputs, disconnect, state, ingested>>
    \/ /\ event.kind = "frame" /\ event.gen = generation
       /\ guestEvents' = <<>>
       /\ ingested' = ingested \cup {<<event.gen, generation>>}
       /\ frames' \in Added(frames) /\ hostOutputs' \in Added(hostOutputs)
       /\ state' = IF state = "connected" THEN "traffic-observed" ELSE state
       /\ UNCHANGED disconnect
    \/ /\ event.kind = "disconnected" /\ event.gen = generation
       /\ guestEvents' = <<>> /\ disconnect' = generation
       /\ UNCHANGED <<frames, hostOutputs, state, ingested>>
    \/ /\ event.gen # generation
       /\ guestEvents' = <<>>
       /\ UNCHANGED <<frames, hostOutputs, disconnect, state, ingested>>

ProcessGuestEvents(from, to) ==
    /\ pc = from /\ Goto(to)
    /\ IF guestEvents = <<>>
       THEN UNCHANGED <<guestEvents, frames, hostOutputs, disconnect, state, ingested>>
       ELSE HandleGuestEvent(guestEvents[1])
    /\ UNCHANGED <<target, generation, guest, ports, netEvents, outbound, armed, commands, secrets, sent>>

\* handle_host_port_event and handle_udp_event: refused events stay, the others go
\* through the gateway, whatever the generation they were made in.
ProcessNetEvents(from, to) ==
    /\ pc = from /\ Goto(to)
    /\ \/ UNCHANGED <<netEvents, frames, hostOutputs>>
       \/ /\ netEvents # <<>> /\ netEvents' = <<>>
          /\ frames' \in Added(frames) /\ hostOutputs' \in Added(hostOutputs)
    /\ UNCHANGED <<target, state, generation, guest, ports, guestEvents, outbound, disconnect, armed,
                   commands, secrets, history>>

\* The rest of process_component_outputs: send_guest_frames moves a frame to the
\* guest's queue, flush_outbound writes what the transport takes or records its
\* failure, and the outputs towards the host are applied.
ApplyOutputs(from, to) ==
    /\ pc = from /\ Goto(to)
    /\ \/ /\ frames # <<>> /\ outbound = <<>>
          /\ frames' = <<>> /\ outbound' \in {frames, <<>>}
       \/ outbound' \in Drained(outbound) /\ UNCHANGED frames
    /\ disconnect' \in {disconnect, generation}
    /\ hostOutputs' \in Drained(hostOutputs)
    /\ UNCHANGED <<target, state, generation, guest, ports, guestEvents, netEvents, armed, commands, secrets,
                   history>>

\* Host ports, UDP egress, TCP egress and the gateway are driven: they add events
\* and frames of this generation.
DriveComponents(from, to) ==
    /\ pc = from /\ Goto(to)
    /\ netEvents' \in Added(netEvents)
    /\ frames' \in Added(frames)
    /\ UNCHANGED <<target, state, generation, guest, ports, guestEvents, hostOutputs, outbound, disconnect,
                   armed, commands, secrets, history>>

\* Mutant: the status timer is not set again.
ServedOnce(due, stoppedAt) == (armed \ due) \cup stoppedAt

\* What drive_expired_timers does with the due timers: the status timer is set
\* again, the timer the budget stopped at is due again, the others are spent.
Served(due, stoppedAt) == (armed \ due) \cup (due \cap {"StatusPublish"}) \cup stoppedAt

DriveExpiredTimers(from, to) ==
    /\ pc = from /\ Goto(to)
    /\ \E due \in SUBSET armed : \E stoppedAt \in {{}} \cup {{t} : t \in due} :
         RefreshTimers(Served(due, stoppedAt))
    /\ frames' \in Added(frames)
    /\ UNCHANGED <<target, state, generation, guest, ports, guestEvents, netEvents, hostOutputs, outbound,
                   disconnect, commands, secrets, history>>

\* GuestIo::drain_ready_reads: a frame, the end of the session, or an error.
DrainReads(from, to) ==
    /\ pc = from /\ Goto(to)
    /\ \/ UNCHANGED <<guestEvents, disconnect>>
       \/ /\ guestEvents = <<>>
          /\ \E kind \in {"frame", "disconnected"} :
               guestEvents' = <<[kind |-> kind, gen |-> generation]>>
          /\ UNCHANGED disconnect
       \/ disconnect' = generation /\ UNCHANGED guestEvents
    /\ UNCHANGED <<target, state, generation, guest, ports, netEvents, frames, hostOutputs, outbound, armed,
                   commands, secrets, history>>

\* got_disconnected and backoff_connected: the session is given up, and the outer
\* loop connects again at once.
CheckDisconnect(from, to) ==
    /\ pc = from
    /\ IF disconnect = generation
       THEN Goto("begin") /\ state' = "backoff" /\ DropRuntime
       ELSE Goto(to) /\ UNCHANGED <<state, guest, ports, outbound, disconnect, secrets>>
    /\ UNCHANGED <<target, generation, guestEvents, netEvents, frames, hostOutputs, armed, commands, history>>

\* wait_reactor with the timeout of queued_phase_reactor_timeout: an error ends
\* the turn, otherwise the ready components are driven.
PollReactor ==
    /\ pc = "poll"
    /\ RefreshTimers(armed)
    /\ Goto("commands") \/ Goto("ready")
    /\ UNCHANGED <<target, state, generation, guest, ports, queues, disconnect, commands, secrets, history>>

\* drive_once.  The flush at the head of the queued phase is the one that follows
\* it in ApplyOutputs; nothing between them looks at the guest's queue.
QueuedPhase ==
    \/ ProcessGuestEvents("flush", "net") \/ ProcessNetEvents("net", "apply")
    \/ ApplyOutputs("apply", "components")
    \/ DriveComponents("components", "timers")
    \/ DriveExpiredTimers("timers", "guest2")
    \/ ProcessGuestEvents("guest2", "net2") \/ ProcessNetEvents("net2", "apply2")
    \/ ApplyOutputs("apply2", "reads")
    \/ DrainReads("reads", "check")
    \/ CheckDisconnect("check", "poll")

ReadyPhase ==
    \/ DrainReads("ready", "readyComponents")
    \/ DriveComponents("readyComponents", "readyTimers")
    \/ DriveExpiredTimers("readyTimers", "readyGuest")
    \/ ProcessGuestEvents("readyGuest", "readyNet") \/ ProcessNetEvents("readyNet", "readyApply")
    \/ ApplyOutputs("readyApply", "readyCheck")
    \/ CheckDisconnect("readyCheck", "commands")

Thread ==
    \/ BeginConnect \/ ConnectPending \/ ConnectFails \/ ConnectSucceeds
    \/ WaitRound \/ EndStopping \/ EndStopped
    \/ TurnCommands \/ QueuedPhase \/ PollReactor \/ ReadyPhase

\* The owner of the network sends commands; a stop is the last one.
SendUpdate ==
    /\ sent < MaxUpdates /\ commands = <<>>
    /\ commands' = Append(commands, sent + 1) /\ sent' = sent + 1
    /\ UNCHANGED <<pc, target, state, generation, guest, ports, queues, disconnect, armed, secrets, ingested>>
SendStop ==
    /\ StopCommand \notin {commands[i] : i \in DOMAIN commands} /\ pc \notin {"end", "ended"}
    /\ commands' = Append(commands, StopCommand)
    /\ UNCHANGED <<pc, target, state, generation, guest, ports, queues, disconnect, armed, secrets, history>>

LoopNext == Thread \/ SendUpdate \/ SendStop

\* The thread always runs: a wait in the reactor ends with a wake, an event or the
\* next timer.
LoopSpec == LoopInit /\ [][LoopNext]_loopVars /\ WF_loopVars(Thread)
-----------------------------------------------------------------------------
\* The gateway ingests a frame only in the generation that read it.  The queue of
\* guest events outlives a reconnect, so this rests on the generation they carry.
GuestFramesCurrent == \A p \in ingested : p[1] = p[2]

\* Whenever the thread blocks, a timer is set that ends the wait: the status timer
\* is never lost, however the budget cuts the expired timers short, and the timer
\* a connection attempt waits for is set.  Work left in a queue without a reactor
\* event depends on it.
WaitsAreBounded ==
    /\ pc \in {"poll", "wait"} => "StatusPublish" \in armed
    /\ pc = "wait" => target \in armed

\* A stop sent to the network ends it, wherever the thread is: backing off,
\* connecting or driving a session that keeps it busy.
StopSent == StopCommand \in {commands[i] : i \in DOMAIN commands}
StopEnds == StopSent ~> (pc = "ended")

\* The states the thread publishes are those NetworkLifecycle allows.
ImplementsLifecycle == Lifecycle!LifecycleSpec
=============================================================================
