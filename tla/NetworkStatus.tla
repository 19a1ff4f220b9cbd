---------------------------- MODULE NetworkStatus ----------------------------
(***************************************************************************)
(* What the agent shows of an instance's network.  The network thread      *)
(* keeps a status of its own and reports every change as an event          *)
(* (agentdp-network/src/network.rs, events.rs); the events cross a bounded *)
(* ring, the server rebuilds the status from them                          *)
(* (services/instance_network), passes them on over a bounded channel, and *)
(* the agent folds events and rebuilt status into the instance document    *)
(* (agent/runtime.rs).  Messages, times and frame counts are left out: an  *)
(* error is the name of its kind, and telemetry is the three counters that *)
(* both sides keep.                                                        *)
(***************************************************************************)
EXTENDS Naturals, Sequences, SequencesExt

CONSTANTS HostPorts,                    \* the ports a listener may be given
          MaxSteps,                     \* bound: steps of the network thread
          EventRing, EventChannel       \* capacities of the ring and of the agent's channel

VARIABLES
    startup,    \* the hand-over of the thread's first result to the caller of start
    thread,     \* the status the network thread keeps, and its event producer
    ring,       \* events the thread has sent and the drain has not read
    observed,   \* the status rebuilt by the drain
    held,       \* TRUE while the server holds the network (runtime_state)
    toAgent,    \* the agent's channel
    shown,      \* status.network of the instance document
    waiter      \* a call of wait_ready

netStatusVars == <<startup, thread, ring, observed, held, toAgent, shown, waiter>>

NoPort == 0
States == {"starting", "connecting", "connected", "traffic-observed", "backoff", "stopping", "stopped", "failed"}
Terminal(state) == state \in {"stopped", "failed"}
\* EgressError, HostPortError and ReactorError are counted and shown alike.
ErrorKinds == {"component-error"}
Zero == [disconnects |-> 0, connects |-> 0, egress |-> 0]

\* InstanceNetworkStatus::starting.
Starting == [state |-> "starting", gen |-> 0, counts |-> Zero, error |-> "none", port |-> NoPort]

\* NetworkEventEnvelope: a field a kind has no use for keeps its default.
Event(kind) == [kind |-> kind, state |-> "starting", gen |-> 0, counts |-> Zero, port |-> NoPort, before |-> 0]
StateEvent(state, gen) == [Event("state") EXCEPT !.state = state, !.gen = gen]
SnapshotOf(counts) == [Event("snapshot") EXCEPT !.counts = counts]
Session(kind, gen) == [Event(kind) EXCEPT !.gen = gen]
Bound(port) == [Event("bound") EXCEPT !.port = port]

NetStatusTypeOK ==
    /\ startup \in {"pending", "ready", "error", "closed", "taken"} /\ held \in BOOLEAN
    /\ thread.status.state \in States /\ observed.status.state \in States
    /\ Len(ring) <= EventRing /\ Len(toAgent) <= EventChannel
    /\ shown.ready => shown.state = "traffic-observed"
    /\ waiter \in {"idle", "waiting", "ready", "error", "timeout"}

NetStatusInit ==
    /\ startup = "pending" /\ held = FALSE /\ ring = <<>> /\ toAgent = <<>> /\ waiter = "idle"
    /\ thread = [at |-> "spawned", status |-> Starting, dropped |-> 0, steps |-> 0]
    /\ observed = [status |-> Starting, drops |-> 0, actorDrops |-> 0, draining |-> TRUE]
    /\ shown = [state |-> "starting", ready |-> FALSE, transport |-> FALSE, gen |-> 0, counts |-> Zero,
                error |-> "none", runtimePort |-> NoPort, drops |-> 0, port |-> NoPort]
-----------------------------------------------------------------------------
\* StartupSender::send and its drop: the first result wins, and a sender that goes
\* away without one closes the hand-over.
StartupSend(result) == startup' = IF startup = "pending" THEN result ELSE startup

\* The thread builds its event loop, reports that it could not, or panics.
ThreadStarts ==
    /\ thread.at = "spawned"
    /\ \/ StartupSend("ready") /\ thread' = [thread EXCEPT !.at = "loop"]
       \/ StartupSend("error") /\ thread' = [thread EXCEPT !.at = "finished"]
       \/ StartupSend("closed") /\ thread' = [thread EXCEPT !.at = "finished"]
    /\ UNCHANGED <<ring, observed, held, toAgent, shown, waiter>>

\* StartupReceiver::recv in spawn_network_thread: only a loop that exists is held.
StartupRecv ==
    /\ startup \in {"ready", "error", "closed"} /\ startup' = "taken"
    /\ held' = (startup = "ready")
    /\ UNCHANGED <<thread, ring, observed, toAgent, shown, waiter>>
-----------------------------------------------------------------------------
\* The thread's side works on [t |-> thread, r |-> ring].

\* Mutant: the capacity of the ring is not looked at.
EmitAnyhow(p, e) ==
    [t |-> [p.t EXCEPT !.dropped = 0], r |-> Append(p.r, [e EXCEPT !.before = p.t.dropped])]

\* NetworkEventProducer::emit.
Emit(p, e) ==
    IF Len(p.r) < EventRing
    THEN [t |-> [p.t EXCEPT !.dropped = 0], r |-> Append(p.r, [e EXCEPT !.before = p.t.dropped])]
    ELSE [p EXCEPT !.t.dropped = @ + 1]

\* publish: the counters travel as a snapshot.
Publish(p) == Emit(p, SnapshotOf(p.t.status.counts))

\* record_state: what a change of state does to the counters and the last error.
RecordState(status, state, gen) ==
    [status EXCEPT !.state = state, !.gen = gen,
                   !.counts.disconnects = IF state = "backoff" THEN @ + 1 ELSE @,
                   !.error = IF state \in {"backoff", "failed"} THEN state ELSE @]

\* set_state.
SetState(p, state, gen) ==
    Publish([Emit(p, StateEvent(state, gen)) EXCEPT !.t.status = RecordState(p.t.status, state, gen)])

\* record_connect_error, record_egress_error.
RecordConnectError(status, kind) == [status EXCEPT !.counts.connects = @ + 1, !.error = kind]
RecordEgressError(status, kind) == [status EXCEPT !.counts.egress = @ + 1, !.error = kind]

\* connect_once and run_until_stopped on an error: the event, the counter, the snapshot, the backoff.
ConnectError(p, kind) ==
    LET told == Emit(p, Event(kind))
        counted == [told EXCEPT !.t.status = RecordConnectError(@, kind)]
    IN  SetState(Publish(counted), "backoff", p.t.status.gen)

\* connect_once on success.
Connected(p) ==
    LET gen == p.t.status.gen + 1 IN Emit(SetState(p, "connected", gen), Session("guest-connected", gen))

\* What one step of the event loop makes of status and ring: begin_connect binds the
\* ports anew every time, a guest connects or fails to, sends its first frame or goes
\* away, a component reports an error, the loop stops or fails.
ThreadStep(p) ==
    LET status == p.t.status IN
    \/ /\ status.state \in {"starting", "backoff"}
       /\ \E port \in HostPorts :
             \E next \in {SetState([Emit(p, Bound(port)) EXCEPT !.t.status.port = port], "connecting", status.gen)} :
                thread' = next.t /\ ring' = next.r
    \/ /\ status.state = "connecting"
       /\ \E next \in {Connected(p), ConnectError(p, "connect-failed"), ConnectError(Connected(p), "register-failed")} :
             thread' = next.t /\ ring' = next.r
    \/ /\ status.state = "connected"
       /\ \E next \in {SetState(p, "traffic-observed", status.gen)} : thread' = next.t /\ ring' = next.r
    \/ /\ status.state \in {"connected", "traffic-observed"}
       /\ \E next \in {SetState(Emit(p, Session("guest-disconnected", status.gen)), "backoff", status.gen)} :
             thread' = next.t /\ ring' = next.r
    \/ \E kind \in ErrorKinds :
          \E next \in {Publish([Emit(p, Event(kind)) EXCEPT !.t.status = RecordEgressError(@, kind)])} :
             thread' = next.t /\ ring' = next.r
    \/ \E next \in {SetState(SetState(p, "stopping", status.gen), "stopped", status.gen), SetState(p, "failed", status.gen)} :
          thread' = [next.t EXCEPT !.at = "finished"] /\ ring' = next.r

Thread ==
    /\ thread.at = "loop" /\ thread.steps < MaxSteps
    /\ ThreadStep([t |-> [thread EXCEPT !.steps = @ + 1], r |-> ring])
    /\ UNCHANGED <<startup, observed, held, toAgent, shown, waiter>>
-----------------------------------------------------------------------------
\* observe_event: the status is rebuilt event by event, the counters are corrected by
\* every snapshot, and state and ports are not.
ObserveEvent(status, e) ==
    CASE e.kind = "state" -> RecordState(status, e.state, e.gen)
      [] e.kind = "snapshot" -> [status EXCEPT !.counts = e.counts]
      [] e.kind \in {"connect-failed", "register-failed"} -> RecordConnectError(status, e.kind)
      [] e.kind \in ErrorKinds -> RecordEgressError(status, e.kind)
      [] e.kind = "bound" -> [status EXCEPT !.port = e.port]
      [] OTHER -> status

\* instance_network_event: each kind has its counterpart for the agent, under the
\* same name here; the drops of the channel are added to those of the ring.
InstanceNetworkEvent(e) == [e EXCEPT !.before = @ + observed.actorDrops]

\* drain_network_outputs for one event, with what the agent's channel had no room for.
Drain ==
    LET e == Head(ring)
        full == Len(toAgent) = EventChannel
        lost == IF full THEN 1 ELSE 0
    IN  /\ observed.draining
        /\ \/ /\ ring # <<>> /\ ring' = Tail(ring)
              /\ observed' = [observed EXCEPT !.status = ObserveEvent(@, e), !.drops = @ + e.before + lost,
                                              !.actorDrops = IF full THEN @ + 1 ELSE 0]
              /\ toAgent' = IF full THEN toAgent ELSE Append(toAgent, InstanceNetworkEvent(e))
           \/ /\ ring = <<>> /\ thread.at = "finished"
              /\ observed' = [observed EXCEPT !.draining = FALSE] /\ UNCHANGED <<ring, toAgent>>
        /\ UNCHANGED <<startup, thread, held, shown, waiter>>
-----------------------------------------------------------------------------
\* apply_network_event: telemetry, closed proxies and names are passed over, with the
\* drops they carry; a bound port is also put where the instance's ports are kept.
ApplyNetworkEvent(doc, e) ==
    IF e.kind = "snapshot" THEN doc
    ELSE LET counted == [doc EXCEPT !.drops = @ + e.before] IN
         CASE e.kind = "state" -> [counted EXCEPT !.state = e.state, !.ready = (e.state = "traffic-observed")]
           [] e.kind = "guest-connected" -> [counted EXCEPT !.transport = TRUE, !.gen = e.gen]
           [] e.kind = "guest-disconnected" -> [counted EXCEPT !.gen = e.gen, !.error = "guest-disconnected"]
           [] e.kind = "bound" -> [counted EXCEPT !.runtimePort = e.port, !.port = e.port]
           [] OTHER -> [counted EXCEPT !.error = e.kind]

\* InstanceNetworkObservation::status: each state shows its transport or its generation.
ObservationStatus(doc) ==
    LET s == observed.status IN
    [doc EXCEPT !.state = s.state, !.ready = (s.state = "traffic-observed"), !.transport = (s.state = "connecting"),
                !.gen = IF s.state \in {"connected", "traffic-observed", "backoff"} THEN s.gen ELSE 0,
                !.counts = s.counts, !.error = s.error, !.runtimePort = s.port, !.drops = observed.drops]

\* apply_bound_host_ports: a port the network has not bound keeps what it had.
ApplyBoundHostPorts(doc) == IF observed.status.port = NoPort THEN doc ELSE [doc EXCEPT !.port = observed.status.port]

\* refresh_runtime_observations: the events first, then the rebuilt status of a
\* network the server still holds.
Refreshed ==
    LET applied == FoldLeft(ApplyNetworkEvent, shown, toAgent)
    IN  IF held THEN ObservationStatus(ApplyBoundHostPorts(applied)) ELSE applied

Refresh ==
    /\ Refreshed # shown \/ toAgent # <<>>
    /\ shown' = Refreshed /\ toAgent' = <<>>
    /\ UNCHANGED <<startup, thread, ring, observed, held, waiter>>

\* InstanceNetwork::stop takes the network from the server at once.
LetGo ==
    /\ held /\ held' = FALSE
    /\ UNCHANGED <<startup, thread, ring, observed, toAgent, shown, waiter>>

\* wait_ready: the first look at a status that decides, the end of the drain, or the timeout.
WaitReady ==
    /\ \/ waiter = "idle" /\ held /\ waiter' = "waiting"
       \/ waiter = "waiting" /\ observed.status.state = "traffic-observed" /\ waiter' = "ready"
       \/ /\ waiter = "waiting" /\ (Terminal(observed.status.state) \/ ~observed.draining)
          /\ observed.status.state # "traffic-observed" /\ waiter' = "error"
       \/ waiter = "waiting" /\ waiter' = "timeout"
    /\ UNCHANGED <<startup, thread, ring, observed, held, toAgent, shown>>

NetStatusNext == ThreadStarts \/ StartupRecv \/ Thread \/ Drain \/ Refresh \/ LetGo \/ WaitReady
NetStatusSpec == NetStatusInit /\ [][NetStatusNext]_netStatusVars
-----------------------------------------------------------------------------
\* The status shown for a network is the thread's own once the events have arrived:
\* its state, its readiness, its port and, while the server holds the network, its
\* error counters, though two sides count and the agent folds late events over a
\* newer status.  Where it is not, an event was dropped, and the count of drops says
\* so or travels with the next event.
ShownNetworkHonest ==
    (ring = <<>> /\ thread.dropped = 0 /\ observed.drops = 0 /\ startup = "taken") =>
        LET doc == Refreshed IN
        /\ doc.state = thread.status.state
        /\ doc.ready <=> thread.status.state = "traffic-observed"
        /\ doc.port = thread.status.port
        /\ held => doc.counts = thread.status.counts /\ doc.error = thread.status.error
=============================================================================
