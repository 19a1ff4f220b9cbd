-------------------------- MODULE EventLoopProofs ---------------------------
(***************************************************************************)
(* The invariants of the network thread and its refinement of              *)
(* NetworkLifecycle, for any number of guest sessions and secret updates.  *)
(*                                                                         *)
(* None of the properties is inductive alone.  What is published depends   *)
(* on where the thread is, so the invariant relates every place of the     *)
(* thread to the states published there (PublishedInv); an item in a queue *)
(* names a session, so a session has begun wherever items are made         *)
(* (SessionInv); and a wait is bounded because the status timer is never   *)
(* lost anywhere, not only where the thread waits (TimersInv).             *)
(***************************************************************************)
EXTENDS EventLoop, TLAPS

\* The places of a turn, where a guest session is being driven.
TurnLabels ==
    {"commands", "flush", "net", "apply", "components", "timers", "guest2", "net2",
     "apply2", "reads", "check", "poll", "ready", "readyComponents", "readyTimers",
     "readyGuest", "readyNet", "readyApply", "readyCheck"}
Labels ==
    TurnLabels \cup {"begin", "connect", "registerFailed", "wait", "end", "ended"}

Queues == QueueOf(Generations)

TypesInv ==
    /\ pc \in Labels /\ target \in Timers
    /\ state \in Lifecycle!NetworkStates
    /\ generation \in 0 .. MaxGeneration
    /\ guest \in BOOLEAN /\ ports \in BOOLEAN
    /\ guestEvents \in QueueOf(GuestEvents)
    /\ netEvents \in Queues /\ frames \in Queues
    /\ hostOutputs \in Queues /\ outbound \in Queues
    /\ disconnect \in 0 .. MaxGeneration
    /\ armed \subseteq Timers
    /\ commands \in Seq(Updates)
    /\ secrets \in Updates /\ sent \in Updates

SessionInv == pc \in TurnLabels \cup {"registerFailed"} => generation \in Generations

\* The states published at each place of the thread.
PublishedInv ==
    /\ pc = "begin" => state \in {"starting", "backoff"}
    /\ pc \in {"connect", "wait"} => state \in {"connecting", "backoff"}
    /\ pc = "registerFailed" => state = "connected"
    /\ pc \in TurnLabels => state \in {"connected", "traffic-observed"}
    /\ pc = "end" => state \notin Lifecycle!Terminal

TimersInv ==
    /\ "StatusPublish" \in armed
    /\ pc = "wait" => target \in armed

LoopInv == TypesInv /\ SessionInv /\ PublishedInv /\ TimersInv /\ GuestFramesCurrent

-----------------------------------------------------------------------------
(* Queues of one item. *)

\* What push_component_output may leave of a queue, during a session.
LEMMA AddedQueues ==
    ASSUME NEW q \in Queues, generation \in Generations
    PROVE Added(q) \subseteq Queues
BY DEF Added, Queues, QueueOf

\* What a step that empties a queue may leave of it.
LEMMA DrainedQueues ==
    ASSUME NEW q \in Queues
    PROVE Drained(q) \subseteq Queues
BY DEF Drained, Queues, QueueOf

\* process_commands empties the inbox, and the last update it found is the one
\* the gateway holds.
LEMMA CommandsTaken ==
    ASSUME TypesInv, TakeCommands
    PROVE commands' \in Seq(Updates) /\ secrets' \in Updates
<1>1. commands' \in Seq(Updates) BY DEF TakeCommands
<1>2. CASE UNCHANGED secrets BY <1>1, <1>2 DEF TypesInv
<1>3. CASE \E last \in Handled : secrets' = commands[last]
    BY <1>1, <1>3 DEF Handled, TypesInv
<1> QED BY <1>2, <1>3 DEF TakeCommands

\* refresh_timers leaves timers armed, and the status timer among them.
LEMMA TimersRefreshed ==
    ASSUME NEW remaining, remaining \subseteq Timers, RefreshTimers(remaining)
    PROVE /\ armed' \subseteq Timers
          /\ \A t \in remaining \ {"UdpExpiry"} : t \in armed'
BY DEF RefreshTimers, Timers

-----------------------------------------------------------------------------
(* The connection loop. *)

\* The invariant holds when the thread starts.
LEMMA InitLoopInv == LoopInit => LoopInv
<1> SUFFICES ASSUME LoopInit PROVE LoopInv OBVIOUS
<1> USE DEF LoopInit
<1>1. guest \in BOOLEAN /\ ports \in BOOLEAN BY Zenon
<1>2. TypesInv
    BY <1>1, LoopBounds DEF TypesInv, Labels, Timers, Queues, QueueOf, Updates, NoGeneration,
       Lifecycle!NetworkStates
<1>3. SessionInv /\ PublishedInv /\ TimersInv
    BY DEF SessionInv, PublishedInv, TimersInv, TurnLabels
<1>4. GuestFramesCurrent BY DEF GuestFramesCurrent
<1> QED BY <1>2, <1>3, <1>4 DEF LoopInv

\* A connection begins with the next generation.
LEMMA BeginConnectLoopInv == LoopInv /\ BeginConnect => LoopInv'
<1> SUFFICES ASSUME LoopInv, BeginConnect PROVE LoopInv' OBVIOUS
<1> USE DEF LoopInv, BeginConnect, history, Goto
<1>1. armed' \subseteq Timers /\ "StatusPublish" \in armed'
    BY TimersRefreshed DEF TypesInv, TimersInv
<1>2. guest' \in BOOLEAN /\ ports' \in BOOLEAN BY Zenon
<1>3. TypesInv'
    BY <1>1, <1>2, LoopBounds DEF TypesInv, Labels, Queues, QueueOf, Updates, NoGeneration,
       Lifecycle!NetworkStates
<1>4. SessionInv' BY DEF SessionInv, TurnLabels
<1>5. PublishedInv' BY DEF PublishedInv, TurnLabels, Lifecycle!Terminal
<1>6. TimersInv' BY <1>1 DEF TimersInv
<1>7. GuestFramesCurrent' BY DEF GuestFramesCurrent
<1> QED BY <1>3, <1>4, <1>5, <1>6, <1>7

\* A connection that is pending, fails or succeeds keeps the queues of earlier sessions apart.
LEMMA ConnectLoopInv ==
    LoopInv /\ (ConnectPending \/ ConnectFails \/ ConnectSucceeds) => LoopInv'
<1> SUFFICES ASSUME LoopInv, ConnectPending \/ ConnectFails \/ ConnectSucceeds
             PROVE LoopInv'
    OBVIOUS
<1> USE DEF LoopInv, ConnectPending, ConnectFails, ConnectSucceeds, WaitFor, Goto, queues,
            history
<1>1. guest' \in BOOLEAN BY Zenon DEF TypesInv
<1>2. TypesInv'
    <2> USE <1>1, LoopBounds
            DEF TypesInv, Labels, TurnLabels, Timers, Lifecycle!NetworkStates
    <2>1. CASE ConnectPending \/ ConnectFails BY <2>1
    <2>2. CASE ConnectSucceeds BY <2>2
    <2> QED BY <2>1, <2>2
<1>3. SessionInv'
    BY LoopBounds DEF SessionInv, TypesInv, TurnLabels, Generations
<1>4. PublishedInv' BY DEF PublishedInv, TurnLabels
<1>5. TimersInv' BY DEF TimersInv
<1>6. GuestFramesCurrent' BY DEF GuestFramesCurrent
<1> QED BY <1>2, <1>3, <1>4, <1>5, <1>6

\* A round of waiting ends with its timer, an event or a command.
LEMMA WaitRoundLoopInv == LoopInv /\ WaitRound => LoopInv'
<1> SUFFICES ASSUME LoopInv, WaitRound PROVE LoopInv' OBVIOUS
<1> USE DEF LoopInv, WaitRound, Goto, queues
<1>1. commands' \in Seq(Updates) /\ secrets' \in Updates BY CommandsTaken
<1>2. armed' \subseteq Timers BY DEF TypesInv, Timers
<1>3. TypesInv' BY <1>1, <1>2 DEF TypesInv, Labels, Timers
<1>4. SessionInv' BY DEF SessionInv, TurnLabels
<1>5. PublishedInv' BY DEF PublishedInv, TurnLabels, Lifecycle!Terminal
<1>6. TimersInv' BY DEF TimersInv
<1>7. GuestFramesCurrent' BY DEF GuestFramesCurrent
<1> QED BY <1>3, <1>4, <1>5, <1>6, <1>7

\* The thread that was told to stop ends, and publishes that.
LEMMA EndLoopInv == LoopInv /\ (EndStopping \/ EndStopped) => LoopInv'
<1> SUFFICES ASSUME LoopInv, EndStopping \/ EndStopped PROVE LoopInv' OBVIOUS
<1> USE DEF LoopInv, EndStopping, EndStopped, DropRuntime, Goto, queues, history
<1>1. guest' \in BOOLEAN /\ ports' \in BOOLEAN BY Zenon DEF TypesInv
<1>2. TypesInv'
    BY <1>1, LoopBounds DEF TypesInv, Labels, Queues, QueueOf, Updates, NoGeneration,
       Lifecycle!NetworkStates
<1>3. SessionInv' BY DEF SessionInv, TurnLabels
<1>4. PublishedInv' BY DEF PublishedInv, TurnLabels, Lifecycle!Terminal
<1>5. TimersInv' BY DEF TimersInv
<1>6. GuestFramesCurrent' BY DEF GuestFramesCurrent
<1> QED BY <1>2, <1>3, <1>4, <1>5, <1>6

-----------------------------------------------------------------------------
(* The turn.  Its steps run at several places, all of them of the turn. *)

\* The commands of a turn are taken before it drives anything.
LEMMA TurnCommandsLoopInv == LoopInv /\ TurnCommands => LoopInv'
<1> SUFFICES ASSUME LoopInv, TurnCommands PROVE LoopInv' OBVIOUS
<1> USE DEF LoopInv, TurnCommands, Goto, queues
<1>1. commands' \in Seq(Updates) /\ secrets' \in Updates BY CommandsTaken
<1>2. TypesInv' BY <1>1 DEF TypesInv, Labels, TurnLabels, Timers
<1>3. SessionInv' BY DEF SessionInv, TurnLabels
<1>4. PublishedInv' BY DEF PublishedInv, TurnLabels, Lifecycle!Terminal
<1>5. TimersInv' BY DEF TimersInv
<1>6. GuestFramesCurrent' BY DEF GuestFramesCurrent
<1> QED BY <1>2, <1>3, <1>4, <1>5, <1>6

\* A drive phase ingests only frames of the session that is registered.
LEMMA ProcessGuestEventsLoopInv ==
    ASSUME LoopInv, NEW from \in TurnLabels, NEW to \in TurnLabels,
           ProcessGuestEvents(from, to)
    PROVE LoopInv'
<1> USE DEF LoopInv, ProcessGuestEvents, Goto
<1>1. pc \in TurnLabels /\ pc' \in TurnLabels /\ generation \in Generations
    BY DEF SessionInv
<1>2. guestEvents # <<>> => guestEvents[1] \in GuestEvents
    BY DEF TypesInv, QueueOf
<1>3. frames' \in Queues /\ hostOutputs' \in Queues
    BY <1>1, AddedQueues DEF TypesInv, HandleGuestEvent
<1>4. guestEvents' \in QueueOf(GuestEvents) /\ disconnect' \in 0 .. MaxGeneration
    BY DEF TypesInv, HandleGuestEvent, QueueOf
<1>5. /\ state' \in {"connected", "traffic-observed"}
      /\ UNCHANGED <<target, generation, guest, ports, netEvents, outbound, armed, commands,
                     secrets, sent>>
    BY <1>1 DEF HandleGuestEvent, PublishedInv
<1>6. TypesInv'
    BY <1>1, <1>3, <1>4, <1>5 DEF TypesInv, Labels, Lifecycle!NetworkStates
<1>7. SessionInv' BY <1>1, <1>5 DEF SessionInv
<1>8. PublishedInv' BY <1>1, <1>5 DEF PublishedInv, TurnLabels
<1>9. TimersInv' BY <1>1, <1>5 DEF TimersInv, TurnLabels
<1>10. GuestFramesCurrent' BY DEF GuestFramesCurrent, HandleGuestEvent
<1> QED BY <1>6, <1>7, <1>8, <1>9, <1>10

\* The steps of a turn that only move items between queues, add items of this
\* session, record a disconnect or serve timers.
LEMMA QueueStepLoopInv ==
    ASSUME LoopInv, NEW from \in TurnLabels, NEW to \in TurnLabels,
           \/ ProcessNetEvents(from, to) \/ ApplyOutputs(from, to)
           \/ DriveComponents(from, to) \/ DriveExpiredTimers(from, to)
           \/ DrainReads(from, to)
    PROVE LoopInv'
<1> USE DEF LoopInv, Goto, history
<1>1. pc \in TurnLabels /\ generation \in Generations
    BY DEF SessionInv, ProcessNetEvents, ApplyOutputs, DriveComponents, DriveExpiredTimers,
           DrainReads
<1>2. /\ pc' \in TurnLabels
      /\ UNCHANGED <<target, state, generation, guest, ports, commands, secrets, history>>
    BY DEF ProcessNetEvents, ApplyOutputs, DriveComponents, DriveExpiredTimers, DrainReads
<1>3. /\ netEvents' \in Queues /\ frames' \in Queues
      /\ hostOutputs' \in Queues /\ outbound' \in Queues
    <2> USE <1>1, AddedQueues, DrainedQueues DEF TypesInv
    <2>1. CASE ProcessNetEvents(from, to)
        BY <2>1 DEF ProcessNetEvents, Queues, QueueOf
    <2>2. CASE ApplyOutputs(from, to)
        BY <2>2 DEF ApplyOutputs, Queues, QueueOf
    <2>3. CASE DriveComponents(from, to) BY <2>3 DEF DriveComponents
    <2>4. CASE DriveExpiredTimers(from, to) BY <2>4 DEF DriveExpiredTimers
    <2>5. CASE DrainReads(from, to) BY <2>5 DEF DrainReads
    <2> QED BY <2>1, <2>2, <2>3, <2>4, <2>5
<1>4. guestEvents' \in QueueOf(GuestEvents) /\ disconnect' \in 0 .. MaxGeneration
    BY <1>1 DEF TypesInv, ProcessNetEvents, ApplyOutputs, DriveComponents,
       DriveExpiredTimers, DrainReads, QueueOf, GuestEvents
<1>5. armed' \subseteq Timers /\ "StatusPublish" \in armed'
    <2>1. CASE DriveExpiredTimers(from, to)
        <3>1. PICK due \in SUBSET armed : \E stoppedAt \in {{}} \cup {{t} : t \in due} :
                RefreshTimers(Served(due, stoppedAt))
            BY <2>1 DEF DriveExpiredTimers
        <3>2. PICK stoppedAt \in {{}} \cup {{t} : t \in due} :
                RefreshTimers(Served(due, stoppedAt))
            BY <3>1
        <3>3. /\ Served(due, stoppedAt) \subseteq Timers
              /\ "StatusPublish" \in Served(due, stoppedAt)
            BY DEF Served, TypesInv, TimersInv
        <3> QED BY <3>2, <3>3, TimersRefreshed
    <2>2. CASE UNCHANGED armed BY <2>2 DEF TypesInv, TimersInv
    <2> QED
        BY <2>1, <2>2 DEF ProcessNetEvents, ApplyOutputs, DriveComponents, DrainReads
<1>6. TypesInv' BY <1>2, <1>3, <1>4, <1>5 DEF TypesInv, Labels
<1>7. SessionInv' BY <1>1, <1>2 DEF SessionInv
<1>8. PublishedInv' BY <1>1, <1>2 DEF PublishedInv, TurnLabels
<1>9. TimersInv' BY <1>2, <1>5 DEF TimersInv, TurnLabels
<1>10. GuestFramesCurrent' BY <1>2 DEF GuestFramesCurrent
<1> QED BY <1>6, <1>7, <1>8, <1>9, <1>10

\* A session that ended is dropped with the runtime; what outlives it is known by its generation.
LEMMA CheckDisconnectLoopInv ==
    ASSUME LoopInv, NEW from \in TurnLabels, NEW to \in TurnLabels,
           CheckDisconnect(from, to)
    PROVE LoopInv'
<1> USE DEF LoopInv, CheckDisconnect, DropRuntime, Goto, history
<1>1. guest' \in BOOLEAN /\ ports' \in BOOLEAN BY Zenon DEF TypesInv
<1>2. TypesInv'
    BY <1>1, LoopBounds DEF TypesInv, Labels, Queues, QueueOf, Updates, NoGeneration,
       Lifecycle!NetworkStates
<1>3. SessionInv' BY DEF SessionInv, TurnLabels
<1>4. PublishedInv' BY DEF PublishedInv, TurnLabels
<1>5. TimersInv' BY DEF TimersInv, TurnLabels
<1>6. GuestFramesCurrent' BY DEF GuestFramesCurrent
<1> QED BY <1>2, <1>3, <1>4, <1>5, <1>6

\* A poll of the reactor ends with an event, a waker or a timer.
LEMMA PollReactorLoopInv == LoopInv /\ PollReactor => LoopInv'
<1> SUFFICES ASSUME LoopInv, PollReactor PROVE LoopInv' OBVIOUS
<1> USE DEF LoopInv, PollReactor, Goto, queues, history
<1>1. armed' \subseteq Timers /\ "StatusPublish" \in armed'
    BY TimersRefreshed DEF TypesInv, TimersInv
<1>2. TypesInv' BY <1>1 DEF TypesInv, Labels, TurnLabels
<1>3. SessionInv' BY DEF SessionInv, TurnLabels
<1>4. PublishedInv' BY DEF PublishedInv, TurnLabels
<1>5. TimersInv' BY <1>1 DEF TimersInv
<1>6. GuestFramesCurrent' BY DEF GuestFramesCurrent
<1> QED BY <1>2, <1>3, <1>4, <1>5, <1>6

\* A command is left for the thread to find.
LEMMA SendLoopInv == LoopInv /\ (SendUpdate \/ SendStop) => LoopInv'
<1> SUFFICES ASSUME LoopInv, SendUpdate \/ SendStop PROVE LoopInv' OBVIOUS
<1> USE DEF LoopInv, SendUpdate, SendStop, queues, history
<1>1. commands' \in Seq(Updates) /\ sent' \in Updates
    <2>1. CASE SendUpdate
        <3>1. sent + 1 \in Updates BY <2>1, LoopBounds DEF TypesInv, Updates
        <3> QED BY <2>1, <3>1 DEF TypesInv
    <2>2. CASE SendStop
        <3>1. StopCommand \in Updates BY LoopBounds DEF StopCommand, Updates
        <3> QED BY <2>2, <3>1 DEF TypesInv
    <2> QED BY <2>1, <2>2
<1>2. TypesInv' BY <1>1 DEF TypesInv
<1>3. SessionInv' BY DEF SessionInv
<1>4. PublishedInv' BY DEF PublishedInv
<1>5. TimersInv' BY DEF TimersInv
<1>6. GuestFramesCurrent' BY DEF GuestFramesCurrent
<1> QED BY <1>2, <1>3, <1>4, <1>5, <1>6

-----------------------------------------------------------------------------
(* The theorems. *)

\* Every step of the thread and of its environment keeps the invariant.
LEMMA StepLoopInv == LoopInv /\ [LoopNext]_loopVars => LoopInv'
<1> SUFFICES ASSUME LoopInv, [LoopNext]_loopVars PROVE LoopInv' OBVIOUS
<1>1. CASE QueuedPhase
    <2> USE DEF TurnLabels
    <2>1. CASE ProcessGuestEvents("flush", "net") \/ ProcessGuestEvents("guest2", "net2")
        BY <2>1, ProcessGuestEventsLoopInv
    <2>2. CASE \/ ProcessNetEvents("net", "apply") \/ ProcessNetEvents("net2", "apply2")
               \/ ApplyOutputs("apply", "components") \/ ApplyOutputs("apply2", "reads")
               \/ DriveComponents("components", "timers")
               \/ DriveExpiredTimers("timers", "guest2")
               \/ DrainReads("reads", "check")
        BY <2>2, QueueStepLoopInv
    <2>3. CASE CheckDisconnect("check", "poll") BY <2>3, CheckDisconnectLoopInv
    <2> QED BY <1>1, <2>1, <2>2, <2>3 DEF QueuedPhase
<1>2. CASE ReadyPhase
    <2> USE DEF TurnLabels
    <2>1. CASE ProcessGuestEvents("readyGuest", "readyNet")
        BY <2>1, ProcessGuestEventsLoopInv
    <2>2. CASE \/ ProcessNetEvents("readyNet", "readyApply")
               \/ ApplyOutputs("readyApply", "readyCheck")
               \/ DriveComponents("readyComponents", "readyTimers")
               \/ DriveExpiredTimers("readyTimers", "readyGuest")
               \/ DrainReads("ready", "readyComponents")
        BY <2>2, QueueStepLoopInv
    <2>3. CASE CheckDisconnect("readyCheck", "commands") BY <2>3, CheckDisconnectLoopInv
    <2> QED BY <1>2, <2>1, <2>2, <2>3 DEF ReadyPhase
<1>3. CASE UNCHANGED loopVars
    BY <1>3 DEF loopVars, LoopInv, TypesInv, SessionInv, PublishedInv, TimersInv,
       GuestFramesCurrent
<1> QED
    BY <1>1, <1>2, <1>3, BeginConnectLoopInv, ConnectLoopInv, WaitRoundLoopInv, EndLoopInv,
       TurnCommandsLoopInv, PollReactorLoopInv, SendLoopInv DEF LoopNext, Thread

\* The inductive invariant of the network thread (event_loop.rs).
THEOREM LoopInvariant == LoopSpec => []LoopInv
<1> QED BY InitLoopInv, StepLoopInv, PTL DEF LoopSpec

\* Every variable of the thread keeps its type: no item of a queue names a session
\* that never was, and no queue outgrows its capacity.
THEOREM LoopTypeCorrect == LoopSpec => []LoopTypeOK
<1>1. LoopInv => LoopTypeOK
    BY DEF LoopInv, TypesInv, LoopTypeOK, Queues
<1> QED BY <1>1, LoopInvariant, PTL

\* A frame is ingested only in the guest session that read it, although frames
\* stay queued across a reconnect (handle_guest_event).
THEOREM FramesOfThisSession == LoopSpec => []GuestFramesCurrent
<1>1. LoopInv => GuestFramesCurrent BY DEF LoopInv
<1> QED BY <1>1, LoopInvariant, PTL

\* Whenever the thread blocks there is a timer that ends the wait, whichever timers
\* were due and wherever the budget stopped (drive_expired_timers).
THEOREM EveryWaitEnds == LoopSpec => []WaitsAreBounded
<1>1. LoopInv => WaitsAreBounded BY DEF LoopInv, TimersInv, WaitsAreBounded
<1> QED BY <1>1, LoopInvariant, PTL

-----------------------------------------------------------------------------
(* The refinement.  An abstract step is what the thread publishes. *)

\* The thread starts where NetworkLifecycle does.
LEMMA InitRefinesLifecycle == LoopInit => Lifecycle!LifecycleInit
BY DEF LoopInit, Lifecycle!LifecycleInit

\* Every step of the thread is a step of NetworkLifecycle or none of its concern.
LEMMA StepRefinesLifecycle ==
    LoopInv /\ [LoopNext]_loopVars => [Lifecycle!LifecycleNext]_(Lifecycle!lifecycleVars)
<1> SUFFICES ASSUME LoopInv, [LoopNext]_loopVars
             PROVE Lifecycle!LifecycleNext \/ UNCHANGED <<state, generation>>
    BY DEF Lifecycle!lifecycleVars
<1> USE DEF LoopInv, PublishedInv, Goto, Lifecycle!LifecycleNext
<1>1. CASE BeginConnect
    BY <1>1 DEF BeginConnect, Lifecycle!BeginConnecting, Lifecycle!Fail
<1>2. CASE ConnectFails
    BY <1>2 DEF ConnectFails, Lifecycle!BackOff
<1>3. CASE ConnectSucceeds
    BY <1>3 DEF ConnectSucceeds, Lifecycle!Connect
<1>4. CASE EndStopping
    BY <1>4 DEF EndStopping, Lifecycle!BeginStopping
<1>5. CASE EndStopped
    BY <1>5 DEF EndStopped, Lifecycle!Stop
<1>6. ASSUME NEW from \in TurnLabels, NEW to, ProcessGuestEvents(from, to)
      PROVE Lifecycle!ObserveTraffic \/ UNCHANGED <<state, generation>>
    BY <1>6 DEF ProcessGuestEvents, HandleGuestEvent, Lifecycle!ObserveTraffic
<1>7. ASSUME NEW from \in TurnLabels, NEW to, CheckDisconnect(from, to)
      PROVE Lifecycle!BackOff \/ UNCHANGED <<state, generation>>
    BY <1>7 DEF CheckDisconnect, Lifecycle!BackOff
<1>8. ASSUME NEW from, NEW to,
             \/ ProcessNetEvents(from, to) \/ ApplyOutputs(from, to)
             \/ DriveComponents(from, to) \/ DriveExpiredTimers(from, to)
             \/ DrainReads(from, to)
      PROVE UNCHANGED <<state, generation>>
    BY <1>8 DEF ProcessNetEvents, ApplyOutputs, DriveComponents, DriveExpiredTimers,
       DrainReads
<1>9. CASE QueuedPhase \/ ReadyPhase
    BY <1>6, <1>7, <1>8, <1>9 DEF QueuedPhase, ReadyPhase, TurnLabels
<1>10. CASE ConnectPending \/ WaitRound \/ TurnCommands \/ PollReactor \/ SendUpdate \/ SendStop
    BY <1>10 DEF ConnectPending, WaitRound, TurnCommands, PollReactor, SendUpdate, SendStop
<1>11. CASE UNCHANGED loopVars BY <1>11 DEF loopVars
<1> QED
    BY <1>1, <1>2, <1>3, <1>4, <1>5, <1>9, <1>10, <1>11 DEF LoopNext, Thread

\* What the thread publishes is a behaviour of NetworkLifecycle: generations go up
\* by one with each connection, and a network that ended stays ended.
THEOREM RefinesLifecycle == LoopSpec => ImplementsLifecycle
<1> QED
    BY InitRefinesLifecycle, StepRefinesLifecycle, LoopInvariant, PTL
    DEF LoopSpec, ImplementsLifecycle, Lifecycle!LifecycleSpec
=============================================================================
