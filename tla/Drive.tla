------------------------------- MODULE Drive --------------------------------
(***************************************************************************)
(* One bounded turn of dataplane work (agentdp-network/src/drive.rs).  A   *)
(* turn owns a budget of events, steps and bytes, and a report of what     *)
(* changed, what the stopped paths wait for and whether the budget ran     *)
(* out.  Every action is one drive operation; the operations of one turn   *)
(* come in any order.  Sockets, the guest and the consumers of buffers are *)
(* external.                                                               *)
(***************************************************************************)
EXTENDS Naturals, Sequences, IoSlot

CONSTANTS
    EventBudget, StepBudget, ByteBudget,  \* drive_*_budget of NetworkLimits
    BufferCount,      \* buffers of the pool
    ReadCapacity,     \* the size of the buffer a read fills
    QueueCapacity,    \* frames queued towards the guest, component outputs
    MaxPending        \* bound: bytes waiting in each external place

\* NetworkLimits and the buffer sizes; a buffer holds at least a byte.
DriveBounds ==
    /\ EventBudget \in Nat /\ StepBudget \in Nat /\ ByteBudget \in Nat
    /\ BufferCount \in Nat /\ ReadCapacity \in Nat \ {0} /\ QueueCapacity \in Nat
    /\ MaxPending \in Nat

ASSUME DriveAssumption == DriveBounds

VARIABLES
    turn,      \* budget and report of the turn
    slot,      \* readiness of the path's source
    inbound,   \* external: bytes that can be read, the next item being all of them
    room,      \* external: bytes that can be written
    queue,     \* bytes queued for writing: the lengths of the queued buffers
    free,      \* free buffers of the pool
    moved,     \* history: bytes moved and operations started in this turn
    lost,      \* history: an item read or written whose accounting was refused
    refused    \* history: an operation of this turn stopped with work left

driveVars == <<turn, slot, inbound, room, queue, free, moved, lost, refused>>

Waits == {"reactor_read", "reactor_write", "guest_recv", "guest_send", "local_buffer"}

LeastOf(a, b) == IF a < b THEN a ELSE b
MostOf(a, b) == IF a > b THEN a ELSE b
Minus(a, b) == IF a > b THEN a - b ELSE 0

FreshTurn ==
    [events |-> EventBudget, steps |-> StepBudget, bytes |-> ByteBudget,
     progress |-> FALSE, wait |-> {}, continuation |-> FALSE, exhausted |-> FALSE]

Turns == [events : 0 .. EventBudget, steps : 0 .. StepBudget, bytes : 0 .. ByteBudget,
          progress : BOOLEAN, wait : SUBSET Waits, continuation : BOOLEAN,
          exhausted : BOOLEAN]

DriveTypeOK ==
    /\ turn \in Turns
    /\ slot \in Slots
    /\ {inbound, room} \subseteq 0 .. MaxPending
    /\ queue \in Seq(1 .. ReadCapacity) /\ Len(queue) <= QueueCapacity
    /\ free \in 0 .. BufferCount
    /\ moved \in [bytes : Nat, steps : Nat]
    /\ {lost, refused} \subseteq BOOLEAN

-----------------------------------------------------------------------------
\* The budget and the report.
CanContinue(t) == t.events > 0 /\ t.steps > 0 /\ t.bytes > 0
CanEmitEvent(t) == t.events > 0 /\ t.bytes > 0

Exhaust(t) == [t EXCEPT !.exhausted = TRUE]
WaitFor(t, w) == [t EXCEPT !.wait = @ \cup {w}]
WaitForLocalBuffer(t) == [t EXCEPT !.wait = @ \cup {"local_buffer"}, !.continuation = TRUE]
StateChanged(t) == [t EXCEPT !.progress = TRUE]
Step(t) == [t EXCEPT !.steps = @ - 1]

\* consume_bytes_or_exhausted: every operation costs at least one byte.
SpendBytes(t, n) ==
    LET b == Minus(t.bytes, MostOf(n, 1))
        u == [t EXCEPT !.bytes = b, !.progress = TRUE]
    IN  IF CanContinue(u) THEN u ELSE Exhaust(u)

\* event_or_exhausted, asked for after the frame has already moved.
SpendEvent(t, n) ==
    IF CanEmitEvent(t)
    THEN [t EXCEPT !.events = @ - 1, !.bytes = Minus(@, MostOf(n, 1)), !.progress = TRUE]
    ELSE Exhaust(t)

\* Mutant: any operation may start while the budget is not used up.
WholeItemFitsAnyhow(t, n) == CanContinue(t)

\* start_whole_item_operation: an item that is never split is only started when
\* all of it fits in the rest of the byte budget.
WholeItemFits(t, n) == n <= t.bytes /\ CanContinue(t)

\* protocol_chunk: a step, and as many bytes as the budget still allows.
Chunk(t, n) == LeastOf(n, t.bytes)

Started(n) == moved' = [bytes |-> moved.bytes + n, steps |-> moved.steps + 1]

\* An operation that stops before it starts, and one that was started and blocked.
Refuse(t) ==
    /\ turn' = t /\ refused' = TRUE
    /\ UNCHANGED <<slot, inbound, room, queue, free, moved, lost>>
Blocked(t, s) ==
    /\ turn' = t /\ refused' = TRUE /\ slot' = s /\ Started(0)
    /\ UNCHANGED <<inbound, room, queue, free, lost>>

\* n bytes move into a buffer, or out of the buffer at the front of the queue,
\* which is released when nothing of it is left.
Take(n) ==
    /\ inbound' = inbound - n /\ free' = free - 1 /\ Started(n)
    /\ UNCHANGED <<slot, room, queue, refused>>
Give(n) ==
    /\ room' = room - n /\ Started(n)
    /\ IF n = Head(queue) THEN queue' = Tail(queue) /\ free' = free + 1
                          ELSE queue' = [queue EXCEPT ![1] = @ - n] /\ UNCHANGED free
    /\ UNCHANGED <<slot, inbound, refused>>
-----------------------------------------------------------------------------
\* read_stream_ready: the slot, the bytes left, a buffer, then a step.
ReadStream ==
    \/ ~CanRead(slot) /\ Refuse(WaitFor(turn, "reactor_read"))
    \/ CanRead(slot) /\ turn.bytes = 0 /\ Refuse(Exhaust(turn))
    \/ CanRead(slot) /\ turn.bytes > 0 /\ free = 0 /\ Refuse(WaitForLocalBuffer(turn))
    \/ CanRead(slot) /\ turn.bytes > 0 /\ free > 0 /\ ~CanContinue(turn) /\ Refuse(Exhaust(turn))
    \/ /\ CanRead(slot) /\ free > 0 /\ CanContinue(turn) /\ inbound = 0
       /\ Blocked(WaitFor(Step(turn), "reactor_read"), ClearReadAfterWouldBlock(slot))
    \/ /\ CanRead(slot) /\ free > 0 /\ CanContinue(turn)
       /\ \E n \in 1 .. LeastOf(inbound, LeastOf(ReadCapacity, turn.bytes)) :
            turn' = SpendBytes(Step(turn), n) /\ Take(n)
       /\ UNCHANGED lost

\* recv_smoltcp_tcp: the guest's side of a stream, which is asked directly.
RecvSmoltcp ==
    /\ inbound > 0
    /\ \/ ~CanContinue(turn) /\ Refuse(Exhaust(turn))
       \/ CanContinue(turn) /\ free = 0 /\ Refuse(WaitForLocalBuffer(turn))
       \/ /\ CanContinue(turn) /\ free > 0
          /\ LET n == LeastOf(inbound, LeastOf(ReadCapacity, turn.bytes))
             IN  turn' = SpendBytes(Step(turn), n) /\ Take(n)
          /\ UNCHANGED lost

\* One round of the loop of write_stream_queue_ready: a short write leaves the rest
\* of the buffer at the front of the queue.
WriteStreamQueue ==
    /\ queue # <<>>
    /\ \/ ~CanWrite(slot) /\ Refuse(WaitFor(turn, "reactor_write"))
       \/ CanWrite(slot) /\ ~CanContinue(turn) /\ Refuse(Exhaust(turn))
       \/ /\ CanWrite(slot) /\ CanContinue(turn) /\ room = 0
          /\ Blocked(WaitFor(Step(turn), "reactor_write"), ClearWriteAfterWouldBlock(slot))
       \/ /\ CanWrite(slot) /\ CanContinue(turn)
          /\ \E n \in 1 .. LeastOf(room, LeastOf(Head(queue), turn.bytes)) :
               turn' = SpendBytes(Step(turn), n) /\ Give(n)
          /\ UNCHANGED lost

\* One round of send_smoltcp_tcp_queue: without room in the guest's socket no step
\* is spent.
SendSmoltcpQueue ==
    /\ queue # <<>>
    /\ \/ room = 0 /\ Refuse(WaitFor(turn, "guest_send"))
       \/ room > 0 /\ ~CanContinue(turn) /\ Refuse(Exhaust(turn))
       \/ /\ CanContinue(turn)
          /\ \E n \in 1 .. LeastOf(room, LeastOf(Head(queue), turn.bytes)) :
               turn' = SpendBytes(Step(turn), n) /\ Give(n)
          /\ UNCHANGED lost

\* recv_datagram_ready and recv_datagram_from_ready: the whole receive buffer must
\* fit in the byte budget before the socket is asked, so no datagram is cut short.
RecvDatagram ==
    \/ ~CanRead(slot) /\ Refuse(WaitFor(turn, "reactor_read"))
    \/ CanRead(slot) /\ ~WholeItemFits(turn, ReadCapacity) /\ Refuse(Exhaust(turn))
    \/ /\ CanRead(slot) /\ WholeItemFits(turn, ReadCapacity) /\ free = 0
       /\ Blocked(WaitForLocalBuffer(Step(turn)), slot)
    \/ /\ CanRead(slot) /\ WholeItemFits(turn, ReadCapacity) /\ free > 0 /\ inbound = 0
       /\ Blocked(WaitFor(Step(turn), "reactor_read"), ClearReadAfterWouldBlock(slot))
    \/ /\ CanRead(slot) /\ WholeItemFits(turn, ReadCapacity) /\ free > 0
       /\ \E n \in 1 .. LeastOf(inbound, ReadCapacity) :
            turn' = SpendBytes(Step(turn), n) /\ Take(n)
       /\ UNCHANGED lost

\* send_datagram_ready and send_datagram_to_ready: all of it or nothing.
SendDatagram ==
    /\ queue # <<>>
    /\ LET n == Head(queue)
       IN \/ ~CanWrite(slot) /\ Refuse(WaitFor(turn, "reactor_write"))
          \/ CanWrite(slot) /\ ~WholeItemFits(turn, n) /\ Refuse(Exhaust(turn))
          \/ /\ CanWrite(slot) /\ WholeItemFits(turn, n) /\ room < n
             /\ Blocked(WaitFor(Step(turn), "reactor_write"), ClearWriteAfterWouldBlock(slot))
          \/ /\ CanWrite(slot) /\ WholeItemFits(turn, n) /\ room >= n
             /\ turn' = SpendBytes(Step(turn), n) /\ Give(n) /\ UNCHANGED lost

\* transport_read_ready and transport_write_ready (TLS records): the protocol may
\* also move nothing without blocking.
TransportRead ==
    \/ ~CanRead(slot) /\ Refuse(WaitFor(turn, "reactor_read"))
    \/ CanRead(slot) /\ ~CanContinue(turn) /\ Refuse(Exhaust(turn))
    \/ /\ CanRead(slot) /\ CanContinue(turn) /\ inbound = 0
       /\ Blocked(WaitFor(Step(turn), "reactor_read"), ClearReadAfterWouldBlock(slot))
    \/ /\ CanRead(slot) /\ CanContinue(turn)
       /\ \E n \in 0 .. Chunk(turn, inbound) :
            /\ turn' = IF n = 0 THEN Step(turn) ELSE SpendBytes(Step(turn), n)
            /\ inbound' = inbound - n /\ Started(n)
       /\ UNCHANGED <<slot, room, queue, free, lost, refused>>

TransportWrite ==
    \/ ~CanWrite(slot) /\ Refuse(WaitFor(turn, "reactor_write"))
    \/ CanWrite(slot) /\ ~CanContinue(turn) /\ Refuse(Exhaust(turn))
    \/ /\ CanWrite(slot) /\ CanContinue(turn) /\ room = 0
       /\ Blocked(WaitFor(Step(turn), "reactor_write"), ClearWriteAfterWouldBlock(slot))
    \/ /\ CanWrite(slot) /\ CanContinue(turn)
       /\ \E n \in 0 .. Chunk(turn, room) :
            /\ turn' = IF n = 0 THEN Step(turn) ELSE SpendBytes(Step(turn), n)
            /\ room' = room - n /\ Started(n)
       /\ UNCHANGED <<slot, inbound, queue, free, lost, refused>>
-----------------------------------------------------------------------------
FrameAdmitted(n) == CanEmitEvent(turn) /\ WholeItemFits(turn, n)

\* read_guest_frame: one whole frame and one event; the event is charged after the
\* frame has been read, and a refusal there would drop it.
ReadGuestFrame ==
    \/ ~FrameAdmitted(ReadCapacity) /\ Refuse(Exhaust(turn))
    \/ FrameAdmitted(ReadCapacity) /\ free = 0 /\ Blocked(WaitForLocalBuffer(Step(turn)), slot)
    \/ /\ FrameAdmitted(ReadCapacity) /\ free > 0 /\ inbound = 0
       /\ Blocked(WaitFor(Step(turn), "guest_recv"), slot)
    \/ /\ FrameAdmitted(ReadCapacity) /\ free > 0
       /\ \E n \in 1 .. LeastOf(inbound, ReadCapacity) :
            turn' = SpendEvent(Step(turn), n) /\ Take(n)
       /\ lost' = (lost \/ ~CanEmitEvent(Step(turn)))

\* write_guest_frame: the frame leaves first, then its event is charged; a refusal
\* there would leave a frame queued that the guest already has.
WriteGuestFrame ==
    /\ queue # <<>>
    /\ LET n == Head(queue)
       IN \/ ~FrameAdmitted(n) /\ Refuse(Exhaust(turn))
          \/ FrameAdmitted(n) /\ room < n /\ Blocked(WaitFor(Step(turn), "guest_send"), slot)
          \/ /\ FrameAdmitted(n) /\ room >= n
             /\ turn' = SpendEvent(Step(turn), n) /\ Give(n)
             /\ lost' = (lost \/ ~CanEmitEvent(Step(turn)))

Queued(n) ==
    /\ turn' = SpendBytes(Step(turn), n)
    /\ queue' = Append(queue, n) /\ free' = free - 1 /\ Started(n)
    /\ UNCHANGED <<slot, room, lost, refused>>

\* enqueue_guest_frame: a frame built in a buffer is queued while there is room.
EnqueueGuestFrame(n) ==
    /\ free > 0
    /\ \/ Len(queue) >= QueueCapacity /\ Refuse(WaitFor(turn, "guest_send"))
       \/ Len(queue) < QueueCapacity /\ ~WholeItemFits(turn, n) /\ Refuse(Exhaust(turn))
       \/ /\ Len(queue) < QueueCapacity /\ WholeItemFits(turn, n)
          /\ Queued(n) /\ UNCHANGED inbound

\* take_protocol_output and queue_protocol_output: the step is spent before the
\* buffer is asked for; the protocol output waiting is the inbound amount.
QueueProtocolOutput ==
    /\ inbound > 0 /\ Len(queue) < QueueCapacity
    /\ \/ ~CanContinue(turn) /\ Refuse(Exhaust(turn))
       \/ CanContinue(turn) /\ free = 0 /\ Blocked(WaitFor(Step(turn), "local_buffer"), slot)
       \/ /\ CanContinue(turn) /\ free > 0
          /\ LET n == Chunk(turn, LeastOf(inbound, ReadCapacity))
             IN  Queued(n) /\ inbound' = inbound - n

\* apply_state_change, apply_component_output and push_component_output: a step,
\* no bytes.  The last one waits first when the queue of the component is full.
ApplyStateChange ==
    \/ Refuse(WaitFor(turn, "local_buffer"))
    \/ ~CanContinue(turn) /\ Refuse(Exhaust(turn))
    \/ /\ CanContinue(turn)
       /\ turn' = StateChanged(Step(turn)) /\ Started(0)
       /\ UNCHANGED <<slot, inbound, room, queue, free, lost, refused>>

\* push_event: an event and a step, even when the bytes are spent.
PushEvent ==
    \/ (turn.events = 0 \/ turn.steps = 0) /\ Refuse(Exhaust(turn))
    \/ /\ turn.events > 0 /\ turn.steps > 0
       /\ turn' = StateChanged([Step(turn) EXCEPT !.events = @ - 1]) /\ Started(0)
       /\ UNCHANGED <<slot, inbound, room, queue, free, lost, refused>>

-----------------------------------------------------------------------------
\* drive_once gives each of its two phases a new budget and a new report.
NewTurn ==
    /\ turn' = FreshTurn
    /\ moved' = [bytes |-> 0, steps |-> 0]
    /\ refused' = FALSE
    /\ UNCHANGED <<slot, inbound, room, queue, free, lost>>

\* The outside: bytes arrive, room appears, readiness is reported, and a consumer
\* drops a buffer it was given.
External ==
    /\ \/ inbound < MaxPending /\ inbound' = inbound + 1 /\ UNCHANGED <<room, free, slot>>
       \/ room < MaxPending /\ room' = room + 1 /\ UNCHANGED <<inbound, free, slot>>
       \/ free + Len(queue) < BufferCount /\ free' = free + 1 /\ UNCHANGED <<inbound, room, slot>>
       \/ slot' = MarkReady(slot, TRUE, TRUE) /\ UNCHANGED <<inbound, room, free>>
    /\ UNCHANGED <<turn, queue, moved, lost, refused>>

DriveInit ==
    /\ turn = FreshTurn
    /\ slot = Registered("ReadWrite", TRUE)
    /\ inbound = 0 /\ room = 0 /\ queue = <<>>
    /\ free = BufferCount
    /\ moved = [bytes |-> 0, steps |-> 0]
    /\ lost = FALSE /\ refused = FALSE

DriveNext ==
    \/ ReadStream \/ RecvSmoltcp \/ WriteStreamQueue \/ SendSmoltcpQueue
    \/ RecvDatagram \/ SendDatagram
    \/ TransportRead \/ TransportWrite
    \/ ReadGuestFrame \/ WriteGuestFrame
    \/ \E n \in 1 .. ReadCapacity : EnqueueGuestFrame(n)
    \/ QueueProtocolOutput \/ ApplyStateChange \/ PushEvent
    \/ NewTurn \/ External

DriveSpec == DriveInit /\ [][DriveNext]_driveVars

-----------------------------------------------------------------------------
\* Whenever an operation stops with work left, the report says why: the budget
\* ran out, or a wait is recorded.  The event loop decides from the report alone
\* whether it may block in the reactor, so an unexplained stop would put a path
\* with work to sleep.
StopIsExplained ==
    /\ refused => turn.exhausted \/ turn.wait # {}
    /\ turn.continuation => "local_buffer" \in turn.wait

\* One turn never moves more bytes or starts more operations than its budget, and
\* no frame is read from the guest, or sent to it, that the budget then refuses to
\* account for (it would be dropped, or sent twice).
TurnIsBounded ==
    /\ moved.bytes + turn.bytes <= ByteBudget
    /\ moved.steps + turn.steps <= StepBudget
    /\ ~lost

\* What the event loop may believe of a turn of drive.rs: it keeps to its budget, and its
\* report explains every stop.
TurnHonest == TurnIsBounded /\ StopIsExplained
=============================================================================
