---------------------------- MODULE GuestFrames -----------------------------
(***************************************************************************)
(* The path of a frame between QEMU and the gateway, in agentdp-network:   *)
(* the pools of buffers/pool.rs, the frame device of gateway/device.rs,    *)
(* GuestIo of guest.rs and the length-prefixed stream of                   *)
(* agentdp-qemu/src/net/stream.rs.                                         *)
(*                                                                         *)
(* Every frame, in either direction, sits in a buffer of one fixed pool.   *)
(* What is left in the pool decides who may go on: guest-bound traffic     *)
(* leaves two buffers, a read from the guest leaves one, and only the      *)
(* answer the gateway owes a frame it has already read takes the last.     *)
(*                                                                         *)
(* A turn of the event loop may run out of budget anywhere, so the steps   *)
(* below happen in any order.  QEMU is external: as pool.rs has it, it     *)
(* does not read while a write of its own is blocked.  A frame on the wire *)
(* is a length and its data; a buffer of the kernel holds WireUnits of     *)
(* them in each direction.                                                 *)
(***************************************************************************)
EXTENDS Integers, Sequences, SequencesExt

CONSTANTS
    FramePoolCapacity,   \* frame_buffer_pool_capacity; at least 3
    DeviceCapacity,      \* frame_device_queue_capacity
    OutputCapacity,      \* component_output_batch_capacity
    ByteSizes,           \* [class -> largest payload of the class]
    BytePoolCapacity,    \* buffers of each class
    MaxPayload,          \* largest datagram the guest sends
    WireUnits            \* units a kernel socket buffer holds

VARIABLES
    free,       \* FramePool: buffers left
    bytesFree,  \* BytePool: buffers left in each class
    guestIn,    \* component_events.guest: frames read and not ingested
    rx, tx,     \* the device: frames for smoltcp, frames from it
    out,        \* component_outputs.guest_frames
    udpOut,     \* component_outputs.egress_udp_sends: the class of each payload
    outbound,   \* GuestIo.outbound
    partial,    \* FrameStream: the units of a frame read so far, and left to write
    toGuest, toHost,   \* the two directions of the socket
    qemu        \* the units QEMU has still to write

pool == <<free, bytesFree>>
queues == <<guestIn, rx, tx, out, udpOut, outbound>>
wire == <<partial, toGuest, toHost, qemu>>
frameVars == <<pool, queues, wire>>

GUEST_PROGRESS_FRAME_RESERVE == 2
GATEWAY_RESPONSE_FRAME_RESERVE == 1

Units == <<"len", "data">>
Classes == DOMAIN ByteSizes

\* validate_for_event_loop
ValidLimits == FramePoolCapacity >= 3

\* BufferPool::prewarm_instance_network
Prewarmed ==
    /\ free = FramePoolCapacity
    /\ bytesFree = [c \in Classes |-> BytePoolCapacity]

\* FrameStream::connect: no part of a frame has been read or is left to write.
NewStream == [read |-> 0, write |-> <<>>]

FrameInit ==
    /\ ValidLimits
    /\ Prewarmed
    /\ guestIn = 0 /\ rx = 0
    /\ tx = <<>> /\ out = <<>> /\ udpOut = <<>> /\ outbound = <<>>
    /\ partial = NewStream
    /\ toGuest = <<>> /\ toHost = <<>> /\ qemu = <<>>

\* FramePool::try_take.  All frames are prewarmed at the largest capacity, so
\* only the reserve decides.
CanTake(reserve) == free > reserve

\* ByteClass::for_capacity: the smallest class the payload fits, if any.
ByteClass(size) ==
    {c \in Classes : size <= ByteSizes[c] /\ \A d \in Classes : size <= ByteSizes[d] => ByteSizes[c] <= ByteSizes[d]}

\* BytePool::try_take: an oversized payload has no class, an empty bucket no
\* buffer.
ByteBuffers(size) == {c \in ByteClass(size) : bytesFree[c] > 0}

\* BytePool::recycle never grows a bucket past what was prewarmed.
RecycleByte(c) == [bytesFree EXCEPT ![c] = IF @ < BytePoolCapacity THEN @ + 1 ELSE @]

-----------------------------------------------------------------------------
(* From QEMU *)

\* try_read_frame_into reads what is there of one frame, and keeps the part of
\* a frame for the next call.
TryReadFrame(whole) ==
    LET wanted == 2 - partial.read
        got == IF Len(toHost) < wanted THEN Len(toHost) ELSE wanted
    IN /\ whole = (got = wanted)
       /\ toHost' = SubSeq(toHost, got + 1, Len(toHost))
       /\ partial' = [partial EXCEPT !.read = (@ + got) % 2]

\* drain_ready_reads: a frame buffer is taken before the stream is read, and
\* dropped again when the frame is not there in full.
ReadGuestFrame ==
    /\ CanTake(GATEWAY_RESPONSE_FRAME_RESERVE)
    /\ toHost # <<>>
    /\ \/ TryReadFrame(TRUE) /\ guestIn' = guestIn + 1 /\ free' = free - 1
       \/ TryReadFrame(FALSE) /\ UNCHANGED <<guestIn, free>>
    /\ UNCHANGED <<bytesFree, rx, tx, out, udpOut, outbound, toGuest, qemu>>

\* ingest_guest_frame of a datagram: its payload is copied into a byte buffer
\* and queued for the host, or refused by the policy; a full queue leaves the
\* frame where it is.
IngestDatagram(size) ==
    /\ guestIn > 0
    /\ \E c \in ByteBuffers(size) :
         \/ /\ Len(udpOut) < OutputCapacity
            /\ udpOut' = Append(udpOut, c)
            /\ bytesFree' = [bytesFree EXCEPT ![c] = @ - 1]
         \/ UNCHANGED <<udpOut, bytesFree>>
    /\ guestIn' = guestIn - 1
    /\ free' = free + 1
    /\ UNCHANGED <<rx, tx, out, outbound, wire>>

CanReceiveFrame == rx < DeviceCapacity

\* ... of everything else, and of a datagram no byte buffer is left for, which
\* UdpDatagram::from_frame takes for something else: on to smoltcp.
IngestFrame ==
    /\ guestIn > 0
    /\ CanReceiveFrame
    /\ guestIn' = guestIn - 1
    /\ rx' = rx + 1
    /\ UNCHANGED <<pool, tx, out, udpOut, outbound, wire>>

\* FrameTxToken::consume
Transmitted(kind) == tx' = Append(tx, kind)

\* FrameDevice::receive pairs the frame with a transmit token, whose buffer may
\* be the last of the pool.  smoltcp drops the frame and answers, or not.
DeviceReceive ==
    /\ rx > 0
    /\ Len(tx) < DeviceCapacity
    /\ CanTake(0)
    /\ rx' = rx - 1
    /\ \/ Transmitted("answer") /\ UNCHANGED free
       \/ UNCHANGED tx /\ free' = free + 1
    /\ UNCHANGED <<bytesFree, guestIn, out, udpOut, outbound, wire>>

\* egress_udp sends the datagram and its payload's buffer goes back.
SendDatagram ==
    /\ udpOut # <<>>
    /\ udpOut' = Tail(udpOut)
    /\ bytesFree' = RecycleByte(Head(udpOut))
    /\ UNCHANGED <<free, guestIn, rx, tx, out, outbound, wire>>

-----------------------------------------------------------------------------
(* To QEMU *)

\* FrameDevice::transmit: a segment of a smoltcp socket.
DeviceTransmit ==
    /\ Len(tx) < DeviceCapacity
    /\ CanTake(GUEST_PROGRESS_FRAME_RESERVE)
    /\ Transmitted("traffic")
    /\ free' = free - 1
    /\ UNCHANGED <<bytesFree, guestIn, rx, out, udpOut, outbound, wire>>

\* write_udp_response and ingest_ingress_udp_datagram build a frame of their
\* own (udp_frame); without a buffer or room the datagram waits.
WriteUdp ==
    /\ Len(out) < OutputCapacity
    /\ CanTake(GUEST_PROGRESS_FRAME_RESERVE)
    /\ out' = Append(out, "traffic")
    /\ free' = free - 1
    /\ UNCHANGED <<bytesFree, guestIn, rx, tx, udpOut, outbound, wire>>

\* Gateway::drain_transmitted_frames
DrainTransmitted ==
    /\ tx # <<>> /\ Len(out) < OutputCapacity
    /\ out' = Append(out, Head(tx))
    /\ tx' = Tail(tx)
    /\ UNCHANGED <<pool, guestIn, rx, udpOut, outbound, wire>>

\* Gateway::poll: frames out, one frame in, frames out.
PollGateway == DrainTransmitted \/ DeviceReceive

\* send_guest_frames and GuestIo::enqueue
EnqueueFrame ==
    /\ out # <<>> /\ Len(outbound) < DeviceCapacity
    /\ outbound' = Append(outbound, Head(out))
    /\ out' = Tail(out)
    /\ UNCHANGED <<pool, guestIn, rx, tx, udpOut, wire>>

\* try_write_frame: what an earlier call could not write comes first.
ToWrite == IF partial.write # <<>> THEN partial.write ELSE Units

\* flush_outbound: the frame leaves the queue when the last of it is written.
FlushFrame(n) ==
    /\ outbound # <<>>
    /\ n <= Len(ToWrite) /\ Len(toGuest) + n <= WireUnits
    /\ toGuest' = toGuest \o SubSeq(ToWrite, 1, n)
    /\ partial' = [partial EXCEPT !.write = SubSeq(ToWrite, n + 1, Len(ToWrite))]
    /\ IF n = Len(ToWrite)
       THEN outbound' = Tail(outbound) /\ free' = free + 1
       ELSE UNCHANGED <<outbound, free>>
    /\ UNCHANGED <<bytesFree, guestIn, rx, tx, out, udpOut, toHost, qemu>>

\* reset_dataplane and GuestIo's drop: the queues of the session and of the
\* gateway give their buffers back, and frames of the old session are not
\* ingested; component_outputs stay.
Reconnect ==
    /\ free' = free + guestIn + rx + Len(tx) + Len(outbound)
    /\ guestIn' = 0 /\ rx' = 0 /\ tx' = <<>> /\ outbound' = <<>>
    /\ partial' = NewStream
    /\ toGuest' = <<>> /\ toHost' = <<>> /\ qemu' = <<>>
    /\ UNCHANGED <<bytesFree, out, udpOut>>

-----------------------------------------------------------------------------
(* QEMU *)

QemuSends ==
    /\ qemu = <<>>
    /\ qemu' = Units
    /\ UNCHANGED <<pool, queues, partial, toGuest, toHost>>

QemuWrites ==
    /\ qemu # <<>> /\ Len(toHost) < WireUnits
    /\ toHost' = Append(toHost, Head(qemu))
    /\ qemu' = Tail(qemu)
    /\ UNCHANGED <<pool, queues, partial, toGuest>>

QemuReads ==
    /\ qemu = <<>> /\ toGuest # <<>>
    /\ toGuest' = Tail(toGuest)
    /\ UNCHANGED <<pool, queues, partial, toHost, qemu>>

\* What the host does by itself once traffic is there ...
HostSteps ==
    \/ ReadGuestFrame
    \/ \E size \in 1 .. MaxPayload : IngestDatagram(size)
    \/ IngestFrame \/ PollGateway \/ SendDatagram \/ EnqueueFrame
    \/ \E n \in 1 .. 2 : FlushFrame(n)

\* ... and what QEMU does.
QemuSteps == QemuSends \/ QemuWrites \/ QemuReads

FrameNext ==
    \/ HostSteps
    \/ QemuSteps
    \/ DeviceTransmit
    \/ WriteUdp
    \/ Reconnect

-----------------------------------------------------------------------------

FrameTypeOK ==
    /\ free \in 0 .. FramePoolCapacity
    /\ free + guestIn + rx + Len(tx) + Len(out) + Len(outbound) = FramePoolCapacity
    /\ \A c \in Classes : bytesFree[c] + Len(SelectSeq(udpOut, LAMBDA d : d = c)) = BytePoolCapacity
    /\ \A q \in {tx, out, outbound} : \A i \in DOMAIN q : q[i] \in {"traffic", "answer"}
    /\ {Len(toGuest), Len(toHost)} \subseteq 0 .. WireUnits

\* The stream towards QEMU is framed: lengths and data alternate however the
\* kernel cuts the writes, and what is left to write carries on where the wire
\* stops (try_write_frame, flush_pending_write).
GuestFramed ==
    /\ \A i \in 1 .. Len(toGuest) - 1 : toGuest[i] # toGuest[i + 1]
    /\ partial.write # <<>> /\ toGuest # <<>> => Head(partial.write) # Last(toGuest)
    /\ partial.write = <<>> /\ toGuest # <<>> => Last(toGuest) = "data"

\* "Guest-bound traffic must not consume this reserve or QEMU's full-duplex
\* stream can deadlock when its own writes and the host's writes are both
\* backpressured": while no answer of the gateway waits for QEMU, the host and
\* QEMU never wait on each other, whatever traffic for the guest is queued
\* (try_output_frame, try_guest_frame, try_gateway_response_frame).
NoStandstill ==
    (\A q \in {tx, out, outbound} : \A i \in DOMAIN q : q[i] # "answer")
        => ENABLED HostSteps \/ ENABLED QemuSteps
=============================================================================
