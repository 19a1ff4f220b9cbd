----------------------------- MODULE TcpEgress ------------------------------
(***************************************************************************)
(* One TCP connection of the guest to the outside                          *)
(* (agentdp-network/src/egress/tcp/mod.rs and plain.rs): the slot that     *)
(* holds the guest's socket, the proxy towards the upstream, and the pass  *)
(* that moves bytes between them.  A pass stops anywhere when the budget   *)
(* is used up; the next one only looks at the slot when it is runnable.    *)
(* The guest, the upstream and the selector are external.  One chunk of    *)
(* bytes stands for a stream's next bytes.                                 *)
(***************************************************************************)
EXTENDS Naturals, Sequences, IoSlot

CONSTANT MaxChunk   \* bound: chunks each side sends

VARIABLES
    pass,     \* where the pass over the slot is, "idle" between passes
    spent,    \* the pass has used some of the budget it was started with
    entry,    \* TcpProxyEntry: the slot
    proxy,    \* PlainTcpProxy
    tcpIo,    \* the slot state of the upstream stream
    kept,     \* pending_events: a terminal event waits for the budget
    sock,     \* the guest's socket
    ups,      \* external: the upstream
    edge,     \* selector: directions with an edge not yet reported
    count     \* history: chunks that crossed each boundary

tcpVars == <<pass, spent, entry, proxy, tcpIo, kept, sock, ups, edge, count>>

FreeEntry == [state |-> "free", masked |-> FALSE, toGuest |-> 0, guestWriteClosed |-> FALSE, proxyClosed |-> FALSE]
NoProxy == [state |-> "none", pending |-> 0, polls |-> <<>>, guestFinished |-> FALSE, close |-> FALSE,
            connectReady |-> FALSE, upFinished |-> FALSE]
NoSocket == [active |-> FALSE, recv |-> 0, fin |-> FALSE, room |-> FALSE, maySend |-> FALSE]
NoUpstream == [connected |-> "no", data |-> 0, eof |-> FALSE, room |-> FALSE]
NoCount == [fromGuest |-> 0, toUp |-> 0, fromUp |-> 0, toGuest |-> 0, upSent |-> 0, guestSent |-> 0]

TcpTypeOK ==
    /\ pass \in {"idle", "recv", "finish", "close", "inactive", "proxy", "proxyLast"}
    /\ entry \in [state : {"free", "listening", "active"}, masked : BOOLEAN, toGuest : 0 .. MaxChunk,
                  guestWriteClosed : BOOLEAN, proxyClosed : BOOLEAN]
    /\ proxy.state \in {"none", "connecting", "open", "failed"} /\ proxy.pending \in 0 .. MaxChunk
    /\ tcpIo \in Slots
    /\ {kept, spent} \subseteq BOOLEAN
    /\ edge \subseteq {"r", "w"}

TcpInit ==
    /\ pass = "idle" /\ spent = FALSE /\ entry = FreeEntry /\ proxy = NoProxy /\ tcpIo = Cleared /\ kept = FALSE
    /\ sock = NoSocket /\ ups = NoUpstream /\ edge = {} /\ count = NoCount

\* Every step of a pass goes on to the next one; the budget it used stays used.
Goto(label, used) == pass' = label /\ spent' = (label # "idle" /\ (spent \/ used))
HasProxy == proxy.state # "none"
MaySend == sock.maySend /\ sock.active
CanSend == MaySend /\ sock.room
CloseWait == sock.active /\ sock.fin
-----------------------------------------------------------------------------
\* has_local_work and has_reactor_write_work of the plain proxy.
UpstreamWritePending ==
    proxy.pending > 0 \/ (proxy.guestFinished /\ ~proxy.upFinished)
HasLocalWork ==
    \/ proxy.close \/ proxy.state = "failed"
    \/ proxy.polls # <<>> /\ (proxy.polls[1] = "event" \/ CanSend)
    \/ /\ proxy.polls = <<>> /\ proxy.state = "open" /\ UpstreamWritePending
       /\ ~Writes(tcpIo.interest) \/ CanWrite(tcpIo)
HasReactorWriteWork ==
    proxy.state = "connecting" \/ (proxy.state = "open" /\ UpstreamWritePending)

\* Mutant: the end of the guest's stream alone does not make a slot runnable.
RunnableIgnoringFin ==
    /\ entry.state = "active"
    /\ \/ ~HasProxy /\ ((entry.proxyClosed /\ MaySend) \/ ~sock.active \/ (entry.toGuest > 0 /\ CanSend))
       \/ HasProxy /\ \/ sock.recv > 0 \/ ~sock.active
                      \/ entry.toGuest > 0 /\ CanSend
                      \/ entry.masked /\ entry.toGuest = 0 /\ CanSend
                      \/ ~entry.masked /\ CanRead(tcpIo)
                      \/ CanWrite(tcpIo) /\ HasReactorWriteWork
                      \/ HasLocalWork

\* TcpProxyEntry::is_runnable.
Runnable ==
    /\ entry.state = "active"
    /\ \/ ~HasProxy /\ ((entry.proxyClosed /\ MaySend) \/ ~sock.active \/ (entry.toGuest > 0 /\ CanSend))
       \/ HasProxy /\ \/ sock.recv > 0
                      \/ CloseWait /\ sock.recv = 0 /\ ~entry.guestWriteClosed
                      \/ ~sock.active
                      \/ entry.toGuest > 0 /\ CanSend
                      \/ entry.masked /\ entry.toGuest = 0 /\ CanSend
                      \/ ~entry.masked /\ CanRead(tcpIo)
                      \/ CanWrite(tcpIo) /\ HasReactorWriteWork
                      \/ HasLocalWork

\* Changing the interest of the upstream stream; a source that was disabled is
\* added to the selector again, which reports what is ready.
UpReady == (IF ups.data > 0 \/ ups.eof \/ ups.connected = "failed" THEN {"r"} ELSE {})
           \cup (IF ups.room \/ ups.connected = "failed" THEN {"w"} ELSE {})
Wanted(interest) == (IF Reads(interest) THEN {"r"} ELSE {}) \cup (IF Writes(interest) THEN {"w"} ELSE {})
Reregister(interest) ==
    /\ tcpIo' = SetInterest(tcpIo, interest)
    /\ edge' = (edge \cap Wanted(interest))
               \cup (IF tcpIo.interest = "Disabled" THEN UpReady \cap Wanted(interest) ELSE {})
-----------------------------------------------------------------------------
\* listen: the guest's first segment takes a slot and an idle socket.
Listen ==
    /\ pass = "idle" /\ entry.state = "free" /\ count = NoCount
    /\ entry' = [FreeEntry EXCEPT !.state = "listening"]
    /\ UNCHANGED <<pass, spent, proxy, tcpIo, kept, sock, ups, edge, count>>

\* activate_guest_connections: the connect may fail at once.
Activate ==
    /\ pass = "idle" /\ entry.state = "listening" /\ sock.active
    /\ entry' = [entry EXCEPT !.state = "active"]
    /\ \/ /\ proxy' = [NoProxy EXCEPT !.state = "connecting"]
          /\ tcpIo' = Registered("ReadWrite", TRUE)
       \/ /\ proxy' = [NoProxy EXCEPT !.state = "failed", !.polls = <<"event">>]
          /\ UNCHANGED tcpIo
    /\ UNCHANGED <<pass, spent, kept, sock, ups, edge, count>>

\* drive_gateway: events that were kept come first.
StartPass ==
    /\ pass = "idle" /\ ~kept /\ Runnable
    /\ Goto("recv", FALSE)
    /\ UNCHANGED <<entry, proxy, tcpIo, kept, sock, ups, edge, count>>

\* The changes of state the head of a pass makes.
GuestHasFinished == CloseWait /\ sock.recv = 0 /\ ~entry.guestWriteClosed
GuestToClose == entry.proxyClosed /\ entry.toGuest = 0 /\ MaySend

\* A pass is started with some budget left; a change the head has to make may find
\* it used up, and the pass returns.  In drive_proxy the loop ends (EndOfDrive).
Exhausted ==
    /\ spent /\ Goto("idle", FALSE)
    /\ \/ pass = "finish" /\ GuestHasFinished
       \/ pass = "close" /\ GuestToClose
       \/ pass = "inactive" /\ ~sock.active
    /\ UNCHANGED <<entry, proxy, tcpIo, kept, sock, ups, edge, count>>

\* send_smoltcp_tcp_queue.
SendToGuest(e, c) ==
    IF CanSend THEN [e |-> [e EXCEPT !.toGuest = 0], c |-> [c EXCEPT !.toGuest = @ + e.toGuest]]
               ELSE [e |-> e, c |-> c]

\* The head of drive_proxy_entry: guest bytes go to the proxy, which may refuse
\* them, queued bytes to the guest, and reads of the upstream are masked while
\* the guest takes no more.  Once bytes were taken the budget may not reach for the send.
RecvAndSend ==
    /\ pass = "recv"
    /\ \E sends \in BOOLEAN :
       LET taken == IF HasProxy THEN sock.recv ELSE 0
           received == [count EXCEPT !.fromGuest = @ + taken]
           moved == IF sends THEN SendToGuest(entry, received) ELSE [e |-> entry, c |-> received]
           permitAll == moved.e.toGuest = 0 /\ CanSend
       IN  /\ sends \/ taken > 0
           /\ sock' = [sock EXCEPT !.recv = @ - taken]
           /\ \/ proxy' = [proxy EXCEPT !.pending = @ + taken] /\ count' = moved.c
              \/ /\ taken > 0 /\ proxy.state = "open"
                 /\ proxy' = [proxy EXCEPT !.polls = Append(@, "event")]
                 /\ count' = [moved.c EXCEPT !.fromGuest = count.fromGuest]
           /\ entry' = [moved.e EXCEPT !.masked = ~permitAll /\ HasProxy]
    /\ Goto("finish", proxy' # proxy \/ count' # count)
    /\ UNCHANGED <<tcpIo, kept, ups, edge>>

FinishGuestWrite ==
    /\ pass = "finish"
    /\ IF GuestHasFinished
       THEN /\ entry' = [entry EXCEPT !.guestWriteClosed = TRUE]
            /\ proxy' = IF HasProxy THEN [proxy EXCEPT !.guestFinished = TRUE] ELSE proxy
       ELSE UNCHANGED <<entry, proxy>>
    /\ Goto("close", entry' # entry)
    /\ UNCHANGED <<tcpIo, kept, sock, ups, edge, count>>

CloseGuest ==
    /\ pass = "close"
    /\ sock' = IF GuestToClose THEN [sock EXCEPT !.maySend = FALSE] ELSE sock
    /\ Goto("inactive", sock' # sock)
    /\ UNCHANGED <<entry, proxy, tcpIo, kept, ups, edge, count>>

InactiveSocket ==
    /\ pass = "inactive"
    /\ IF sock.active THEN Goto("proxy", FALSE) /\ UNCHANGED proxy
       ELSE Goto("proxyLast", TRUE) /\ proxy' = IF HasProxy THEN [proxy EXCEPT !.close = TRUE] ELSE proxy
    /\ UNCHANGED <<entry, tcpIo, kept, sock, ups, edge, count>>
-----------------------------------------------------------------------------
\* Mutant: the guest's socket is closed with bytes still queued for it.
DropProxyAtOnce ==
    /\ proxy' = NoProxy /\ tcpIo' = Cleared /\ edge' = {}
    /\ entry' = [entry EXCEPT !.proxyClosed = TRUE]
    /\ sock' = [sock EXCEPT !.maySend = FALSE]
    /\ UNCHANGED count

\* remove_proxy and close_guest.
DropProxy ==
    /\ proxy' = NoProxy /\ tcpIo' = Cleared /\ edge' = {}
    /\ LET moved == SendToGuest([entry EXCEPT !.proxyClosed = TRUE], count)
       IN  /\ entry' = moved.e /\ count' = moved.c
           /\ sock' = IF moved.e.toGuest = 0 /\ MaySend THEN [sock EXCEPT !.maySend = FALSE] ELSE sock

\* A terminal event is emitted, or kept when the budget has none left; then the
\* slot of an inactive socket is freed in either case.
Terminal ==
    /\ IF pass = "proxyLast"
       THEN /\ entry' = FreeEntry /\ proxy' = NoProxy /\ tcpIo' = Cleared /\ sock' = NoSocket /\ edge' = {}
            /\ kept' \in BOOLEAN /\ UNCHANGED count
       ELSE \/ DropProxy /\ UNCHANGED kept
            \/ kept' = TRUE /\ UNCHANGED <<entry, proxy, tcpIo, sock, edge, count>>
    /\ Goto("idle", FALSE) /\ UNCHANGED ups

EmitKept ==
    /\ pass = "idle" /\ kept /\ kept' = FALSE
    /\ IF HasProxy THEN DropProxy ELSE UNCHANGED <<entry, proxy, tcpIo, sock, edge, count>>
    /\ UNCHANGED <<pass, spent, ups>>

InDrive == pass \in {"proxy", "proxyLast"} /\ HasProxy
\* The permit of the pass, and what its loop still looks at before a read.
ReadPermit == ~entry.masked
MayRead == ReadPermit /\ entry.toGuest = 0 /\ CanSend
NoPollDue == proxy.polls = <<>> \/ (proxy.polls = <<"bytes">> /\ ~ReadPermit)

\* PlainTcpProxy::drive.  Bytes that came before the stream was open are looked at
\* by the route when it opens, which may refuse them.
DrivePoll ==
    /\ InDrive /\ proxy.polls # <<>>
    /\ \/ proxy.polls[1] = "event" /\ Terminal
       \/ /\ proxy.polls[1] = "bytes" /\ MayRead
          /\ proxy' = [proxy EXCEPT !.polls = Tail(@)]
          /\ entry' = [entry EXCEPT !.toGuest = @ + 1]
          /\ Goto(pass, TRUE) /\ UNCHANGED <<tcpIo, kept, sock, ups, edge, count>>

DriveConnecting ==
    /\ InDrive /\ proxy.polls = <<>> /\ proxy.state = "connecting"
    /\ \/ proxy.close /\ Terminal
       \/ ~proxy.close /\ proxy.connectReady /\ ups.connected # "yes" /\ Terminal
       \/ /\ ~proxy.close /\ proxy.connectReady /\ ups.connected = "yes"
          /\ Reregister("Readable")
          /\ \/ proxy' = [proxy EXCEPT !.state = "open"] /\ UNCHANGED count
             \/ /\ proxy.pending > 0
                /\ proxy' = [proxy EXCEPT !.state = "open", !.pending = 0, !.polls = <<"event">>]
                /\ count' = [count EXCEPT !.fromGuest = 0]
          /\ Goto(pass, TRUE) /\ UNCHANGED <<entry, kept, sock, ups>>

\* One round of drive_open: the queue towards the upstream, the interest, the end
\* of the guest's stream, then one read if the guest has room for it.
Written == IF CanWrite(tcpIo) /\ ups.room THEN proxy.pending ELSE 0
Settled ==
    /\ Written = 0 /\ ~(proxy.pending > 0 /\ CanWrite(tcpIo))
    /\ ~(proxy.guestFinished /\ proxy.pending = 0 /\ ~proxy.upFinished)
    /\ Reads(tcpIo.interest) = ReadPermit /\ Writes(tcpIo.interest) = (proxy.pending > 0)
WriteUpstream ==
    /\ InDrive /\ proxy.state = "open"
    /\ NoPollDue
    /\ LET left == proxy.pending - Written
           io == IF left > 0 /\ CanWrite(tcpIo) THEN ClearWriteAfterWouldBlock(tcpIo) ELSE tcpIo
           interest == IF ReadPermit THEN (IF left > 0 THEN "ReadWrite" ELSE "Readable")
                                  ELSE (IF left > 0 THEN "Writable" ELSE "Disabled")
           finish == proxy.guestFinished /\ left = 0
       IN  /\ ~Settled
           /\ tcpIo' = SetInterest(io, interest)
           /\ edge' = (edge \cap Wanted(interest))
                      \cup (IF tcpIo.interest = "Disabled" THEN UpReady \cap Wanted(interest) ELSE {})
           /\ proxy' = [proxy EXCEPT !.pending = left, !.upFinished = @ \/ finish]
           /\ count' = [count EXCEPT !.toUp = @ + Written]
    /\ Goto(pass, Written > 0) /\ UNCHANGED <<entry, kept, sock, ups>>

CloseOrFail ==
    /\ InDrive /\ proxy.state = "open" /\ NoPollDue
    /\ \/ Settled /\ proxy.close /\ proxy.pending = 0
       \/ Settled /\ ups.connected = "failed" /\ MayRead /\ CanRead(tcpIo) /\ proxy.polls = <<>>
       \/ ups.connected = "failed" /\ proxy.pending > 0 /\ CanWrite(tcpIo)
       \/ ups.connected = "failed" /\ proxy.pending = 0 /\ proxy.guestFinished /\ ~proxy.upFinished
    /\ Terminal

\* try_read, with the DNS route that reports a resolution first and keeps the bytes.
ReadUpstream ==
    /\ InDrive /\ proxy.state = "open" /\ proxy.polls = <<>> /\ Settled /\ MayRead /\ CanRead(tcpIo)
    /\ ~(proxy.close /\ proxy.pending = 0)
    /\ \/ /\ ups.data > 0
          /\ ups' = [ups EXCEPT !.data = @ - 1] /\ count' = [count EXCEPT !.fromUp = @ + 1]
          /\ \/ entry' = [entry EXCEPT !.toGuest = @ + 1] /\ UNCHANGED proxy
             \/ proxy' = [proxy EXCEPT !.polls = <<"bytes">>] /\ UNCHANGED entry
          /\ Goto(pass, TRUE) /\ UNCHANGED <<tcpIo, kept, sock, edge>>
       \/ ups.data = 0 /\ ups.eof /\ Terminal
       \/ /\ ups.data = 0 /\ ~ups.eof /\ tcpIo' = ClearReadAfterWouldBlock(tcpIo)
          /\ Goto(pass, TRUE) /\ UNCHANGED <<entry, proxy, kept, sock, ups, edge, count>>

\* After bytes were read they are offered to the guest at once.
PushToGuest ==
    /\ InDrive /\ entry.toGuest > 0 /\ CanSend
    /\ LET moved == SendToGuest(entry, count) IN entry' = moved.e /\ count' = moved.c
    /\ sock' \in {sock, [sock EXCEPT !.room = FALSE]}
    /\ Goto(pass, TRUE) /\ UNCHANGED <<proxy, tcpIo, kept, ups, edge>>

\* The end of drive_proxy: the guest took less than was read for it, or a round
\* changed nothing.  Then the slot of an inactive socket is freed.
Quiescent ==
    \/ ~HasProxy
    \/ ReadPermit /\ ~CanSend
    \/ proxy.state = "connecting" /\ proxy.polls = <<>> /\ ~proxy.close /\ ~proxy.connectReady
    \/ /\ proxy.state = "open" /\ NoPollDue /\ Settled /\ ~(proxy.close /\ proxy.pending = 0)
       /\ ~(MayRead /\ CanRead(tcpIo) /\ proxy.polls = <<>>) /\ ~(entry.toGuest > 0 /\ CanSend)
EndOfDrive ==
    /\ pass \in {"proxy", "proxyLast"} /\ Goto("idle", FALSE)
    /\ Quiescent \/ spent
    /\ IF pass = "proxyLast"
       THEN entry' = FreeEntry /\ proxy' = NoProxy /\ tcpIo' = Cleared /\ sock' = NoSocket /\ edge' = {}
       ELSE UNCHANGED <<entry, proxy, tcpIo, sock, edge>>
    /\ UNCHANGED <<kept, ups, count>>

\* retire_authorities: the secrets of the proxy's authority have changed.
Retire ==
    /\ pass = "idle" /\ HasProxy
    /\ proxy' = NoProxy /\ tcpIo' = Cleared /\ edge' = {}
    /\ entry' = [entry EXCEPT !.toGuest = 0, !.proxyClosed = TRUE]
    /\ sock' = [sock EXCEPT !.active = FALSE, !.maySend = FALSE]
    /\ UNCHANGED <<pass, spent, kept, ups, count>>
-----------------------------------------------------------------------------
\* The reactor reports an edge, between passes.
LatchReady ==
    /\ pass = "idle" /\ edge # {} /\ HasProxy
    /\ tcpIo' = MarkReady(tcpIo, "r" \in edge, "w" \in edge)
    /\ proxy' = [proxy EXCEPT !.connectReady = TRUE]
    /\ edge' = {}
    /\ UNCHANGED <<pass, spent, entry, kept, sock, ups, count>>

\* The guest: it completes the handshake, sends, takes bytes, ends its stream,
\* or resets the connection.
Guest ==
    /\ pass = "idle" /\ entry.state # "free"
    /\ \/ /\ ~sock.active /\ entry.state = "listening"
          /\ sock' = [NoSocket EXCEPT !.active = TRUE, !.maySend = TRUE, !.room = TRUE]
       \/ sock.active /\ ~sock.fin /\ count.guestSent < MaxChunk /\ sock' = [sock EXCEPT !.recv = @ + 1]
       \/ sock.active /\ sock' = [sock EXCEPT !.room = ~@]
       \/ sock.active /\ ~sock.fin /\ sock' = [sock EXCEPT !.fin = TRUE]
       \/ sock.active /\ entry.state = "active" /\ sock' = [sock EXCEPT !.active = FALSE]
    /\ count' = [count EXCEPT !.guestSent = @ + (IF sock'.recv > sock.recv THEN 1 ELSE 0)]
    /\ UNCHANGED <<pass, spent, entry, proxy, tcpIo, kept, ups, edge>>

Changed(u, d) ==
    /\ ups' = u
    /\ edge' = edge \cup (d \cap Wanted(tcpIo.interest))

Upstream ==
    /\ pass = "idle" /\ tcpIo # Cleared /\ HasProxy
    /\ \/ ups.connected = "no" /\ Changed([ups EXCEPT !.connected = "yes", !.room = TRUE], {"w"})
       \/ ups.connected # "failed" /\ Changed([ups EXCEPT !.connected = "failed"], {"r", "w"})
       \/ /\ ups.connected = "yes" /\ ~ups.eof /\ count.upSent < MaxChunk
          /\ Changed([ups EXCEPT !.data = @ + 1], {"r"})
       \/ ups.connected = "yes" /\ ~ups.eof /\ Changed([ups EXCEPT !.eof = TRUE], {"r"})
       \/ ups.connected = "yes" /\ Changed([ups EXCEPT !.room = ~@], IF ups.room THEN {} ELSE {"w"})
    /\ count' = [count EXCEPT !.upSent = @ + (ups'.data - ups.data)]
    /\ UNCHANGED <<pass, spent, entry, proxy, tcpIo, kept, sock>>

TcpNext ==
    \/ Listen \/ Activate \/ StartPass \/ Exhausted
    \/ RecvAndSend \/ FinishGuestWrite \/ CloseGuest \/ InactiveSocket
    \/ DrivePoll \/ DriveConnecting \/ WriteUpstream \/ CloseOrFail \/ ReadUpstream \/ PushToGuest
    \/ EndOfDrive \/ EmitKept \/ Retire \/ LatchReady \/ Guest \/ Upstream

TcpSpec == TcpInit /\ [][TcpNext]_tcpVars
-----------------------------------------------------------------------------
\* What there is to do for the connection beside reading, seen from outside.  Queries
\* behind a DNS response the guest has no room for are left out: has_local_work looks
\* at the response only, and they wait until the guest reads when the budget ends the pass.
WorkLeft ==
    /\ entry.state = "active" /\ ~kept
    /\ \/ ~sock.active
       \/ entry.toGuest > 0 /\ CanSend
       \/ entry.proxyClosed /\ entry.toGuest = 0 /\ MaySend
       \/ HasProxy /\ (sock.recv > 0 \/ (CloseWait /\ ~entry.guestWriteClosed))
       \/ proxy.state = "connecting" /\ ups.connected # "no"
       \/ /\ proxy.state = "open" /\ proxy.polls = <<>>
          /\ \/ proxy.pending > 0 /\ ups.room
             \/ proxy.guestFinished /\ ~proxy.upFinished /\ proxy.pending = 0

\* Bytes of the upstream, or its end, that the guest has room for.
ToRead ==
    /\ entry.state = "active" /\ ~kept /\ proxy.state = "open" /\ proxy.polls = <<>>
    /\ (ups.data > 0 \/ ups.eof) /\ entry.toGuest = 0 /\ CanSend

\* The one state in which a wake-up is lost: the head of a pass lifted the mask, and the
\* budget ended the pass before drive_open asked for reads again.  The slot is no longer
\* masked, which is_runnable would look at, and nobody reports the upstream's bytes.
Stranded == ~entry.masked /\ ~Reads(tcpIo.interest) /\ ~CanRead(tcpIo)

\* However the budget cuts a pass short, a connection with something to do is looked at
\* by the next pass, or an edge that makes it so is on its way.  Bytes or the end of the
\* upstream's stream count as something to do unless the slot is stranded.
NotForgotten == pass = "idle" /\ (WorkLeft \/ (ToRead /\ ~Stranded)) => Runnable \/ edge # {}

\* Bytes are not lost on the way: the upstream's end of stream is only announced
\* when all the guest sent has been passed on, and the guest's only when all that
\* was read from the upstream has, unless one of them has broken the connection.
StreamIntact ==
    /\ proxy.state \in {"connecting", "open"} => count.fromGuest = count.toUp + proxy.pending
    /\ proxy.upFinished => proxy.guestFinished /\ count.toUp = count.fromGuest
    /\ sock.active /\ ~sock.maySend /\ ups.connected # "failed" => count.fromUp = count.toGuest
=============================================================================
