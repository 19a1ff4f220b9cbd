----------------------------- MODULE HostPorts ------------------------------
(***************************************************************************)
(* The host side of the ports an instance exposes                          *)
(* (agentdp-network/src/ingress/host_ports.rs): listeners, the connections *)
(* accepted from them, one UDP port, and the events they give the event    *)
(* loop.  The budget counts the operations a turn may still start.  The    *)
(* sockets and the peers behind them are external.  A connection limit of  *)
(* zero, which removes the listener, is left out.                          *)
(***************************************************************************)
EXTENDS Naturals, Sequences, FiniteSets

CONSTANTS
    MaxTcpConnections,  \* max_tcp_connections: the size of the table
    MaxAccepts,         \* bound: connection ids used in a behaviour
    PortBudget,         \* operations of a turn
    MaxChunks           \* bound: pieces of a stream in each direction

VARIABLES
    listening,     \* the TCP listener is registered
    nextId,        \* next_connection of the port
    conns,         \* the connection table: id -> connection
    deferred,      \* pending_events
    portBudget,    \* operations the turn may still start
    udpPending,    \* datagrams waiting for the UDP socket
    udpBound,      \* the UDP socket is registered
    udpError,      \* its pending error
    peerSent,      \* external: chunks a peer has sent and nobody has read
    toldOf,        \* history: what the event loop was told of each connection
    readTotal,     \* history: chunks read from each connection
    accepted,      \* history: chunks write_tcp took for each connection
    written        \* history: chunks the peer of each connection got

hostPortVars == <<listening, nextId, conns, deferred, portBudget, udpPending, udpBound, udpError,
                  peerSent, toldOf, readTotal, accepted, written>>
udpVars == <<udpPending, udpBound, udpError>>

ConnIds == 1 .. MaxAccepts
Open == DOMAIN conns
WriteStates == {"Open", "FinishRequested", "Finished"}
Connections == [pending : 0 .. MaxChunks, write : WriteStates, close : BOOLEAN,
                watches : BOOLEAN, error : BOOLEAN]
NewConnection == [pending |-> 0, write |-> "Open", close |-> FALSE, watches |-> FALSE, error |-> FALSE]

PortEvents == [kind : {"accepted", "bytes", "closed"}, conn : ConnIds] \cup [kind : {"udp", "error"}]
EventOf(k, c) == [kind |-> k, conn |-> c]
ErrorEvent == [kind |-> "error"]

PortsTypeOK ==
    /\ {listening, udpBound, udpError} \subseteq BOOLEAN
    /\ nextId \in 1 .. MaxAccepts + 1
    /\ Open \subseteq ConnIds /\ \A c \in Open : conns[c] \in Connections
    /\ deferred \in Seq(PortEvents)
    /\ portBudget \in 0 .. PortBudget
    /\ udpPending \in 0 .. MaxChunks
    /\ peerSent \in [ConnIds -> 0 .. MaxChunks]

PortsInit ==
    /\ listening = TRUE /\ udpBound = TRUE /\ udpError = FALSE
    /\ nextId = 1 /\ conns = <<>> /\ deferred = <<>> /\ portBudget = PortBudget
    /\ udpPending = 0
    /\ peerSent = [c \in ConnIds |-> 0]
    /\ toldOf = [c \in ConnIds |-> <<>>]
    /\ readTotal = [c \in ConnIds |-> 0]
    /\ accepted = [c \in ConnIds |-> 0] /\ written = [c \in ConnIds |-> 0]

-----------------------------------------------------------------------------
Without(c) == [d \in Open \ {c} |-> conns[d]]

\* emit_or_queue: an event that finds no budget is kept in front of the others.
EmitOrQueue(event, budget) ==
    IF budget = 0
    THEN deferred' = <<event>> \o deferred /\ portBudget' = 0 /\ UNCHANGED toldOf
    ELSE /\ portBudget' = budget - 1 /\ UNCHANGED deferred
         /\ IF event.kind \in {"udp", "error"} THEN UNCHANGED toldOf
            ELSE toldOf' = [toldOf EXCEPT ![event.conn] = Append(@, event.kind)]

\* drive_queued gives an event that was kept its turn before anything is started.
CanStart == portBudget > 0 /\ deferred = <<>>

EmitDeferred ==
    /\ deferred # <<>> /\ portBudget > 0
    /\ LET event == Head(deferred)
       IN IF event.kind \in {"udp", "error"} THEN UNCHANGED toldOf
          ELSE toldOf' = [toldOf EXCEPT ![event.conn] = Append(@, event.kind)]
    /\ deferred' = Tail(deferred) /\ portBudget' = portBudget - 1
    /\ UNCHANGED <<listening, nextId, conns, udpVars, peerSent, readTotal, accepted, written>>

\* pop_pending_error: errors of earlier writes, connections first.
PopPendingError ==
    /\ CanStart
    /\ \/ \E c \in Open : conns[c].error /\ conns' = [conns EXCEPT ![c].error = FALSE] /\ UNCHANGED udpError
       \/ /\ \A c \in Open : ~conns[c].error
          /\ udpError /\ udpError' = FALSE /\ UNCHANGED conns
    /\ EmitOrQueue(ErrorEvent, portBudget)
    /\ UNCHANGED <<listening, nextId, udpPending, udpBound, peerSent, readTotal, accepted, written>>
-----------------------------------------------------------------------------
\* drive_accepts: one connection, while the table has room.
AcceptSucceeds ==
    /\ CanStart /\ listening /\ nextId <= MaxAccepts
    /\ Cardinality(Open) < MaxTcpConnections
    /\ conns' = [d \in Open \cup {nextId} |-> IF d = nextId THEN NewConnection ELSE conns[d]]
    /\ nextId' = nextId + 1
    /\ EmitOrQueue(EventOf("accepted", nextId), portBudget)
    /\ UNCHANGED <<listening, udpVars, peerSent, readTotal, accepted, written>>

\* The accepted stream cannot be set up (the id is used up when it is the
\* registration that fails), or the listener itself fails and is given up.
AcceptFails ==
    /\ CanStart /\ listening /\ nextId <= MaxAccepts
    /\ Cardinality(Open) < MaxTcpConnections
    /\ \/ nextId' \in {nextId, nextId + 1} /\ UNCHANGED listening
       \/ listening' = FALSE /\ UNCHANGED nextId
    /\ EmitOrQueue(ErrorEvent, portBudget)
    /\ UNCHANGED <<conns, udpVars, peerSent, readTotal, accepted, written>>

\* drive_tcp_reads for one connection.  A failed connection is removed and the
\* event loop is only told that there was an error.
ReadBytes(c) ==
    /\ CanStart /\ c \in Open /\ peerSent[c] > 0
    /\ peerSent' = [peerSent EXCEPT ![c] = @ - 1]
    /\ readTotal' = [readTotal EXCEPT ![c] = @ + 1]
    /\ EmitOrQueue(EventOf("bytes", c), portBudget - 1)
    /\ UNCHANGED <<listening, nextId, conns, udpVars, accepted, written>>

ReadEnds(c) ==
    /\ CanStart /\ c \in Open
    /\ conns' = Without(c)
    /\ \/ peerSent[c] = 0 /\ EmitOrQueue(EventOf("closed", c), portBudget - 1)
       \/ EmitOrQueue(ErrorEvent, portBudget - 1)
    /\ UNCHANGED <<listening, nextId, udpVars, peerSent, readTotal, accepted, written>>

\* finish_write_if_ready.
Finish(s) == IF s.write = "FinishRequested" /\ s.pending = 0 THEN [s EXCEPT !.write = "Finished"] ELSE s

\* drive_tcp_writes for one connection: the queue is written as far as the budget
\* goes.  Once it is empty the write side is finished, the interest goes back to
\* reading and a connection to be closed is removed; both of these need a step and
\* are not done when none is left.
DriveTcpWrites(c) ==
    /\ CanStart /\ c \in Open /\ conns[c].pending > 0
    /\ \E n \in 1 .. conns[c].pending :
         LET left == portBudget - n
             s == Finish([conns[c] EXCEPT !.pending = @ - n])
         IN  /\ n <= portBudget
             /\ written' = [written EXCEPT ![c] = @ + n]
             /\ \/ /\ s.pending > 0 \/ left = 0
                   /\ conns' = [conns EXCEPT ![c] = s] /\ portBudget' = left
                \/ /\ s.pending = 0 /\ left > 0 /\ ~(s.close /\ left > 1)
                   /\ conns' = [conns EXCEPT ![c] = [s EXCEPT !.watches = FALSE]]
                   /\ portBudget' = left - 1
                \/ /\ s.pending = 0 /\ left > 1 /\ s.close
                   /\ conns' = Without(c) /\ portBudget' = left - 2
    /\ UNCHANGED <<listening, nextId, deferred, udpVars, peerSent, toldOf, readTotal, accepted>>

\* The write or the change of interest fails: the connection is removed.  When it
\* is the shutdown of the write side that fails, the connection stays.
TcpWriteFails(c) ==
    /\ CanStart /\ c \in Open /\ conns[c].pending > 0
    /\ conns' = Without(c)
    /\ EmitOrQueue(ErrorEvent, portBudget - 1)
    /\ UNCHANGED <<listening, nextId, udpVars, peerSent, readTotal, accepted, written>>

ShutdownFails(c) ==
    /\ CanStart /\ c \in Open /\ conns[c].pending \in 1 .. portBudget
    /\ conns[c].write = "FinishRequested"
    /\ conns' = [conns EXCEPT ![c].pending = 0]
    /\ written' = [written EXCEPT ![c] = @ + conns[c].pending]
    /\ EmitOrQueue(ErrorEvent, portBudget - conns[c].pending)
    /\ UNCHANGED <<listening, nextId, udpVars, peerSent, readTotal, accepted>>
-----------------------------------------------------------------------------
\* drive_udp_reads, drive_udp_writes.
ReadDatagram ==
    /\ CanStart /\ udpBound
    /\ \E e \in {[kind |-> "udp"], ErrorEvent} : EmitOrQueue(e, portBudget - 1)
    /\ UNCHANGED <<listening, nextId, conns, udpVars, peerSent, readTotal, accepted, written>>

WriteDatagram ==
    /\ CanStart /\ udpBound /\ udpPending > 0
    /\ \/ udpPending' = udpPending - 1 /\ portBudget' = portBudget - 1 /\ UNCHANGED <<udpBound, deferred, toldOf>>
       \/ udpPending' = udpPending - 1 /\ EmitOrQueue(ErrorEvent, portBudget - 1) /\ UNCHANGED udpBound
       \/ udpBound' = FALSE /\ udpPending' = 0 /\ EmitOrQueue(ErrorEvent, portBudget - 1)
    /\ UNCHANGED <<listening, nextId, conns, udpError, peerSent, readTotal, accepted, written>>

SendUdp ==
    /\ udpBound /\ udpPending < MaxChunks
    /\ \/ udpPending' = udpPending + 1 /\ UNCHANGED udpError
       \/ udpPending' = 0 /\ udpError' = TRUE
    /\ UNCHANGED <<listening, nextId, conns, deferred, portBudget, udpBound, peerSent, toldOf, readTotal,
                   accepted, written>>
-----------------------------------------------------------------------------
\* The operations of the event loop.  Bytes for a connection whose write side is
\* being finished are dropped; a failing change of interest drops what is queued.
WriteTcp(c) ==
    /\ c \in Open /\ conns[c].write = "Open" /\ accepted[c] < MaxChunks
    /\ \/ /\ conns' = [conns EXCEPT ![c].pending = @ + 1, ![c].watches = TRUE]
          /\ accepted' = [accepted EXCEPT ![c] = @ + 1]
       \/ /\ ~conns[c].watches
          /\ conns' = [conns EXCEPT ![c].pending = 0, ![c].error = TRUE] /\ UNCHANGED accepted
    /\ UNCHANGED <<listening, nextId, deferred, portBudget, udpVars, peerSent, toldOf, readTotal, written>>

\* finish_tcp_write: asked again it tries a shutdown that failed once more.
FinishTcpWrite(c) ==
    LET asked == [conns[c] EXCEPT !.write = IF @ = "Open" THEN "FinishRequested" ELSE @]
    IN  /\ c \in Open /\ asked.write = "FinishRequested"
        /\ \/ conns' = [conns EXCEPT ![c] = Finish(asked)]
           \/ asked.pending = 0 /\ conns' = [conns EXCEPT ![c] = [asked EXCEPT !.error = TRUE]]
        /\ UNCHANGED <<listening, nextId, deferred, portBudget, udpVars, peerSent, toldOf, readTotal, accepted, written>>

\* close_tcp: at once when nothing is queued, otherwise after the last write.
CloseTcp(c) ==
    /\ c \in Open /\ ~conns[c].close
    /\ conns' = IF conns[c].pending = 0 THEN Without(c) ELSE [conns EXCEPT ![c].close = TRUE]
    /\ UNCHANGED <<listening, nextId, deferred, portBudget, udpVars, peerSent, toldOf, readTotal, accepted, written>>

\* shutdown, before the ports are dropped: what was kept is not told any more.
Shutdown ==
    /\ listening \/ udpBound \/ Open # {}
    /\ listening' = FALSE /\ udpBound' = FALSE /\ conns' = <<>> /\ deferred' = <<>>
    /\ nextId' = MaxAccepts + 1 /\ udpPending' = 0
    /\ UNCHANGED <<portBudget, udpError, peerSent, toldOf, readTotal, accepted, written>>

\* The next phase of the event loop has a new budget.
NextTurn ==
    /\ portBudget < PortBudget
    /\ portBudget' = PortBudget
    /\ UNCHANGED <<listening, nextId, conns, deferred, udpVars, peerSent, toldOf, readTotal, accepted, written>>

PeerSends(c) ==
    /\ c \in Open /\ readTotal[c] + peerSent[c] < MaxChunks
    /\ peerSent' = [peerSent EXCEPT ![c] = @ + 1]
    /\ UNCHANGED <<listening, nextId, conns, deferred, portBudget, udpVars, toldOf, readTotal, accepted, written>>

PortsNext ==
    \/ EmitDeferred \/ PopPendingError \/ AcceptSucceeds \/ AcceptFails
    \/ ReadDatagram \/ WriteDatagram \/ SendUdp \/ NextTurn \/ Shutdown
    \/ \E c \in ConnIds : \/ ReadBytes(c) \/ ReadEnds(c) \/ DriveTcpWrites(c) \/ TcpWriteFails(c) \/ ShutdownFails(c)
                          \/ WriteTcp(c) \/ FinishTcpWrite(c) \/ CloseTcp(c) \/ PeerSends(c)

\* Turns go on, and a connection with queued bytes that can be written is written.
PortsSpec ==
    /\ PortsInit /\ [][PortsNext]_hostPortVars
    /\ WF_hostPortVars(NextTurn) /\ WF_hostPortVars(EmitDeferred)
    /\ \A c \in ConnIds : SF_hostPortVars(DriveTcpWrites(c))
-----------------------------------------------------------------------------
\* The event loop hears of a connection in the order in which things happened,
\* although an event may be kept for a later turn while other connections go on:
\* it is accepted first, then come its bytes, all of them and nothing more before
\* it is closed.  A connection's queued bytes reach its peer before its write side
\* is finished.
HostStreamsInOrder ==
    \A c \in ConnIds :
        LET told == toldOf[c]
        IN  /\ told # <<>> => told[1] = "accepted"
            /\ \A i \in DOMAIN told : /\ told[i] = "accepted" => i = 1
                                      /\ told[i] = "closed" => i = Len(told) /\ i = readTotal[c] + 2
            /\ c \in Open /\ conns[c].write = "Finished" => written[c] = accepted[c]
=============================================================================
