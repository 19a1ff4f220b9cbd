------------------------------ MODULE TlsProxy ------------------------------
(***************************************************************************)
(* An intercepted TLS connection of the guest                              *)
(* (agentdp-network/src/egress/tcp/tls.rs and tls_upstream.rs): the proxy  *)
(* reads the ClientHello, routes it, ends the guest's TLS, connects its    *)
(* own TLS to the upstream and relays the plaintext through a filter.      *)
(* Every operation needs some of the budget of the turn; once it is used   *)
(* up the drive returns, and the connection is only driven again when it   *)
(* is runnable.  Tokens stand for the guest's bytes: "h" half a            *)
(* ClientHello, "hs" the end of the handshake, "d" application data, "cn"  *)
(* close_notify.  The TLS sessions, the guest and the upstream are         *)
(* external.                                                               *)
(***************************************************************************)
EXTENDS Naturals, Sequences, SequencesExt, IoSlot

CONSTANT MaxData    \* bound: data tokens of the guest, and of the upstream

VARIABLES
    tp,       \* TlsTcpProxy and TlsHttp1Proxy
    tu,       \* TlsUpstream
    tIo,      \* the slot state of the upstream stream
    tEdge,    \* selector: directions with an edge not yet reported
    turn,     \* the turn: where the drive is, and whether its budget is used up
    tNet      \* external: the guest and the upstream

tlsVars == <<tp, tu, tIo, tEdge, turn, tNet>>

Handshaking == {"WaitingClientHelloBuffer", "ReadingClientHello", "GuestTlsHandshake"}
Phases == Handshaking \cup {"ConnectingServer", "OpenIntercept", "Bypassed", "Closed"}
NewProxy == [phase |-> "WaitingClientHelloBuffer", pending |-> <<>>, initial |-> 0, finished |-> FALSE, close |-> FALSE,
             guestHs |-> TRUE, out |-> <<>>, plain |-> 0, peerClosed |-> FALSE, held |-> 0, subst |-> 0, srv |-> 0,
             guestPlain |-> 0, readPending |-> FALSE, tlsClosed |-> FALSE, cnQueued |-> FALSE]
NoUpstreamTls == [connect |-> "none", hs |-> FALSE, out |-> <<>>, write |-> "Open"]
IdleTurn == [at |-> "idle", spent |-> FALSE, moved |-> FALSE, masked |-> FALSE]

TlsInit ==
    /\ tp = NewProxy /\ tu = NoUpstreamTls /\ tIo = Cleared /\ tEdge = {} /\ turn = IdleTurn
    /\ tNet = [room |-> TRUE, sent |-> 0, fin |-> FALSE, gone |-> FALSE, sawHs |-> FALSE,
               connected |-> "no", upRoom |-> FALSE, in |-> <<>>, upSent |-> 0, eof |-> FALSE,
               got |-> 0, gotCn |-> FALSE]

CountOf(token, tokens) == Len(SelectSeq(tokens, LAMBDA x : x = token))

TlsTypeOK ==
    /\ tp.phase \in Phases /\ tp.initial \in 0 .. 2
    /\ {tp.plain, tp.held, tp.subst, tp.srv, tp.guestPlain} \subseteq 0 .. MaxData
    /\ tu.connect \in {"none", "Connecting", "Ready"} /\ tu.write \in {"Open", "CloseNotifyPending", "Finished"}
    /\ tIo \in Slots /\ tEdge \subseteq {"r", "w"}
    /\ turn \in [at : {"idle", "loop", "flush", "feed", "finish", "close", "read"}, spent : BOOLEAN, moved : BOOLEAN, masked : BOOLEAN]
-----------------------------------------------------------------------------
\* transport_wants_write and write_finished.
TransportWantsWrite ==
    IF tu.write = "Open" THEN tu.out # <<>> ELSE tu.write = "CloseNotifyPending"
WriteFinished == tu.write # "Open"
FinishDue == (tp.finished \/ tp.tlsClosed) /\ tp.pending = <<>> /\ ~WriteFinished

OpenLocalWork ==
    \/ tNet.room /\ (tp.out # <<>> \/ tp.guestPlain > 0 \/ tp.readPending \/ tp.cnQueued)
    \/ tp.subst > 0
    \/ (tp.srv > 0 \/ FinishDue) /\ (~Writes(tIo.interest) \/ CanWrite(tIo))
HasLocalWork ==
    \/ tp.phase \in {"WaitingClientHelloBuffer", "ReadingClientHello"}
       /\ (tp.close \/ tp.finished \/ tp.initial > 0 \/ tp.pending # <<>>)
    \/ tp.phase = "GuestTlsHandshake" /\ (tp.close \/ tp.pending # <<>> \/ (tNet.room /\ tp.out # <<>>))
    \/ tp.phase = "ConnectingServer" /\ (tp.close \/ (tNet.room /\ tp.out # <<>>))
    \/ tp.phase = "OpenIntercept" /\ OpenLocalWork

OpenWriteWork == tp.srv > 0 \/ tu.out # <<>> \/ FinishDue
HasReactorWriteWork ==
    \/ tp.phase = "ConnectingServer" /\ (tu.connect = "Connecting" \/ TransportWantsWrite)
    \/ tp.phase = "OpenIntercept" /\ OpenWriteWork

\* TcpProxyEntry::is_runnable for a slot with this proxy; the guest's bytes and the
\* end of its stream start a turn by themselves (GuestSends, GuestFinishes).
TlsRunnable ==
    \/ HasLocalWork
    \/ turn.masked /\ tNet.room
    \/ ~turn.masked /\ CanRead(tIo)
    \/ CanWrite(tIo) /\ HasReactorWriteWork

\* An operation needs budget, and may use up the last of it.
Can == ~turn.spent
Go(at, used) ==
    /\ used => Can
    /\ \E spent \in (IF used THEN BOOLEAN ELSE {turn.spent}) :
          turn' = [turn EXCEPT !.at = at, !.spent = spent, !.moved = @ \/ used]
Return == turn' = IF turn.moved THEN [turn EXCEPT !.at = "loop", !.moved = FALSE]
                                ELSE [turn EXCEPT !.at = "idle", !.spent = FALSE]

\* The interest of the upstream stream; a source that was disabled is added to
\* the selector again, which reports what is ready.
UpReady == (IF tNet.in # <<>> \/ tNet.eof \/ tNet.connected = "failed" THEN {"r"} ELSE {})
           \cup (IF tNet.upRoom \/ tNet.connected = "failed" THEN {"w"} ELSE {})
Wants(interest) == (IF Reads(interest) THEN {"r"} ELSE {}) \cup (IF Writes(interest) THEN {"w"} ELSE {})
ReregisterInterest(io, interest) ==
    /\ tIo' = SetInterest(io, interest)
    /\ tEdge' = (tEdge \cap Wants(interest)) \cup (IF io.interest = "Disabled" THEN UpReady \cap Wants(interest) ELSE {})
UpdateInterest(io, u, plaintextPending) ==
    LET wantsWrite == IF u.write = "Open" THEN u.out # <<>> ELSE u.write = "CloseNotifyPending"
    IN  ReregisterInterest(io, IF wantsWrite \/ plaintextPending THEN "ReadWrite" ELSE "Readable")

\* A terminal event: the proxy is removed and the guest's socket closed.
Terminate ==
    /\ tp' = [tp EXCEPT !.phase = "Closed"] /\ tIo' = Cleared /\ tEdge' = {}
    /\ turn' = IdleTurn /\ UNCHANGED <<tu, tNet>>

\* poll_ciphertext_output: bytes for the guest, which may then take no more.
EmitTo(p) ==
    /\ tp' = [p EXCEPT !.out = <<>>]
    /\ \E room \in {tNet.room, FALSE} :
          /\ tNet' = [tNet EXCEPT !.room = room, !.sawHs = @ \/ Contains(p.out, "hs")]
          /\ \E spent \in BOOLEAN :
                turn' = IF room THEN [turn EXCEPT !.at = "loop", !.spent = spent, !.moved = FALSE] ELSE [IdleTurn EXCEPT !.masked = turn.masked]
    /\ UNCHANGED <<tu, tIo, tEdge>>
NoBuffer == Return /\ UNCHANGED <<tp, tu, tIo, tEdge, tNet>>
-----------------------------------------------------------------------------
\* The loop of drive_proxy ends when the budget is used up.
StartTurn ==
    /\ turn.at = "idle" /\ tp.phase \notin {"Closed", "Bypassed"} /\ TlsRunnable
    /\ turn' = [IdleTurn EXCEPT !.at = "loop", !.masked = ~tNet.room]
    /\ UNCHANGED <<tp, tu, tIo, tEdge, tNet>>
EndTurn ==
    /\ turn.at = "loop" /\ turn.spent
    /\ turn' = [IdleTurn EXCEPT !.masked = turn.masked]
    /\ UNCHANGED <<tp, tu, tIo, tEdge, tNet>>
Driven(phase) == turn.at = "loop" /\ Can /\ tp.phase = phase
GuestIsDone == tp.finished /\ tp.pending = <<>>

\* poll_client_hello_buffer.
PollClientHelloBuffer ==
    /\ Driven("WaitingClientHelloBuffer")
    /\ \/ GuestIsDone /\ Terminate
       \/ ~GuestIsDone /\ NoBuffer
       \/ /\ ~GuestIsDone /\ tp' = [tp EXCEPT !.phase = "ReadingClientHello"]
          /\ UNCHANGED <<turn, tu, tIo, tEdge, tNet>>

\* poll_client_hello and route_client_hello; bytes that are no ClientHello and one
\* that is too large end the connection.
PollClientHello ==
    /\ Driven("ReadingClientHello")
    /\ \/ (GuestIsDone \/ tp.close) /\ Terminate
       \/ tp.initial > 0 /\ Terminate
       \/ /\ ~GuestIsDone /\ ~tp.close /\ tp.initial < 2
          /\ IF tp.pending = <<>> THEN Return /\ UNCHANGED tp
             ELSE /\ tp' = [tp EXCEPT !.initial = @ + 1, !.pending = Tail(@)]
                  /\ UNCHANGED turn
          /\ UNCHANGED <<tu, tIo, tEdge, tNet>>

\* tls_route: a blocked authority ends the connection; a raw or bypassed one is
\* handed with all its bytes to a plain proxy.
Route ==
    /\ Driven("ReadingClientHello") /\ tp.initial = 2 /\ ~tp.close /\ ~GuestIsDone
    /\ \/ Terminate
       \/ /\ tp' = [tp EXCEPT !.phase = "Bypassed"] /\ turn' = IdleTurn
          /\ UNCHANGED <<tu, tIo, tEdge, tNet>>

\* start_guest_tls_handshake: the ClientHello is fed and the answer is offered.
StartGuestTlsHandshake ==
    /\ Driven("ReadingClientHello") /\ tp.initial = 2 /\ ~tp.close /\ ~GuestIsDone
    /\ \/ NoBuffer
       \/ /\ Go("loop", TRUE)
          /\ tp' = [tp EXCEPT !.phase = "GuestTlsHandshake", !.initial = 0, !.out = <<"hs">>]
          /\ UNCHANGED <<tu, tIo, tEdge, tNet>>

\* poll_guest_tls_handshake: output first, then the guest's bytes; what is fed with
\* the end of the handshake may hold application data already.
PollGuestTlsHandshake ==
    /\ Driven("GuestTlsHandshake")
    /\ \/ (tp.close \/ GuestIsDone) /\ Terminate
       \/ ~tp.close /\ ~GuestIsDone /\ tp.out # <<>> /\ (EmitTo(tp) \/ NoBuffer)
       \/ /\ ~tp.close /\ ~GuestIsDone /\ tp.out = <<>> /\ tp.guestHs
          /\ IF tp.pending = <<>> THEN Return /\ UNCHANGED tp
             ELSE \E n \in 1 .. (IF Len(tp.pending) > 1 /\ tp.pending[2] = "d" THEN 2 ELSE 1) :
                    /\ Go("loop", TRUE)
                    /\ tp' = [tp EXCEPT !.guestHs = FALSE, !.plain = @ + (n - 1), !.pending = SubSeq(@, n + 1, Len(@))]
          /\ UNCHANGED <<tu, tIo, tEdge, tNet>>

\* Plaintext of the guest through the filter, which holds a request's head until it
\* is complete: some of it, because the budget may end anywhere.
Forwarded(p, n, released) ==
    [p EXCEPT !.plain = @ - n, !.subst = @ + released, !.held = (@ + n) - released]

\* connect_intercept_after_guest_handshake.
ConnectIntercept ==
    /\ Driven("GuestTlsHandshake") /\ ~tp.close /\ ~GuestIsDone /\ tp.out = <<>> /\ ~tp.guestHs
    /\ \/ NoBuffer
       \/ Terminate
       \/ \E n \in 0 .. tp.plain : \E released \in 0 .. n :
             /\ tp' = [Forwarded(tp, n, released) EXCEPT !.phase = "ConnectingServer",
                                                         !.finished = @ \/ (tp.peerClosed /\ n = tp.plain)]
             /\ tu' = [NoUpstreamTls EXCEPT !.connect = "Connecting", !.hs = TRUE, !.out = <<"hs">>]
             /\ tIo' = Registered("ReadWrite", TRUE)
             /\ Go("loop", TRUE) /\ UNCHANGED <<tEdge, tNet>>

\* drain_ciphertext_ready: everything pending goes out, or the write would block.
Drained == IF tNet.upRoom THEN [io |-> tIo, u |-> [tu EXCEPT !.out = <<>>,
                                                   !.write = IF @ = "Open" THEN @ ELSE "Finished"]]
                          ELSE [io |-> ClearWriteAfterWouldBlock(tIo), u |-> tu]
Arrives == IF tNet.upRoom THEN [tNet EXCEPT !.got = @ + CountOf("d", tu.out), !.gotCn = @ \/ Contains(tu.out, "cn")] ELSE tNet

OpenIntercept ==
    /\ tu.connect = "Ready" /\ tNet.connected = "yes" /\ ~tu.hs /\ tu.out = <<>>
    /\ UpdateInterest(tIo, tu, FALSE) /\ Go("loop", TRUE)
    /\ tp' = [tp EXCEPT !.phase = "OpenIntercept"] /\ UNCHANGED <<tu, tNet>>

\* TlsUpstream::drive_handshake, then open_intercept.
DriveUpstreamHandshake ==
    /\ Driven("ConnectingServer")
    /\ \/ tp.out # <<>> /\ ~turn.masked /\ (EmitTo(tp) \/ NoBuffer)
       \/ ~(tp.out # <<>> /\ ~turn.masked) /\ tp.close /\ Terminate
       \/ /\ ~(tp.out # <<>> /\ ~turn.masked) /\ ~tp.close
          /\ \/ tu.connect = "Connecting" /\ Return /\ UNCHANGED <<tp, tu, tIo, tEdge, tNet>>
             \/ tu.connect = "Ready" /\ tNet.connected # "yes" /\ Terminate
             \/ /\ tu.connect = "Ready" /\ tNet.connected = "yes" /\ tu.out # <<>> /\ CanWrite(tIo)
                /\ Go("loop", TRUE) /\ tNet' = Arrives /\ tu' = Drained.u /\ tIo' = Drained.io
                /\ UNCHANGED <<tp, tEdge>>
             \/ /\ tu.connect = "Ready" /\ tNet.connected = "yes" /\ tu.hs /\ CanRead(tIo)
                /\ IF tNet.in = <<>> THEN IF tNet.eof THEN Terminate
                   ELSE Go("loop", TRUE) /\ tIo' = ClearReadAfterWouldBlock(tIo) /\ UNCHANGED <<tp, tu, tEdge, tNet>>
                   ELSE /\ Go("loop", TRUE) /\ tNet' = [tNet EXCEPT !.in = Tail(@)]
                        /\ tu' = [tu EXCEPT !.hs = FALSE, !.out = Append(@, "hs")]
                        /\ UNCHANGED <<tp, tIo, tEdge>>
             \/ /\ tu.connect = "Ready" /\ tNet.connected = "yes" /\ (tu.hs \/ tu.out # <<>>)
                /\ ~(tu.out # <<>> /\ CanWrite(tIo)) /\ ~(tu.hs /\ CanRead(tIo))
                /\ UpdateInterest(tIo, tu, FALSE) /\ Return /\ UNCHANGED <<tp, tu, tNet>>
             \/ OpenIntercept
-----------------------------------------------------------------------------
\* write_pending_guest_plaintext: pending ciphertext goes before new plaintext.
Encrypted == IF tp.out = <<>> /\ tp.guestPlain > 0 THEN [tp EXCEPT !.out = <<"d">>, !.guestPlain = @ - 1] ELSE tp

\* TlsHttp1Proxy::drive: output for the guest comes first.
OpenEmit ==
    /\ Driven("OpenIntercept")
    /\ LET p == Encrypted
       IN  \/ ~turn.masked /\ p.out # <<>> /\ (EmitTo(p) \/ NoBuffer)
           \/ (turn.masked \/ p.out = <<>>) /\ tp.close /\ Terminate
           \/ (turn.masked \/ p.out = <<>>) /\ ~tp.close /\ Go("flush", FALSE) /\ UNCHANGED <<tp, tu, tIo, tEdge, tNet>>

\* flush_server_plaintext and write_pending_plaintext, an operation at a time.
DrainReady == tu.out # <<>> /\ CanWrite(tIo) /\ Can
EncryptReady == tu.out = <<>> /\ tp.srv > 0 /\ Can /\ ~WriteFinished
QueueReady == tp.subst > 0 /\ Can
OpenFlush ==
    /\ turn.at = "flush"
    /\ \/ WriteFinished /\ tp.srv > 0 /\ Terminate
       \/ /\ DrainReady /\ Go("flush", TRUE)
          /\ tNet' = Arrives /\ tu' = Drained.u
          /\ UpdateInterest(Drained.io, Drained.u, tp.srv > 0) /\ UNCHANGED tp
       \/ DrainReady /\ tNet.connected = "failed"
          /\ IF WriteFinished THEN /\ tu' = [tu EXCEPT !.write = "Finished", !.out = <<>>] /\ ReregisterInterest(tIo, "Readable")
                                   /\ Go("flush", TRUE) /\ UNCHANGED <<tp, tNet>>
                              ELSE Terminate
       \/ /\ EncryptReady /\ Go("flush", TRUE)
          /\ tu' = [tu EXCEPT !.out = <<"d">>] /\ tp' = [tp EXCEPT !.srv = @ - 1]
          /\ UNCHANGED <<tIo, tEdge, tNet>>
       \/ /\ QueueReady /\ Go("flush", TRUE)
          /\ tp' = [tp EXCEPT !.srv = @ + tp.subst, !.subst = 0] /\ UNCHANGED <<tu, tIo, tEdge, tNet>>
       \/ QueueReady /\ NoBuffer
       \/ /\ ~DrainReady /\ ~EncryptReady /\ ~QueueReady /\ ~(WriteFinished /\ tp.srv > 0)
          /\ IF tp.srv > 0 THEN UpdateInterest(tIo, tu, TRUE) ELSE UNCHANGED <<tIo, tEdge>>
          /\ Go(IF tp.pending # <<>> THEN "feed" ELSE "finish", FALSE)
          /\ UNCHANGED <<tp, tu, tNet>>

\* The session decrypts what it is fed.
Fed(p) == [p EXCEPT !.pending = Tail(@), !.plain = @ + (IF Head(p.pending) = "d" THEN 1 ELSE 0),
                    !.peerClosed = @ \/ Head(p.pending) = "cn"]

\* forward_plaintext_to_server: what the budget reaches of the plaintext is forwarded;
\* only when all of it is does the end of the guest's stream show.
FeedAndForward ==
    LET fed == Fed(tp)
    IN  /\ Can
        /\ \E n \in 0 .. fed.plain, released \in 0 .. MaxData, spent \in BOOLEAN, sees \in BOOLEAN :
              /\ released <= (IF n = 0 THEN 0 ELSE n + fed.held)
              /\ n < fed.plain => spent
              /\ sees => fed.peerClosed /\ n = fed.plain
              /\ fed.peerClosed /\ n = fed.plain /\ ~spent => sees
              /\ tp' = [Forwarded(fed, n, released) EXCEPT !.tlsClosed = @ \/ sees]
              /\ turn' = [turn EXCEPT !.at = "loop", !.spent = spent, !.moved = FALSE]
        /\ UNCHANGED <<tu, tIo, tEdge, tNet>>

\* feed_pending_guest_tls.
Feed ==
    /\ turn.at = "feed"
    /\ \/ ~Can /\ Return /\ UNCHANGED <<tp, tu, tIo, tEdge, tNet>>
       \/ FeedAndForward

\* finish_server_write_if_needed: close_notify follows the last data.
FinishServerWrite ==
    /\ turn.at = "finish"
    /\ IF FinishDue /\ tp.subst = 0 /\ tp.srv = 0 /\ tu.out = <<>>
       THEN tu' = [tu EXCEPT !.out = <<"cn">>, !.write = "CloseNotifyPending"]
       ELSE UNCHANGED tu
    /\ turn' = [turn EXCEPT !.at = IF tu' # tu THEN "close" ELSE "read"]
    /\ UNCHANGED <<tp, tIo, tEdge, tNet>>
FlushCloseNotify ==
    /\ turn.at = "close"
    /\ IF DrainReady
       THEN /\ Go("read", TRUE) /\ tNet' = Arrives /\ tu' = Drained.u
            /\ IF tNet.upRoom THEN UpdateInterest(Drained.io, Drained.u, FALSE) ELSE tIo' = Drained.io /\ UNCHANGED tEdge
       ELSE Go("read", FALSE) /\ UNCHANGED <<tu, tIo, tEdge, tNet>>
    /\ UNCHANGED tp

\* close_guest_tls_after_upstream_eof.
UpstreamEof ==
    \/ tp.out # <<>> /\ (EmitTo(tp) \/ NoBuffer)
    \/ tp.out = <<>> /\ ~tp.cnQueued /\ EmitTo([tp EXCEPT !.out = <<"cn">>, !.cnQueued = TRUE])
    \/ tp.out = <<>> /\ tp.cnQueued /\ Terminate

\* read_plaintext, with read_ciphertext_ready, which enables reading again first; the
\* filter may release what it held for an answer of the upstream, and an upstream
\* that ends in the middle of a response ends the connection.
ReadPlaintext ==
    LET io == IF Reads(tIo.interest) THEN tIo
              ELSE SetInterest(tIo, IF TransportWantsWrite \/ tp.srv > 0 THEN "ReadWrite" ELSE "Readable")
        ended == tNet.in = <<>> /\ (tNet.eof \/ tNet.connected = "failed")
    IN  \/ ~Can /\ Return /\ ReregisterInterest(tIo, io.interest) /\ UNCHANGED <<tp, tu, tNet>>
        \/ /\ Can /\ CanRead(io) /\ tNet.in # <<>>
           /\ Go("loop", TRUE) /\ tNet' = [tNet EXCEPT !.in = Tail(@)]
           /\ \E released \in {0, tp.held} :
                 tp' = [tp EXCEPT !.guestPlain = @ + 1, !.readPending = TRUE, !.held = @ - released, !.subst = released]
           /\ UpdateInterest(io, tu, tp.srv > 0) /\ UNCHANGED tu
        \/ Can /\ CanRead(io) /\ ended /\ (UpstreamEof \/ Terminate)
        \/ /\ Can /\ ~(CanRead(io) /\ (tNet.in # <<>> \/ ended))
           /\ tp' = [tp EXCEPT !.readPending = FALSE]
           /\ UpdateInterest(ClearReadAfterWouldBlock(io), tu, tp.srv > 0) /\ Return /\ UNCHANGED <<tu, tNet>>

\* read_server_tls: output the filter left comes first, and a buffer is needed.
ReadServer ==
    /\ turn.at = "read" /\ ~turn.masked
    /\ \/ tp.subst > 0 /\ Return /\ UNCHANGED <<tp, tu, tIo, tEdge, tNet>>
       \/ tp.subst = 0 /\ NoBuffer
       \/ tp.subst = 0 /\ ReadPlaintext

\* The guest takes nothing: reading is parked.
ParkRead ==
    /\ turn.at = "read" /\ turn.masked
    /\ ReregisterInterest(tIo, IF TransportWantsWrite \/ tp.srv > 0 THEN "Writable" ELSE "Disabled")
    /\ Return /\ UNCHANGED <<tp, tu, tNet>>
-----------------------------------------------------------------------------
\* The guest's next token, or the end of its stream, is taken at the head of a turn,
\* whose budget may end there.
Script == <<"h", "h", "hs">> \o [i \in 1 .. MaxData |-> "d"] \o <<"cn">>
TurnOpens == \E spent \in BOOLEAN : turn' = [at |-> "loop", spent |-> spent, moved |-> FALSE, masked |-> ~tNet.room]
GuestSends ==
    /\ turn.at = "idle" /\ tp.phase \notin {"Closed", "Bypassed"} /\ ~tNet.fin /\ ~tNet.gone /\ tNet.sent < Len(Script)
    /\ tNet.sent = 2 => tNet.sawHs
    /\ tp' = [tp EXCEPT !.pending = Append(@, Script[tNet.sent + 1])]
    /\ tNet' = [tNet EXCEPT !.sent = @ + 1] /\ TurnOpens /\ UNCHANGED <<tu, tIo, tEdge>>
GuestFinishes ==
    /\ turn.at = "idle" /\ tp.phase \notin {"Closed", "Bypassed"} /\ ~tNet.fin /\ ~tNet.gone
    /\ \/ tNet' = [tNet EXCEPT !.fin = TRUE] /\ tp' = [tp EXCEPT !.finished = TRUE]
       \/ tNet' = [tNet EXCEPT !.gone = TRUE] /\ tp' = [tp EXCEPT !.close = TRUE]
    /\ TurnOpens /\ UNCHANGED <<tu, tIo, tEdge>>
GuestRoom ==
    /\ turn.at = "idle" /\ ~tNet.room /\ tNet' = [tNet EXCEPT !.room = TRUE]
    /\ UNCHANGED <<tp, tu, tIo, tEdge, turn>>

\* The reactor reports an edge between turns; the first one ends the connect.
TlsLatch ==
    /\ turn.at = "idle" /\ tEdge # {} /\ tp.phase \in {"ConnectingServer", "OpenIntercept"}
    /\ tIo' = MarkReady(tIo, "r" \in tEdge, "w" \in tEdge) /\ tEdge' = {}
    /\ tu' = [tu EXCEPT !.connect = "Ready"] /\ UNCHANGED <<tp, turn, tNet>>

\* The upstream connects or refuses, takes bytes, answers, ends or fails.
Upstream ==
    /\ turn.at = "idle" /\ tu.connect # "none" /\ tp.phase # "Closed"
    /\ \/ tNet.connected = "no" /\ \E c \in {"yes", "failed"} : tNet' = [tNet EXCEPT !.connected = c, !.upRoom = c = "yes"]
       \/ tNet.connected = "yes" /\ tNet' = [tNet EXCEPT !.upRoom = ~@]
       \/ tNet.connected = "yes" /\ ~tNet.eof /\ tNet.upSent < MaxData + 1 /\ (tNet.upSent = 0 => tu.out = <<>>)
          /\ tNet' = [tNet EXCEPT !.upSent = @ + 1, !.in = Append(@, IF tNet.upSent = 0 THEN "hs" ELSE "d")]
       \/ tNet.connected = "yes" /\ ~tNet.eof /\ tNet' = [tNet EXCEPT !.eof = TRUE]
       \/ tNet.connected = "yes" /\ tNet' = [tNet EXCEPT !.connected = "failed", !.upRoom = FALSE]
    /\ tEdge' = Wants(tIo.interest) \cap
                (tEdge \cup (IF tNet'.upRoom /\ ~tNet.upRoom THEN {"w"} ELSE {})
                       \cup (IF tNet'.in # tNet.in \/ tNet'.eof # tNet.eof THEN {"r"} ELSE {})
                       \cup (IF tNet'.connected = "failed" THEN {"r", "w"} ELSE {}))
    /\ UNCHANGED <<tp, tu, tIo, turn>>

TlsNext ==
    \/ StartTurn \/ EndTurn \/ PollClientHelloBuffer \/ PollClientHello \/ Route \/ StartGuestTlsHandshake
    \/ PollGuestTlsHandshake \/ ConnectIntercept \/ DriveUpstreamHandshake
    \/ OpenEmit \/ OpenFlush \/ Feed \/ FinishServerWrite \/ FlushCloseNotify \/ ReadServer \/ ParkRead
    \/ GuestSends \/ GuestFinishes \/ GuestRoom \/ TlsLatch \/ Upstream

TlsSpec == TlsInit /\ [][TlsNext]_tlsVars
-----------------------------------------------------------------------------
\* While the connection lives, every data token the guest sent is at exactly one
\* place: waiting for decryption, decrypted, held by the filter, queued, encrypted
\* or with the upstream; and nothing follows close_notify to the upstream.
DataTokens == IF tNet.sent <= 3 THEN 0 ELSE IF tNet.sent - 3 > MaxData THEN MaxData ELSE tNet.sent - 3
UploadIntact ==
    /\ tp.phase \notin {"Closed", "Bypassed"} =>
          DataTokens = CountOf("d", tp.pending) + tp.plain + tp.held + tp.subst + tp.srv + CountOf("d", tu.out) + tNet.got
    /\ tNet.gotCn => tu.out = <<>>

\* What the guest sent is drained: between turns an open connection that is not
\* runnable holds none of it undecrypted or unread, whatever the guest takes.
UploadDrained ==
    tp.phase = "OpenIntercept" /\ turn.at = "idle" /\ tNet.room /\ ~TlsRunnable => tp.pending = <<>> /\ tp.plain = 0
=============================================================================
