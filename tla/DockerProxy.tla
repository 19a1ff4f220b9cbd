---------------------------- MODULE DockerProxy ----------------------------
(***************************************************************************)
(* One connection of the guest's Docker proxy                              *)
(* (agentdp-guest/src/containers/docker/proxy.rs, proxy/os/linux.rs).      *)
(* The proxy reads the requests of a client one after the other, however   *)
(* the bytes are cut into reads, puts the CA bundle into those that create *)
(* a container or build an image, and sends each over a connection of its  *)
(* own to the daemon, whose answer it copies back.  A stream is a sequence *)
(* of tokens <<request, part>>: part 0 is the head, 1.. units of the body; *)
(* a chunked body ends with one unit for the last chunk.                   *)
(***************************************************************************)
EXTENDS Naturals, Sequences, FiniteSets

VARIABLES
    shapes,     \* the two requests of the client: [post, kind, framing, units, expect, hijack, over]
    wireUp,     \* what the client sent and the proxy has not read
    dSent,      \* how many tokens of its stream the client sent
    continued,  \* the requests whose 100 Continue the client got
    dProxy,     \* handle_connection: [at, buf, req, body]
    daemonGot,  \* for each upstream connection: [req, body, injected, tunnel]
    answer,     \* the daemon's answer: [framing, units, read]
    clientGot   \* the tokens of the current answer the client got, 0 is the head

dockerVars == <<shapes, wireUp, dSent, continued, dProxy, daemonGot, answer, clientGot>>

Create(expect) == [post |-> TRUE, kind |-> "create", framing |-> "length", units |-> 2, expect |-> expect, hijack |-> FALSE, over |-> FALSE]
Shapes ==
    {Create(TRUE), Create(FALSE), [Create(FALSE) EXCEPT !.over = TRUE, !.units = 0],
     [Create(TRUE) EXCEPT !.kind = "build", !.framing = "chunked"],
     [Create(FALSE) EXCEPT !.framing = "none", !.units = 0],
     [Create(TRUE) EXCEPT !.kind = "other", !.units = 1],
     [Create(FALSE) EXCEPT !.kind = "other", !.units = 0, !.hijack = TRUE],
     [Create(FALSE) EXCEPT !.kind = "other", !.framing = "none", !.units = 1],
     [Create(FALSE) EXCEPT !.kind = "other", !.framing = "none", !.units = 0, !.post = FALSE]}

\* The stream of the client: every request's head, then its body, one after the other.
Start(n) == CASE n = 1 -> 1 [] n = 2 -> 2 + shapes[1].units [] OTHER -> 3 + shapes[1].units + shapes[2].units
TokenAt(k) == IF k < Start(2) THEN <<1, k - 1>> ELSE <<2, k - Start(2)>>
StreamLength == Start(3) - 1
Tokens(a, b) == [k \in 1 .. (IF b < a THEN 0 ELSE b - a + 1) |-> TokenAt(a + k - 1)]

AtHead == [at |-> "head", buf |-> <<>>, req |-> 0, body |-> <<>>]
NoAnswer == [framing |-> "none", units |-> 0, read |-> 0]

DockerTypeOK ==
    /\ shapes \in [1 .. 2 -> Shapes] /\ dSent \in 0 .. StreamLength
    /\ dProxy.at \in {"head", "body", "connect", "answer", "tunnel", "closed"}
    /\ dProxy.req \in 0 .. 2
    /\ Len(daemonGot) <= 2 /\ continued \subseteq 1 .. 2
    /\ answer.read <= answer.units

DockerInit ==
    /\ shapes \in [1 .. 2 -> Shapes] /\ wireUp = <<>> /\ dSent = 0 /\ continued = {}
    /\ dProxy = AtHead /\ daemonGot = <<>> /\ answer = NoAnswer /\ clientGot = <<>>
-----------------------------------------------------------------------------
\* The client sends the next token; the body of a request that expects 100 Continue only
\* after it came, and nothing after a request that takes the connection over.
MaySend(token) ==
    /\ token[2] > 0 /\ shapes[token[1]].expect => token[1] \in continued
    /\ token[1] = 2 => ~shapes[1].hijack /\ (shapes[1].framing # "none" \/ ~shapes[1].post)
ClientSend ==
    /\ dSent < StreamLength /\ MaySend(TokenAt(dSent + 1))
    /\ wireUp' = Append(wireUp, TokenAt(dSent + 1)) /\ dSent' = dSent + 1
    /\ UNCHANGED <<shapes, continued, dProxy, daemonGot, answer, clientGot>>

\* The body of the current request is not yet in the buffer.
BodyMissing == Len(dProxy.body) + Len(dProxy.buf) < shapes[dProxy.req].units

\* A read returns any part of what is there: read_request_head until the head's end is in
\* the buffer, read_fixed_body (exactly the missing units) and read_chunked_body after it.
ReadClient ==
    /\ wireUp # <<>>
    /\ \/ dProxy.at = "head" /\ dProxy.buf = <<>>
       \/ dProxy.at = "body" /\ BodyMissing
    /\ \E n \in 1 .. Len(wireUp) :
          /\ (dProxy.at = "body" /\ shapes[dProxy.req].framing = "length")
                => n <= shapes[dProxy.req].units - Len(dProxy.buf)
          /\ dProxy' = [dProxy EXCEPT !.buf = @ \o SubSeq(wireUp, 1, n)]
          /\ wireUp' = SubSeq(wireUp, n + 1, Len(wireUp))
    /\ UNCHANGED <<shapes, dSent, continued, daemonGot, answer, clientGot>>

\* The client closes: between two requests that is the end, elsewhere an error; the
\* connection is closed either way.
ClientCloses ==
    /\ dProxy.at \in {"head", "body"} /\ wireUp = <<>>
    /\ IF dProxy.at = "head" THEN dProxy.buf = <<>> ELSE BodyMissing
    /\ dProxy' = [dProxy EXCEPT !.at = "closed"]
    /\ UNCHANGED <<shapes, wireUp, dSent, continued, daemonGot, answer, clientGot>>

\* mutation_kind: only a POST to containers/create or build is changed.
Mutates(shape) == shape.post /\ shape.kind # "other"

\* acknowledge_expect_continue: with a body to come, the proxy answers in the daemon's place.
Acknowledge(r) == IF shapes[r].expect /\ shapes[r].units # 0 THEN {r} ELSE {}

\* RawRequest::parse and the first decisions of prepare_request: refused (413 and 501, and
\* the connection is closed), a body to read, or a request without one that goes on as it
\* is: a POST of unknown length and its connection become a tunnel.
ParseHead ==
    LET r == dProxy.buf[1][1]
        shape == shapes[r]
        rest == Tail(dProxy.buf)
        read == shape.framing = "length" \/ (Mutates(shape) /\ shape.framing = "chunked")
        refused == shape.over \/ (Mutates(shape) /\ shape.framing = "none") IN
    /\ dProxy.at = "head" /\ dProxy.buf # <<>>
    /\ dProxy' = IF refused THEN [dProxy EXCEPT !.at = "closed", !.buf = rest, !.req = r]
                 ELSE IF read THEN [dProxy EXCEPT !.at = "body", !.buf = rest, !.req = r, !.body = <<>>]
                 ELSE IF shape.post THEN [at |-> "connect", buf |-> <<>>, req |-> r, body |-> rest]
                 ELSE [at |-> "connect", buf |-> rest, req |-> r, body |-> <<>>]
    /\ continued' = continued \cup (IF read /\ ~refused THEN Acknowledge(r) ELSE {})
    /\ UNCHANGED <<shapes, wireUp, dSent, daemonGot, answer, clientGot>>

\* What was read beyond the body belongs to the next request.
Trailing == SubSeq(dProxy.buf, shapes[dProxy.req].units + 1, Len(dProxy.buf))

TakeBody ==
    /\ dProxy.at = "body" /\ ~BodyMissing
    /\ dProxy' = [dProxy EXCEPT !.at = "connect", !.body = SubSeq(dProxy.buf, 1, shapes[dProxy.req].units),
                                !.buf = Trailing]
    /\ UNCHANGED <<shapes, wireUp, dSent, continued, daemonGot, answer, clientGot>>

\* inject_container_create, rewrite_build_context: a body that cannot be changed goes on
\* unchanged.
Injected(shape) == IF Mutates(shape) THEN BOOLEAN ELSE {FALSE}

\* is_hijack, prepare_unknown_length_request: the connection is the daemon's from now on.
Tunnels(shape) == shape.hijack \/ (shape.framing = "none" /\ shape.post)

\* handle_connection: a connection to the daemon for this request, or an error.
Forward ==
    LET shape == shapes[dProxy.req] IN
    /\ dProxy.at = "connect"
    /\ \/ /\ \E injected \in Injected(shape) :
                daemonGot' = Append(daemonGot, [req |-> dProxy.req, body |-> dProxy.body, injected |-> injected, tunnel |-> Tunnels(shape)])
          /\ dProxy' = [dProxy EXCEPT !.at = IF Tunnels(shape) THEN "tunnel" ELSE "answer"]
          /\ \E framing \in {"length", "chunked", "close"}, units \in 0 .. 2 :
                answer' = [framing |-> framing, units |-> units, read |-> 0]
          /\ clientGot' = <<>>
       \/ dProxy' = [dProxy EXCEPT !.at = "closed"] /\ UNCHANGED <<daemonGot, answer, clientGot>>
    /\ UNCHANGED <<shapes, wireUp, dSent, continued>>

\* copy_bidirectional_local_socket passes the rest of the request on.
Tunnel ==
    /\ dProxy.at = "tunnel" /\ wireUp # <<>> /\ wireUp' = Tail(wireUp)
    /\ daemonGot' = [daemonGot EXCEPT ![Len(daemonGot)].body = Append(@, Head(wireUp))]
    /\ UNCHANGED <<shapes, dSent, continued, dProxy, answer, clientGot>>
-----------------------------------------------------------------------------
\* copy_response: the head is written, then what was read with it when a length or chunks
\* tell where the body ends; a body that ends with the connection is copied from the
\* next read on.
WithHead(n) == IF answer.framing = "close" THEN <<0>> ELSE [k \in 1 .. n + 1 |-> k - 1]
CopyHead ==
    /\ dProxy.at = "answer" /\ clientGot = <<>>
    /\ \E n \in 0 .. answer.units : clientGot' = WithHead(n) /\ answer' = [answer EXCEPT !.read = n]
    /\ UNCHANGED <<shapes, wireUp, dSent, continued, dProxy, daemonGot>>

\* copy_content_length_response, copy_chunked_response: the rest as it comes.
CopyBody ==
    /\ dProxy.at = "answer" /\ clientGot # <<>>
    /\ \E n \in answer.read + 1 .. answer.units :
          /\ clientGot' = clientGot \o [k \in 1 .. n - answer.read |-> answer.read + k]
          /\ answer' = [answer EXCEPT !.read = n]
    /\ UNCHANGED <<shapes, wireUp, dSent, continued, dProxy, daemonGot>>

\* The answer is complete and the next request is read; a daemon that closes before is an
\* error, unless that is how its answer ends.
AnswerEnds ==
    /\ dProxy.at = "answer"
    /\ \/ clientGot # <<>> /\ answer.read = answer.units /\ dProxy' = [dProxy EXCEPT !.at = "head", !.body = <<>>]
       \/ /\ clientGot = <<>> \/ (answer.read < answer.units /\ answer.framing # "close")
          /\ dProxy' = [dProxy EXCEPT !.at = "closed"]
    /\ UNCHANGED <<shapes, wireUp, dSent, continued, daemonGot, answer, clientGot>>

DockerNext ==
    \/ ClientSend \/ ReadClient \/ ClientCloses \/ ParseHead \/ TakeBody \/ Forward \/ Tunnel
    \/ CopyHead \/ CopyBody \/ AnswerEnds

DockerSpec == DockerInit /\ [][DockerNext]_dockerVars
-----------------------------------------------------------------------------
\* How much of the client's stream the proxy took out of its buffer.
Consumed ==
    CASE dProxy.at = "head" -> Start(Len(daemonGot) + 1) - 1
      [] dProxy.at = "body" -> Start(dProxy.req)
      [] dProxy.at = "connect" -> Start(dProxy.req) + Len(dProxy.body)
      [] OTHER -> Start(dProxy.req) + Len(daemonGot[Len(daemonGot)].body)

\* Every request reaches the daemon on a connection of its own, in order, with its own
\* body, wherever the reads were cut: what the proxy holds is the rest of the stream, and
\* the answer it passes on is not torn where it has a length or chunks.
RequestsFramed ==
    /\ dProxy.at # "closed" => dProxy.buf \o wireUp = Tokens(Consumed + 1, dSent)
    /\ \A n \in DOMAIN daemonGot :
          LET got == daemonGot[n] IN
          /\ got.req = n
          /\ got.body = Tokens(Start(n) + 1, Start(n) + Len(got.body))
          /\ ~got.tunnel => Len(got.body) = shapes[n].units
    /\ answer.framing # "close" => \A k \in DOMAIN clientGot : clientGot[k] = k - 1

\* The proxy never waits for a body its client holds back until it is told to go on.
NobodyHeldBack ==
    (dProxy.at = "body" /\ BodyMissing /\ wireUp = <<>>) => MaySend(TokenAt(dSent + 1))
=============================================================================
