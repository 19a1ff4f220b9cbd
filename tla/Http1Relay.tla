----------------------------- MODULE Http1Relay -----------------------------
(***************************************************************************)
(* The filter between an intercepted guest and its upstream                *)
(* (agentdp-network/src/application/http1.rs and raw.rs): requests are     *)
(* parsed out of the guest's byte stream, secrets are put in for their     *)
(* placeholders, and responses are tracked to tell a complete exchange     *)
(* from a cut one.  TCP cuts both streams anywhere.  One record stands for *)
(* a run of bytes: "h" a head without its end, "H" the end of a head, "b"  *)
(* body, "e" the last of a chunked body.  Left out: the refusal of heads,  *)
(* requests and upgrade answers over their size limits, and an interim     *)
(* answer before a 101, which ends the watch for the upgrade.              *)
(***************************************************************************)
EXTENDS Naturals, Sequences, SequencesExt, FiniteSets

CONSTANT BodyLength     \* bound: bytes of a request's body

VARIABLES
    exchange,   \* external: the requests the guest sends and the answers to them
    filter,     \* Http1Filter
    tracker,    \* Http1ResponseTracker
    upstreamGot,\* bytes forwarded to the upstream, and whether a secret was put in
    given,      \* bytes of the guest and of the upstream given so far
    refused     \* the filter has refused the stream

relayVars == <<exchange, filter, tracker, upstreamGot, given, refused>>

\* What the parser tells apart: how the body is framed (Large is over the limit to
\* buffer, Expect waits for 100-continue), whose authority the request names, whether
\* it holds a placeholder, and whether it dispatches a GitHub workflow.
Bodies == {"None", "Fixed", "Large", "Expect", "Chunked", "Upgrade"}
Marks == {"plain", "secret", "foreign", "foreignSecret", "dispatch"}
Request(body, mark, method) == [body |-> body, mark |-> mark, method |-> method]
Requests == {Request(b, k, "Other") : b \in Bodies, k \in Marks}
            \cup {Request("None", "plain", m) : m \in {"Head", "Connect"}}
NextRequests == {Request(b, k, "Other") : b \in {"None", "Fixed"}, k \in {"plain", "secret", "dispatch"}}
Responses == [status : {"200", "204"}, body : {"Fixed", "Chunked", "CloseDelimited"}, interim : BOOLEAN]
             \cup {[status |-> "101", body |-> "Fixed", interim |-> FALSE]}

Byte(t, k) == [t |-> t, k |-> k]
Times(n, byte) == [i \in 1 .. n |-> byte]
RequestBytes(k, r) ==
    <<Byte("h", k), Byte("H", k)>>
    \o (CASE r.body \in {"None", "Upgrade"} -> <<>>
          [] r.body = "Chunked" -> Append(Times(BodyLength - 1, Byte("b", k)), Byte("e", k))
          [] OTHER -> Times(BodyLength, Byte("b", k)))
ResponseBytes(k, q, r) ==
    (IF r.interim THEN <<Byte("i", k)>> ELSE <<>>) \o <<Byte("h", k), Byte("H", k)>>
    \o (IF r.status # "200" \/ q.method = "Head" THEN <<>>
        ELSE IF r.body = "Chunked" /\ q.method # "Connect" THEN <<Byte("b", k), Byte("e", k)>> ELSE <<Byte("b", k)>>)
GuestStream == RequestBytes(1, exchange.q[1]) \o RequestBytes(2, exchange.q[2])
UpstreamStream == ResponseBytes(1, exchange.q[1], exchange.r[1]) \o ResponseBytes(2, exchange.q[2], exchange.r[2])

NewFilter == [pending |-> <<>>, body |-> "Headers", remaining |-> 0, upgrade |-> FALSE, head |-> <<>>]
NewTracker == [pending |-> <<>>, requests |-> <<>>, state |-> "Headers", remaining |-> 0]

RelayInit ==
    /\ exchange \in [q : {<<a, b>> : a \in Requests, b \in NextRequests},
                     r : {<<a, b>> : a \in Responses, b \in {x \in Responses : x.status = "200" /\ ~x.interim /\ x.body # "Chunked"}}]
    /\ exchange.r[1].status = "101" => exchange.q[1].body = "Upgrade"
    /\ exchange.r[1].interim => exchange.q[1].body # "Upgrade"
    /\ filter = NewFilter /\ tracker = NewTracker /\ upstreamGot = <<>>
    /\ given = [guest |-> 0, upstream |-> 0] /\ refused = FALSE
-----------------------------------------------------------------------------
\* header_boundary: where the first head in the buffer ends, 0 if it does not.
HeaderBoundary(bytes) ==
    LET ends == {i \in 1 .. Len(bytes) : bytes[i].t \in {"H", "i"}}
    IN  IF ends = {} THEN 0 ELSE CHOOSE i \in ends : \A j \in ends : i <= j

RequestBody(k) == exchange.q[k].body
IsDispatch(k) == exchange.q[k].mark = "dispatch"
AuthorityMatches(k) == exchange.q[k].mark \notin {"foreign", "foreignSecret"}
HasPlaceholder(k) == exchange.q[k].mark \in {"secret", "foreignSecret"}

\* substitute_bytes_for_host, in text and in basic credentials: a secret is put in only
\* when the request is for the connection's own host.
SecretIn(k) == AuthorityMatches(k) /\ HasPlaceholder(k)

\* substitute_http_for_host_into: placeholders become secrets in the head, and in the
\* body too when the whole request is at hand.
Substituted(bytes, withBody) ==
    [i \in 1 .. Len(bytes) |->
        [b |-> bytes[i], secret |-> SecretIn(bytes[i].k) /\ (withBody \/ bytes[i].t \in {"h", "H"})]]
\* raw::process refuses placeholders nothing was put in for; raw::copy does not look.
RawRefuses(bytes) == \E i \in 1 .. Len(bytes) : HasPlaceholder(bytes[i].k)
Copied(bytes) == [i \in 1 .. Len(bytes) |-> [b |-> bytes[i], secret |-> FALSE]]
HeadRefused(k, bytes) == ~AuthorityMatches(k) /\ RawRefuses(bytes)

\* Bytes up to the end of a chunked body, all of them if it does not end here.
ChunkedTake(bytes) ==
    LET ends == {i \in 1 .. Len(bytes) : bytes[i].t = "e"}
    IN  IF ends = {} THEN Len(bytes) ELSE CHOOSE i \in ends : \A j \in ends : i <= j
ChunkedComplete(bytes) == \E i \in 1 .. Len(bytes) : bytes[i].t = "e"

Step(f, out, expects, fails) == [f |-> f, out |-> out, expects |-> expects, fails |-> fails]
After(bytes, n) == SubSeq(bytes, n + 1, Len(bytes))
Upto(bytes, n) == SubSeq(bytes, 1, n)
LeastOf(a, b) == IF a < b THEN a ELSE b

\* Mutant: what is left of a streamed body counts from the whole length.
StreamFixedFromStart(s, k, at) ==
    LET take == LeastOf(BodyLength, Len(s.f.pending) - at)
        out == s.out \o Substituted(Upto(s.f.pending, at), FALSE) \o Copied(SubSeq(s.f.pending, at + 1, at + take))
        rest == [s.f EXCEPT !.pending = After(@, at + take)]
    IN  Step(IF take < BodyLength THEN [rest EXCEPT !.body = "Fixed", !.remaining = BodyLength] ELSE rest,
             out, Append(s.expects, exchange.q[k].method), s.fails)

\* stream_fixed_request_body.
StreamFixed(s, k, at) ==
    LET take == LeastOf(BodyLength, Len(s.f.pending) - at)
        out == s.out \o Substituted(Upto(s.f.pending, at), FALSE) \o Copied(SubSeq(s.f.pending, at + 1, at + take))
        rest == [s.f EXCEPT !.pending = After(@, at + take)]
    IN  Step(IF take < BodyLength THEN [rest EXCEPT !.body = "Fixed", !.remaining = BodyLength - take] ELSE rest,
             out, Append(s.expects, exchange.q[k].method), s.fails)

\* flush_pending_requests: every request whose head is complete, a short body too.
RECURSIVE FlushRequests(_)
FlushRequests(s) ==
    LET at == HeaderBoundary(s.f.pending)
        k == s.f.pending[at].k
        expects == Append(s.expects, exchange.q[k].method)
        whole == at + BodyLength
        head == s.out \o Substituted(Upto(s.f.pending, at), FALSE)
        take == at + ChunkedTake(After(s.f.pending, at))
    IN  IF at = 0 \/ s.fails THEN s
        ELSE IF IsDispatch(k) THEN [s EXCEPT !.fails = TRUE]
        ELSE IF RequestBody(k) = "Fixed" THEN
             IF Len(s.f.pending) < whole THEN s
             ELSE FlushRequests(Step([s.f EXCEPT !.pending = After(@, whole)],
                                     s.out \o Substituted(Upto(s.f.pending, whole), TRUE), expects,
                                     HeadRefused(k, Upto(s.f.pending, whole))))
        ELSE IF HeadRefused(k, Upto(s.f.pending, at)) THEN [s EXCEPT !.fails = TRUE]
        ELSE CASE RequestBody(k) = "None" -> FlushRequests(Step([s.f EXCEPT !.pending = After(@, at)], head, expects, FALSE))
               [] RequestBody(k) \in {"Large", "Expect"} ->
                    LET t == StreamFixed(s, k, at) IN IF t.f.body = "Fixed" THEN t ELSE FlushRequests(t)
               [] RequestBody(k) = "Chunked" ->
                    LET t == Step([s.f EXCEPT !.pending = After(@, take),
                                              !.body = IF ChunkedComplete(After(s.f.pending, at)) THEN "Headers" ELSE "Chunked"],
                                  head \o Copied(SubSeq(s.f.pending, at + 1, take)), expects, FALSE)
                    IN  IF t.f.body = "Chunked" THEN t ELSE FlushRequests(t)
               [] OTHER -> Step([s.f EXCEPT !.pending = After(@, at), !.upgrade = TRUE, !.head = <<>>], head, expects, FALSE)

\* Http1Filter::push.
RECURSIVE Push(_, _)
Push(s, bytes) ==
    IF bytes = <<>> \/ s.fails THEN s
    ELSE IF s.f.upgrade THEN [s EXCEPT !.f.pending = @ \o bytes]
    ELSE CASE s.f.body = "Headers" -> FlushRequests([s EXCEPT !.f.pending = @ \o bytes])
           [] s.f.body = "Fixed" ->
                LET take == LeastOf(s.f.remaining, Len(bytes))
                IN  Push([s EXCEPT !.f.remaining = @ - take, !.f.body = IF s.f.remaining = take THEN "Headers" ELSE @,
                                   !.out = @ \o Copied(Upto(bytes, take))], After(bytes, take))
           [] s.f.body = "Chunked" ->
                LET take == ChunkedTake(bytes)
                IN  Push([s EXCEPT !.f.body = IF ChunkedComplete(bytes) THEN "Headers" ELSE @,
                                   !.out = @ \o Copied(Upto(bytes, take))], After(bytes, take))
           [] s.f.body = "Raw" -> [s EXCEPT !.out = @ \o Copied(bytes), !.fails = RawRefuses(bytes)]

\* observe_server_plaintext: the answer to an upgrade lets what came after it pass, as
\* it is when the protocols switch and as requests when they do not.
ObserveServerPlaintext(s, bytes) ==
    LET seen == s.f.head \o bytes
        at == HeaderBoundary(seen)
        switches == exchange.r[seen[at].k].status = "101"
        answered == [s EXCEPT !.f.upgrade = FALSE, !.f.head = <<>>]
    IN  IF ~s.f.upgrade THEN s
        ELSE IF at = 0 THEN [s EXCEPT !.f.head = seen]
        ELSE IF switches THEN [answered EXCEPT !.f.body = "Raw", !.f.pending = <<>>, !.out = @ \o Copied(s.f.pending),
                                               !.fails = RawRefuses(s.f.pending)]
        ELSE FlushRequests(answered)
-----------------------------------------------------------------------------
\* response_body: what follows a head, and whether it answers its request.
ResponseBody(method, byte) ==
    LET r == exchange.r[byte.k]
    IN  [body |-> IF byte.t = "i" THEN "None" ELSE IF r.status = "101" THEN "Tunnel"
                  ELSE IF method = "Head" \/ r.status = "204" THEN "None"
                  ELSE IF method = "Connect" THEN "Tunnel" ELSE r.body,
         consumes |-> byte.t # "i"]

\* flush_pending_responses.
RECURSIVE FlushResponses(_)
FlushResponses(t) ==
    LET at == HeaderBoundary(t.pending)
        next == ResponseBody(IF t.requests = <<>> THEN "Other" ELSE Head(t.requests), t.pending[at])
        paired == [t EXCEPT !.pending = After(@, at), !.requests = IF next.consumes /\ @ # <<>> THEN Tail(@) ELSE @]
        take == LeastOf(1, Len(paired.pending))
    IN  IF at = 0 THEN t
        ELSE CASE next.body = "None" -> FlushResponses(paired)
               [] next.body = "Fixed" ->
                    LET u == [paired EXCEPT !.pending = After(@, take), !.state = IF take = 1 THEN "Headers" ELSE "Fixed", !.remaining = 1 - take]
                    IN  IF take = 1 THEN FlushResponses(u) ELSE u
               [] next.body = "Chunked" ->
                    LET u == [paired EXCEPT !.pending = After(@, ChunkedTake(@)), !.state = IF ChunkedComplete(paired.pending) THEN "Headers" ELSE "Chunked"]
                    IN  IF u.state = "Headers" THEN FlushResponses(u) ELSE u
               [] OTHER -> [paired EXCEPT !.pending = <<>>, !.state = next.body]

\* Http1ResponseTracker::observe.
RECURSIVE Observe(_, _)
Observe(t, bytes) ==
    IF bytes = <<>> THEN t
    ELSE CASE t.state = "Headers" -> FlushResponses([t EXCEPT !.pending = @ \o bytes])
           [] t.state = "Fixed" -> Observe([t EXCEPT !.state = "Headers", !.remaining = 0], Tail(bytes))
           [] t.state = "Chunked" ->
                Observe([t EXCEPT !.state = IF ChunkedComplete(bytes) THEN "Headers" ELSE @], After(bytes, ChunkedTake(bytes)))
           [] OTHER -> t

\* Http1ResponseTracker::eof.
ResponseEof ==
    CASE tracker.state = "Headers" /\ tracker.pending = <<>> /\ tracker.requests = <<>> -> "Complete"
      [] tracker.state = "CloseDelimited" /\ tracker.requests = <<>> -> "Complete"
      [] tracker.state = "Tunnel" -> "Tunnel"
      [] OTHER -> "Incomplete"
-----------------------------------------------------------------------------
Apply(s) ==
    /\ filter' = s.f /\ refused' = s.fails
    /\ upstreamGot' = IF s.fails THEN upstreamGot ELSE upstreamGot \o s.out

\* forward_plaintext_to_server: the next read of the guest, of any length.
GuestReads ==
    /\ ~refused
    /\ \E n \in 1 .. (Len(GuestStream) - given.guest) :
          LET s == Push(Step(filter, <<>>, <<>>, FALSE), SubSeq(GuestStream, given.guest + 1, given.guest + n))
          IN  /\ Apply(s)
              /\ tracker' = [tracker EXCEPT !.requests = @ \o s.expects]
              /\ given' = [given EXCEPT !.guest = @ + n]
    /\ UNCHANGED exchange

\* The upstream answers a request once it has its head; read_server_tls observes it.
HeadOf(k) == \E i \in 1 .. Len(upstreamGot) : upstreamGot[i].b = Byte("H", k)
UpstreamReads ==
    /\ ~refused
    /\ \E n \in 1 .. (Len(UpstreamStream) - given.upstream) :
          LET bytes == SubSeq(UpstreamStream, given.upstream + 1, given.upstream + n)
              s == ObserveServerPlaintext(Step(filter, <<>>, <<>>, FALSE), bytes)
          IN  /\ \A i \in 1 .. n : HeadOf(bytes[i].k)
              /\ Apply(s)
              /\ LET seen == Observe(tracker, bytes) IN tracker' = [seen EXCEPT !.requests = @ \o s.expects]
              /\ given' = [given EXCEPT !.upstream = @ + n]
    /\ UNCHANGED exchange

RelayNext == GuestReads \/ UpstreamReads
RelaySpec == RelayInit /\ [][RelayNext]_relayVars

RelayTypeOK ==
    /\ filter.body \in {"Headers", "Fixed", "Chunked", "Raw"} /\ filter.remaining \in 0 .. BodyLength
    /\ tracker.state \in {"Headers", "Fixed", "Chunked", "CloseDelimited", "Tunnel"}
    /\ Len(upstreamGot) <= Len(GuestStream) /\ refused \in BOOLEAN
-----------------------------------------------------------------------------
\* What the upstream must see of the guest's stream, however it was cut: every byte
\* once and in order, with secrets in the head, and in a body that is buffered, of
\* exactly the requests that name the connection's own host, and in nothing that
\* follows switched protocols.
Switched == exchange.r[1].status = "101" /\ filter.body = "Raw"
Expected(i) ==
    LET byte == GuestStream[i]
        q == exchange.q[byte.k]
    IN  [b |-> byte, secret |-> q.mark = "secret" /\ (byte.t \in {"h", "H"} \/ q.body = "Fixed") /\ ~(byte.k = 2 /\ Switched)]
\* A byte may wait in the filter behind a head that is not complete, or behind one
\* whose short body is still being collected.
MayWait(i) ==
    /\ filter.body = "Headers"
    /\ \/ \A j \in (Len(upstreamGot) + 1) .. i : GuestStream[j].t # "H"
       \/ exchange.q[GuestStream[Len(upstreamGot) + 1].k].body = "Fixed"
CutsDoNotMatter ==
    /\ \A i \in 1 .. Len(upstreamGot) : upstreamGot[i] = Expected(i)
    /\ ~refused /\ ~filter.upgrade => \A i \in (Len(upstreamGot) + 1) .. given.guest : MayWait(i)
    /\ \A i \in 1 .. Len(upstreamGot) : IsDispatch(upstreamGot[i].b.k) => Switched

\* The end of the upstream's stream is taken for a complete exchange only when every
\* request it was sent has its whole answer.
AnswerComplete(k) ==
    LET upto == Len(ResponseBytes(1, exchange.q[1], exchange.r[1])) + (IF k = 2 THEN Len(ResponseBytes(2, exchange.q[2], exchange.r[2])) ELSE 0)
    IN  given.upstream >= upto
        \/ /\ exchange.r[k].body = "CloseDelimited" /\ exchange.r[k].status = "200" /\ exchange.q[k].method # "Connect"
           /\ given.upstream >= upto - 1
EofSound == ResponseEof = "Complete" => \A k \in 1 .. 2 : HeadOf(k) => AnswerComplete(k)
=============================================================================
