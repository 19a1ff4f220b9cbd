----------------------------- MODULE UdpGateway -----------------------------
(***************************************************************************)
(* Datagrams between a guest and the world (agentdp-network:               *)
(* gateway/mod.rs, gateway/dns.rs, egress/udp.rs, application/dns.rs,      *)
(* policy.rs).  The gateway admits what the policy allows, a proxy per     *)
(* flow owns the host's socket, and the answers of the resolver tell the   *)
(* gateway which addresses belong to allowed hosts.  A turn of the event   *)
(* loop may run out of budget before any operation (Drive).                *)
(***************************************************************************)
EXTENDS Naturals, Sequences, SequencesExt, FiniteSets, IoSlot

CONSTANTS
    DnsCapacity,     \* bound: open questions and attributed addresses
    ProxyLimit,      \* bound: flows with a socket of their own
    ProxyTimeout,    \* how long a silent flow keeps it
    EventCapacity,   \* bound: events of one turn
    MaxClock,        \* bound: seconds that pass
    MaxDatagrams     \* bound: datagrams of the guest

VARIABLES
    uProxies,   \* UdpProxyTable: flow -> proxy, or NoProxy
    uSends,     \* datagrams to send
    uPending,   \* events a turn had no room for
    uEvents,    \* events handed to the event loop
    uDns,       \* DnsAttribution
    uKernel,    \* external: datagrams waiting in each socket, and whether it takes more
    uGuest,     \* answers the guest holds, and how much it has sent
    uClock,     \* seconds
    uTurn       \* where the turn is

udpVars == <<uProxies, uSends, uPending, uEvents, uDns, uKernel, uGuest, uClock, uTurn>>

\* One socket of the guest asks the gateway's resolver, one talks to a server.
Flows == {"ask", "talk"}
Allowed == {"good"}
Questions == {[id |-> 1, host |-> "good"], [id |-> 2, host |-> "good"], [id |-> 1, host |-> "bad"]}
Addresses == {"server", "private"}
Destination(flow) == IF flow = "talk" THEN "server" ELSE "resolver"
IsDnsUdp(flow) == flow # "talk"
NoProxy == [dns |-> FALSE, expires |-> 0, io |-> Cleared]

\* classify_udp_datagram.
Payloads == {[kind |-> "Dns", q |-> q] : q \in Questions}
            \cup {[kind |-> k] : k \in {"Raw", "Quic", "Placeholder"}}

PayloadsOn(flow) == {p \in Payloads : flow = "talk" \/ p.kind = "Dns"}

\* EgressPolicy::check_destination.
CheckDestination(address) == address # "private"

\* prepare_udp_payload, with secrets configured.
Prepares(payload) == payload.kind \in {"Dns", "Raw"}

\* An answer: its question, its records and their time to live.  A record gives a name
\* an address, or another name.
Records(host) == {{[name |-> host, to |-> "server"]},
                  {[name |-> host, to |-> "alias"], [name |-> "alias", to |-> "server"]},
                  {[name |-> "elsewhere", to |-> "server"]}}
AnswersTo(q) == [q : {q}, records : Records(q.host), ttl : {1, 2}]

\* dns_addresses_with_ttl: the addresses of the question's name and of every name it
\* is an alias of.
Accepted(answer) ==
    LET closed == {s \in SUBSET {"good", "bad", "alias", "elsewhere"} :
                     /\ answer.q.host \in s
                     /\ \A r \in answer.records : r.name \in s /\ r.to = "alias" => r.to \in s}
    IN  CHOOSE s \in closed : \A t \in closed : s \subseteq t
DnsAddressRecords(answer) ==
    {r.to : r \in {x \in answer.records : x.name \in Accepted(answer) /\ x.to \in Addresses}}
-----------------------------------------------------------------------------
Proxy(flow, dns) == [dns |-> dns, expires |-> uClock + ProxyTimeout, io |-> Registered("ReadWrite", FALSE)]

UdpInit ==
    /\ uProxies = [f \in Flows |-> NoProxy]
    /\ uSends = <<>> /\ uPending = <<>> /\ uEvents = <<>>
    /\ uDns = [pending |-> {}, records |-> {}, noRoom |-> {}]
    /\ uKernel = [f \in Flows |-> [inbox |-> <<>>, asked |-> {}, full |-> FALSE]]
    /\ uGuest = [holds |-> {}, sent |-> 0]
    /\ uClock = 0
    /\ uTurn = [at |-> "idle", left |-> 0, scan |-> {}, progress |-> FALSE]

\* Mutant: the open questions are not counted.
RecordQueryUncounted(dns, q) == [dns EXCEPT !.pending = @ \cup {q}]

\* DnsAttribution::record_query.
RecordQuery(dns, q) ==
    IF q \in dns.pending \/ Cardinality(dns.pending) = DnsCapacity THEN dns
    ELSE [dns EXCEPT !.pending = @ \cup {q}]

\* DnsAttribution::record, one address (an answer here gives at most one).
Record(dns, host, addresses, ttl) ==
    LET of(a) == {r \in dns.records : r.address = a /\ r.host = host}
        new == {[address |-> a, host |-> host, expires |-> uClock + ttl] : a \in addresses}
    IN  IF addresses = {} THEN dns
        ELSE IF (\E a \in addresses : of(a) # {}) \/ Cardinality(dns.records) < DnsCapacity
             THEN [dns EXCEPT !.records = (@ \ UNION {of(a) : a \in addresses}) \cup new,
                              !.noRoom = @ \ {<<host, a>> : a \in addresses}]
             ELSE [dns EXCEPT !.noRoom = @ \cup {<<host, a>> : a \in addresses}]

\* DnsAttribution::record_response: only the answer to an open question counts.
RecordResponse(dns, answer) ==
    IF answer.q \notin dns.pending THEN dns
    ELSE Record([dns EXCEPT !.pending = @ \ {answer.q}], answer.q.host, DnsAddressRecords(answer), answer.ttl)

Live(dns) == {r \in dns.records : r.expires > uClock}

\* DnsAttribution::has_allowed_authority_for_ip.
HasAllowedAuthorityForIp(address) ==
    \E r \in Live(uDns) : r.address = address /\ r.host \in Allowed

\* handle_guest_udp, and the queue of the proxies it ends in.
GuestSends(flow, payload) ==
    /\ uTurn.at = "idle" /\ uGuest.sent < MaxDatagrams
    /\ LET dns == IsDnsUdp(flow) \/ payload.kind = "Dns"
           admitted == /\ Prepares(payload)
                       /\ IsDnsUdp(flow) \/ CheckDestination(Destination(flow))
                       /\ dns \/ HasAllowedAuthorityForIp(Destination(flow))
           looked == IF Prepares(payload) /\ ~dns THEN [uDns EXCEPT !.records = Live(uDns)] ELSE uDns
       IN  /\ uGuest' = [uGuest EXCEPT !.sent = IF admitted THEN @ + 1 ELSE @]
           /\ uSends' = IF admitted THEN Append(uSends, [flow |-> flow, payload |-> payload, dns |-> dns]) ELSE uSends
           /\ uDns' = IF admitted /\ payload.kind = "Dns" THEN RecordQuery(looked, payload.q) ELSE looked
    /\ UNCHANGED <<uProxies, uPending, uEvents, uKernel, uClock, uTurn>>

\* allows_tcp_syn on a port that is not intercepted, which also forgets what expired.
GuestConnects(address) ==
    /\ uTurn.at = "idle" /\ CheckDestination(address)
    /\ uDns' = [uDns EXCEPT !.records = Live(uDns)]
    /\ UNCHANGED <<uProxies, uSends, uPending, uEvents, uKernel, uGuest, uClock, uTurn>>
-----------------------------------------------------------------------------
HasReadableProxy == \E f \in Flows : uProxies[f] # NoProxy /\ CanRead(uProxies[f].io)
Room == Len(uEvents) < EventCapacity

\* emit_or_queue.
EmitOrQueue(event) ==
    IF Room THEN uEvents' = Append(uEvents, event) /\ uPending' = uPending
    ELSE uEvents' = uEvents /\ uPending' = <<event>> \o uPending

\* drive_ready: the readiness of the sockets is latched and a turn starts.
DriveReady ==
    /\ uTurn.at = "idle" /\ uTurn' = [uTurn EXCEPT !.at = "loop"]
    /\ uProxies' = [f \in Flows |-> IF uProxies[f] = NoProxy THEN NoProxy
                     ELSE [uProxies[f] EXCEPT !.io = MarkReady(@, uKernel[f].inbox # <<>>, ~uKernel[f].full)]]
    /\ UNCHANGED <<uSends, uPending, uEvents, uDns, uKernel, uGuest, uClock>>

\* UdpProxies::drive: what did not fit goes first, then the sends, then the reads.
DriveLoop ==
    /\ uTurn.at = "loop"
    /\ \/ uTurn' = [uTurn EXCEPT !.at = "apply"] /\ UNCHANGED <<uPending, uEvents>>
       \/ /\ uPending # <<>> /\ Room
          /\ uEvents' = Append(uEvents, Head(uPending)) /\ uPending' = Tail(uPending) /\ UNCHANGED uTurn
       \/ /\ uPending = <<>> /\ (uSends # <<>> \/ HasReadableProxy)
          /\ uTurn' = [uTurn EXCEPT !.at = "sends", !.left = Len(uSends)]
          /\ UNCHANGED <<uPending, uEvents>>
    /\ UNCHANGED <<uProxies, uSends, uDns, uKernel, uGuest, uClock>>

\* remove_proxy and drop_proxy_queues.
RemoveProxy(flow) ==
    /\ uProxies' = [uProxies EXCEPT ![flow] = NoProxy]
    /\ uSends' = SelectSeq(uSends, LAMBDA s : s.flow # flow)
    /\ uKernel' = [uKernel EXCEPT ![flow] = [inbox |-> <<>>, asked |-> {}, full |-> FALSE]]

\* UdpProxyTable::send and send_existing: a new flow opens its socket; the write side is
\* watched until the datagram is out.
Sender(send) ==
    LET p == uProxies[send.flow]
        io == SetInterest(p.io, IF Writes(p.io.interest) THEN p.io.interest ELSE "ReadWrite")
    IN  IF p = NoProxy THEN Proxy(send.flow, send.dns)
        ELSE [dns |-> p.dns \/ send.dns, expires |-> uClock + ProxyTimeout, io |-> io]
Sent(send) ==
    /\ CanWrite(Sender(send).io) /\ ~uKernel[send.flow].full
    /\ uProxies' = [uProxies EXCEPT ![send.flow] = [Sender(send) EXCEPT !.io = SetInterest(@, "Readable")]]
    /\ uKernel' = IF send.payload.kind = "Dns" THEN [uKernel EXCEPT ![send.flow].asked = @ \cup {send.payload.q}] ELSE uKernel
    /\ uSends' = Tail(uSends)
    /\ UNCHANGED <<uEvents, uPending>>
WouldBlock(send) ==
    /\ CanWrite(Sender(send).io) => uKernel[send.flow].full
    /\ uProxies' = [uProxies EXCEPT ![send.flow] = [Sender(send) EXCEPT !.io = ClearWriteAfterWouldBlock(@)]]
    /\ uSends' = Append(Tail(uSends), send)
    /\ UNCHANGED <<uKernel, uEvents, uPending>>
SendFails(send) == RemoveProxy(send.flow) /\ EmitOrQueue([kind |-> "Error"])

\* drain_sends: every queued datagram once, unless the budget ends it.
DrainSends ==
    /\ uTurn.at = "sends"
    /\ \/ /\ uTurn.left > 0 /\ uSends # <<>>
          /\ LET send == Head(uSends)
                 free == uProxies[send.flow] # NoProxy \/ Cardinality({f \in Flows : uProxies[f] # NoProxy}) < ProxyLimit
             IN  \/ free /\ (Sent(send) \/ WouldBlock(send))
                 \/ SendFails(send)
          /\ uTurn' = [uTurn EXCEPT !.left = @ - 1]
       \/ /\ uTurn' = [uTurn EXCEPT !.at = "reads", !.left = 0, !.progress = FALSE,
                                    !.scan = {f \in Flows : uProxies[f] # NoProxy /\ CanRead(uProxies[f].io)}]
          /\ UNCHANGED <<uProxies, uSends, uKernel, uEvents, uPending>>
    /\ UNCHANGED <<uDns, uGuest, uClock>>

Resolved(answer) == [kind |-> "DnsResolved", host |-> answer.q.host, addresses |-> DnsAddressRecords(answer), ttl |-> answer.ttl]

\* Mutant: a resolution a turn has no room for is forgotten.
EventsOfDropping(flow, datagram) ==
    LET bytes == [kind |-> "Bytes", flow |-> flow, datagram |-> datagram]
        all == IF uProxies[flow].dns THEN <<bytes, Resolved(datagram)>> ELSE <<bytes>>
        fit == SubSeq(all, 1, EventCapacity - Len(uEvents))
    IN  [now |-> fit, later |-> IF fit = <<>> THEN <<bytes>> ELSE <<>>]

\* The events of a datagram that was read: its bytes, then what an answer resolved.
\* What the turn has no room for is pending, in order.
EventsOf(flow, datagram) ==
    LET bytes == [kind |-> "Bytes", flow |-> flow, datagram |-> datagram]
        all == IF uProxies[flow].dns THEN <<bytes, Resolved(datagram)>> ELSE <<bytes>>
        fit == SubSeq(all, 1, EventCapacity - Len(uEvents))
    IN  [now |-> fit, later |-> SubSeq(all, Len(fit) + 1, Len(all))]

\* drain_ready_reads: each readable socket until it has no more, or until the turn has
\* no room or no budget left.
DrainReadyReads ==
    /\ uTurn.at = "reads"
    /\ \/ /\ uTurn' = [uTurn EXCEPT !.at = IF uTurn.progress THEN "loop" ELSE "apply", !.scan = {}]
          /\ UNCHANGED <<uProxies, uSends, uKernel, uEvents, uPending>>
       \/ \E f \in uTurn.scan :
             \/ /\ uKernel[f].inbox # <<>>
                /\ LET e == EventsOf(f, Head(uKernel[f].inbox))
                   IN  /\ uEvents' = uEvents \o e.now /\ uPending' = e.later \o uPending
                       /\ uTurn' = [uTurn EXCEPT !.progress = TRUE, !.at = IF e.later = <<>> THEN @ ELSE "loop"]
                /\ uKernel' = [uKernel EXCEPT ![f].inbox = Tail(@)]
                /\ uProxies' = [uProxies EXCEPT ![f].expires = uClock + ProxyTimeout]
                /\ UNCHANGED uSends
             \/ /\ uKernel[f].inbox = <<>>
                /\ uProxies' = [uProxies EXCEPT ![f].io = ClearReadAfterWouldBlock(@)]
                /\ uTurn' = [uTurn EXCEPT !.scan = @ \ {f}]
                /\ UNCHANGED <<uSends, uKernel, uEvents, uPending>>
             \/ /\ RemoveProxy(f) /\ EmitOrQueue([kind |-> "Error"])
                /\ uTurn' = [uTurn EXCEPT !.scan = @ \ {f}]
    /\ UNCHANGED <<uDns, uGuest, uClock>>

\* expire_due: silent flows lose their socket and what they had to send.
ExpireDue ==
    /\ uTurn.at = "apply"
    /\ \E f \in Flows :
          /\ uProxies[f] # NoProxy /\ uProxies[f].expires <= uClock
          /\ RemoveProxy(f) /\ EmitOrQueue([kind |-> "Closed"])
    /\ UNCHANGED <<uDns, uGuest, uClock, uTurn>>

\* write_udp_response: the guest has the reply, and the gateway what it resolved.
WriteUdpResponse(answer) ==
    LET addresses == DnsAddressRecords(answer)
        older == {h \in uGuest.holds : h.host = answer.q.host /\ h.address \in addresses}
        new == {[host |-> answer.q.host, address |-> a, until |-> uClock + answer.ttl] : a \in addresses}
    IN  /\ uGuest' = [uGuest EXCEPT !.holds = (@ \ older) \cup new]
        /\ uDns' = RecordResponse(uDns, answer)

\* handle_udp_event, in order, until a reply finds the guest's queue full.
HandleUdpEvent ==
    /\ uTurn.at = "apply"
    /\ \/ uTurn' = [uTurn EXCEPT !.at = "idle"] /\ UNCHANGED <<uEvents, uDns, uGuest>>
       \/ /\ uEvents # <<>> /\ uEvents' = Tail(uEvents) /\ UNCHANGED uTurn
          /\ LET e == Head(uEvents)
             IN  CASE e.kind = "Bytes" -> WriteUdpResponse(e.datagram)
                   [] e.kind = "DnsResolved" -> uDns' = Record(uDns, e.host, e.addresses, e.ttl) /\ UNCHANGED uGuest
                   [] OTHER -> UNCHANGED <<uDns, uGuest>>
    /\ UNCHANGED <<uProxies, uSends, uPending, uKernel, uClock>>
-----------------------------------------------------------------------------
\* The resolver answers a question it was asked, a socket's buffer
\* fills and drains, and time passes, all between turns.
UpstreamAnswers ==
    /\ uTurn.at = "idle" /\ \E f \in Flows : \E q \in uKernel[f].asked : \E a \in AnswersTo(q) :
          uKernel' = [uKernel EXCEPT ![f].asked = @ \ {q}, ![f].inbox = Append(@, a)]
    /\ UNCHANGED <<uProxies, uSends, uPending, uEvents, uDns, uGuest, uClock, uTurn>>
UpstreamBuffer ==
    /\ uTurn.at = "idle" /\ \E f \in Flows : uProxies[f] # NoProxy /\ uKernel' = [uKernel EXCEPT ![f].full = ~@]
    /\ UNCHANGED <<uProxies, uSends, uPending, uEvents, uDns, uGuest, uClock, uTurn>>
Tick ==
    /\ uTurn.at = "idle" /\ uClock < MaxClock /\ uClock' = uClock + 1
    /\ UNCHANGED <<uProxies, uSends, uPending, uEvents, uDns, uKernel, uGuest, uTurn>>

UdpNext ==
    \/ \E f \in Flows : \E p \in PayloadsOn(f) : GuestSends(f, p)
    \/ \E a \in Addresses : GuestConnects(a)
    \/ DriveReady \/ DriveLoop \/ DrainSends \/ DrainReadyReads \/ ExpireDue \/ HandleUdpEvent
    \/ UpstreamAnswers \/ UpstreamBuffer \/ Tick
UdpSpec == UdpInit /\ [][UdpNext]_udpVars

UdpTypeOK ==
    /\ \A f \in Flows : uProxies[f] # NoProxy => uProxies[f].io \in Slots
    /\ Cardinality({f \in Flows : uProxies[f] # NoProxy}) <= ProxyLimit
    /\ Cardinality(uDns.records) <= DnsCapacity /\ Cardinality(uDns.pending) <= DnsCapacity
    /\ Len(uEvents) <= EventCapacity /\ uTurn.at \in {"idle", "loop", "sends", "reads", "apply"}
-----------------------------------------------------------------------------
\* An address the guest learned from an answer for an allowed host, and whose time to
\* live has not passed, is admitted: the answer is recorded before the guest can use
\* it, at the latest by the resolution that is still on its way, unless the table had
\* no room.
StillResolving(host, address) ==
    \E e \in ToSet(uEvents) \cup ToSet(uPending) : e.kind = "DnsResolved" /\ e.host = host /\ address \in e.addresses
AnswersAdmitted ==
    \A h \in uGuest.holds :
       h.host \in Allowed /\ h.until > uClock
       => \/ HasAllowedAuthorityForIp(h.address)
          \/ StillResolving(h.host, h.address)
          \/ <<h.host, h.address>> \in uDns.noRoom
=============================================================================
