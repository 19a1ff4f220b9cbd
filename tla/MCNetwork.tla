----------------------------- MODULE MCNetwork ------------------------------
(***************************************************************************)
(* The components of the network library, each on a small instance. A      *)
(* behaviour is one of its subject component, chosen in the initial state. *)
(* The components with proofs are extended and have their own variables,   *)
(* of which only the subject's move; the others are instantiated, and v1,  *)
(* v2, ... hold the subject's variables. So the states of the suite are    *)
(* the sum of the components' states and not their product.                *)
(***************************************************************************)
EXTENDS Spsc, Drive, Reactor

VARIABLES
    subject,   \* the component of this behaviour
    v1, v2, v3, v4, v5, v6, v7, v8, v9, v10, v11, v12, v13   \* the variables of the subject

\* One chunk in each direction; the pass can stop for its budget before and after it.
Tcp == INSTANCE TcpEgress WITH
        MaxChunk <- 1,
        pass <- v1, spent <- v2, entry <- v3, proxy <- v4, tcpIo <- v5, kept <- v6, sock <- v7,
        ups <- v8, edge <- v9, count <- v10

\* One data token each way beside the handshake and close tokens.
Tls == INSTANCE TlsProxy WITH
        MaxData <- 1,
        tp <- v1, tu <- v2, tIo <- v3, tEdge <- v4, turn <- v5, tNet <- v6

\* Two connections for a table of one.
Hp == INSTANCE HostPorts WITH
        MaxTcpConnections <- 1, MaxAccepts <- 2, PortBudget <- 2, MaxChunks <- 1,
        listening <- v1, nextId <- v2, conns <- v3, deferred <- v4, portBudget <- v5,
        udpPending <- v6, udpBound <- v7, udpError <- v8, peerSent <- v9, toldOf <- v10,
        readTotal <- v11, accepted <- v12, written <- v13

\* Two requests; a body of two bytes can be cut before, between and after them.
Http == INSTANCE Http1Relay WITH
        BodyLength <- 2,
        exchange <- v1, filter <- v2, tracker <- v3, upstreamGot <- v4, given <- v5,
        refused <- v6

\* One buffer above the reserve of the pool; a datagram can be too large for every class.
Gf == INSTANCE GuestFrames WITH
        FramePoolCapacity <- 4, DeviceCapacity <- 4, OutputCapacity <- 2,
        ByteSizes <- [small |-> 1, medium |-> 2], BytePoolCapacity <- 1, MaxPayload <- 3,
        WireUnits <- 2,
        free <- v1, bytesFree <- v2, guestIn <- v3, rx <- v4, tx <- v5, out <- v6, udpOut <- v7,
        outbound <- v8, partial <- v9, toGuest <- v10, toHost <- v11, qemu <- v12

\* Two requests of every shape on one connection.
Dk == INSTANCE DockerProxy WITH
        shapes <- v1, wireUp <- v2, dSent <- v3, continued <- v4, dProxy <- v5, daemonGot <- v6,
        answer <- v7, clientGot <- v8

registers == <<v1, v2, v3, v4, v5, v6, v7, v8, v9, v10, v11, v12, v13>>
extended == <<vars, driveVars, reactorVars>>
suiteVars == <<subject, registers, extended>>

\* The extended components that are not the subject rest in one initial state.
Rest ==
    /\ Init
    /\ DriveInit
    /\ ReactorInit

Blank == v1 = 0 /\ v2 = 0 /\ v3 = 0 /\ v4 = 0 /\ v5 = 0 /\ v6 = 0 /\ v7 = 0 /\ v8 = 0
         /\ v9 = 0 /\ v10 = 0 /\ v11 = 0 /\ v12 = 0 /\ v13 = 0

SuiteInit ==
    \/ subject = "spsc" /\ Rest /\ Blank
    \/ subject = "drive" /\ Rest /\ Blank
    \/ subject = "reactor" /\ Rest /\ Blank
    \/ subject = "tcp" /\ Rest /\ Tcp!TcpInit /\ v11 = 0 /\ v12 = 0 /\ v13 = 0
    \/ subject = "tls" /\ Rest /\ Tls!TlsInit /\ v7 = 0 /\ v8 = 0 /\ v9 = 0 /\ v10 = 0
       /\ v11 = 0 /\ v12 = 0 /\ v13 = 0
    \/ subject = "ports" /\ Rest /\ Hp!PortsInit
    \/ subject = "http" /\ Rest /\ Http!RelayInit /\ v7 = 0 /\ v8 = 0 /\ v9 = 0 /\ v10 = 0
       /\ v11 = 0 /\ v12 = 0 /\ v13 = 0
    \/ subject = "frames" /\ Rest /\ Gf!FrameInit /\ v13 = 0
    \/ subject = "docker" /\ Rest /\ Dk!DockerInit /\ v9 = 0 /\ v10 = 0 /\ v11 = 0 /\ v12 = 0
       /\ v13 = 0

SpscStep == subject = "spsc" /\ Next /\ UNCHANGED <<subject, registers, driveVars, reactorVars>>
DriveStep == subject = "drive" /\ DriveNext
             /\ UNCHANGED <<subject, registers, vars, reactorVars>>
ReactorStep == subject = "reactor" /\ ReactorNext
               /\ UNCHANGED <<subject, registers, vars, driveVars>>
TcpEgressStep == subject = "tcp" /\ Tcp!TcpNext
                 /\ UNCHANGED <<subject, extended, v11, v12, v13>>
TlsProxyStep == subject = "tls" /\ Tls!TlsNext
                /\ UNCHANGED <<subject, extended, v7, v8, v9, v10, v11, v12, v13>>
HostPortsStep == subject = "ports" /\ Hp!PortsNext /\ UNCHANGED <<subject, extended>>
Http1RelayStep == subject = "http" /\ Http!RelayNext
                  /\ UNCHANGED <<subject, extended, v7, v8, v9, v10, v11, v12, v13>>
GuestFramesStep == subject = "frames" /\ Gf!FrameNext /\ UNCHANGED <<subject, extended, v13>>
DockerProxyStep == subject = "docker" /\ Dk!DockerNext
                   /\ UNCHANGED <<subject, extended, v9, v10, v11, v12, v13>>

SuiteNext ==
    \/ SpscStep \/ DriveStep \/ ReactorStep \/ TcpEgressStep \/ TlsProxyStep
    \/ HostPortsStep \/ Http1RelayStep \/ GuestFramesStep \/ DockerProxyStep

SuiteSpec == SuiteInit /\ [][SuiteNext]_suiteVars
-----------------------------------------------------------------------------
\* Every component keeps its variables in their types, its tables within their capacities and
\* its counters within their widths.
NetTypeOK ==
    /\ subject = "spsc" => TypeOK
    /\ subject = "drive" => DriveTypeOK
    /\ subject = "reactor" => ReactorTypeOK
    /\ subject = "tcp" => Tcp!TcpTypeOK
    /\ subject = "tls" => Tls!TlsTypeOK
    /\ subject = "ports" => Hp!PortsTypeOK
    /\ subject = "http" => Http!RelayTypeOK
    /\ subject = "frames" => Gf!FrameTypeOK
    /\ subject = "docker" => Dk!DockerTypeOK

\* Work that is left always has somebody who comes back to it: a connection with work is
\* runnable or has an edge coming (egress/tcp/mod.rs), except for reads of an upstream whose
\* mask was lifted in a pass the budget cut short, and the frame path between QEMU and
\* smoltcp never stands still on its buffers (buffers/pool.rs).
NoLostWakeup ==
    /\ subject = "tcp" => Tcp!NotForgotten
    /\ subject = "frames" => Gf!NoStandstill

\* No byte of a stream is lost, doubled or reordered between its two ends: TCP egress,
\* intercepted TLS uploads, host port connections and the frames written to QEMU's stream,
\* whatever is cut short by budgets, full queues and closes.
StreamsIntact ==
    /\ subject = "tcp" => Tcp!StreamIntact
    /\ subject = "tls" => Tls!UploadIntact
    /\ subject = "ports" => Hp!HostStreamsInOrder
    /\ subject = "frames" => Gf!GuestFramed

\* Where a message ends does not depend on how reads cut the stream: HTTP/1 requests and
\* answers relayed with secrets put in (http1.rs), and Docker API requests passed to the
\* daemon, with nobody left waiting for a 100 Continue (docker proxy).
MessagesFramed ==
    /\ subject = "http" => Http!CutsDoNotMatter /\ Http!EofSound
    /\ subject = "docker" => Dk!RequestsFramed /\ Dk!NobodyHeldBack
=============================================================================
