----------------------------- MODULE MCServices -----------------------------
(***************************************************************************)
(* The services around the agent's control loop, each on a small instance. *)
(* A behaviour is one of its subject component, chosen in the initial      *)
(* state. The components with proofs are extended and have their own       *)
(* variables, of which only the subject's move; the DNS and UDP gateway is *)
(* instantiated, and v1, v2, ... hold its variables. So the states of the  *)
(* suite are the sum of the components' states and not their product.      *)
(***************************************************************************)
EXTENDS QemuVm, InstanceNetwork, BootstrapProgress, HostCredentials, TailscaleRoutes, PrNotifications

VARIABLES
    subject,   \* the component of this behaviour
    v1, v2, v3, v4, v5, v6, v7, v8, v9   \* the variables of the subject

\* Every table holds one entry, so that the second flow, question or event finds it full.
Udp == INSTANCE UdpGateway WITH
        DnsCapacity <- 1, ProxyLimit <- 1, ProxyTimeout <- 1, EventCapacity <- 1, MaxClock <- 1,
        MaxDatagrams <- 2,
        uProxies <- v1, uSends <- v2, uPending <- v3, uEvents <- v4, uDns <- v5, uKernel <- v6,
        uGuest <- v7, uClock <- v8, uTurn <- v9

registers == <<v1, v2, v3, v4, v5, v6, v7, v8, v9>>
extended == <<qemuVars, instVars, bootVars, credVars, routeVars, prVars>>
suiteVars == <<subject, registers, extended>>

\* The extended components that are not the subject rest in one initial state.
Rest ==
    /\ QemuInit /\ (subject # "qemu" => kind = "instance")
    /\ InstInit
    /\ BootInit
    /\ CredInit /\ (subject # "credentials" => ~oauth.rotates /\ life[1] = "fresh")
    /\ RouteInit
    /\ PrInit /\ (subject # "pull" => automation = "host")

Blank == v1 = 0 /\ v2 = 0 /\ v3 = 0 /\ v4 = 0 /\ v5 = 0 /\ v6 = 0 /\ v7 = 0 /\ v8 = 0 /\ v9 = 0

SuiteInit ==
    \/ subject = "qemu" /\ Rest /\ Blank
    \/ subject = "instance" /\ Rest /\ Blank
    \/ subject = "bootstrap" /\ Rest /\ Blank
    \/ subject = "credentials" /\ Rest /\ Blank
    \/ subject = "routes" /\ Rest /\ Blank
    \/ subject = "pull" /\ Rest /\ Blank
    \/ subject = "udp" /\ Rest /\ Udp!UdpInit

QemuVmStep == subject = "qemu" /\ QemuNext
              /\ UNCHANGED <<subject, registers, instVars, bootVars, credVars, routeVars, prVars>>
InstanceNetworkStep == subject = "instance" /\ InstNext
                       /\ UNCHANGED <<subject, registers, qemuVars, bootVars, credVars, routeVars, prVars>>
BootstrapProgressStep == subject = "bootstrap" /\ BootNext
                         /\ UNCHANGED <<subject, registers, qemuVars, instVars, credVars, routeVars, prVars>>
HostCredentialsStep == subject = "credentials" /\ CredNext
                       /\ UNCHANGED <<subject, registers, qemuVars, instVars, bootVars, routeVars, prVars>>
TailscaleRoutesStep == subject = "routes" /\ RouteNext
                       /\ UNCHANGED <<subject, registers, qemuVars, instVars, bootVars, credVars, prVars>>
PrNotificationsStep == subject = "pull" /\ PrNext
                       /\ UNCHANGED <<subject, registers, qemuVars, instVars, bootVars, credVars, routeVars>>
UdpGatewayStep == subject = "udp" /\ Udp!UdpNext /\ UNCHANGED <<subject, extended>>

SuiteNext ==
    \/ QemuVmStep \/ InstanceNetworkStep \/ BootstrapProgressStep
    \/ HostCredentialsStep \/ TailscaleRoutesStep \/ PrNotificationsStep
    \/ UdpGatewayStep

SuiteSpec == SuiteInit /\ [][SuiteNext]_suiteVars
-----------------------------------------------------------------------------
\* Every component keeps its variables in their types, its queues and tables within their
\* capacities, and an event of a network that finds its ring full is counted as dropped
\* (instance_network/output.rs).
ServicesTypeOK ==
    /\ subject = "qemu" => QemuTypeOK
    /\ subject = "instance" => InstTypeOK
    /\ subject = "bootstrap" => BootTypeOK
    /\ subject = "credentials" => CredTypeOK
    /\ subject = "routes" => RouteTypeOK
    /\ subject = "pull" => PrTypeOK
    /\ subject = "udp" => Udp!UdpTypeOK
    /\ subject = "instance" => DropsAccounted

\* An address the guest got from a DNS answer for an allowed host is admitted as long as the
\* answer is valid, unless the attribution table had no room (gateway/dns.rs, egress/udp.rs).
AnswersAdmitted ==
    /\ subject = "udp" => Udp!AnswersAdmitted
=============================================================================
