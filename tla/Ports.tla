------------------------------- MODULE Ports -------------------------------
(***************************************************************************)
(* Multi-port addresses from the text to the sockets: what parse_multiport  *)
(* takes (utils.cpp), the constructors and start() of Server and Client     *)
(* (server.cpp, client.cpp) with the loop that opens one UDP listener per   *)
(* port of a range, and the port the client picks for each connection.      *)
(*                                                                         *)
(* The service part of an address is a sequence of the one or two texts     *)
(* around its dash, each a number or NotANumber; Malformed is an address    *)
(* without a service.  The host part is left out.                           *)
(***************************************************************************)
EXTENDS Integers, Sequences

CONSTANTS
    Addresses, Endpoints,   \* what listen and remoteaddr, target and localaddr may say
    Malformed, NotANumber,
    MaxPort                 \* 65535 in the code

\* An address that parse_multiport splits has one or two texts.
PortsAssumption ==
    /\ MaxPort \in Nat
    /\ \A a \in Addresses \cup Endpoints :
          a # Malformed => a \in Seq(Nat \cup {NotANumber}) /\ Len(a) \in 1..2

VARIABLES
    given,      \* the four configured addresses
    server,     \* "new", "binding", "running" or "failed"
    port,       \* the variable of the loop in Server::start
    bound,      \* for each port, how many listeners have bound it
    client,     \* "new", "starting", "running" or "failed"
    dialled     \* the ports the client has sent connections to

vars == <<given, server, port, bound, client, dialled>>

AllPorts == 0..MaxPort

\* parse_port and parse_multiport: do they return, and which ports then?
PortTextOK(n) == n # NotANumber /\ n # 0 /\ n <= MaxPort

Parses(a) ==
    /\ a # Malformed
    /\ \A i \in DOMAIN a : PortTextOK(a[i])
    /\ a[1] <= a[Len(a)]

PortsOf(a) == a[1]..a[Len(a)]

\* A target or localaddr that does not parse is taken for the path of a Unix
\* socket; one that parses must be a single port.
EndpointTaken(a) == Parses(a) => a[1] = a[Len(a)]

\* An exception out of the constructor or start() ends main; every listener
\* opened before goes with the process.
Fail == server' = "failed" /\ bound' = [p \in AllPorts |-> 0]

\* Server::Server.
ConstructServer ==
    /\ server = "new"
    /\ \/ /\ Parses(given.listen) /\ EndpointTaken(given.target)
          /\ server' = "binding" /\ port' = given.listen[1]
          /\ UNCHANGED bound
       \/ /\ ~(Parses(given.listen) /\ EndpointTaken(given.target))
          /\ Fail /\ UNCHANGED port
    /\ UNCHANGED <<given, client, dialled>>

\* Mutation: the loop only stops when its 16-bit variable has passed the range.
LastPortNeverRecognised(p) == FALSE

LastPort(p) == p = MaxPort

\* One round of the loop in Server::start: UdpListener::start may throw.
Bind ==
    /\ server = "binding"
    /\ \/ port > given.listen[Len(given.listen)] /\ server' = "running" /\ UNCHANGED <<port, bound>>
       \/ /\ port <= given.listen[Len(given.listen)]
          /\ \/ Fail /\ UNCHANGED port
             \/ /\ bound' = [bound EXCEPT ![port] = @ + 1]
                /\ \/ LastPort(port) /\ server' = "running" /\ UNCHANGED port
                   \/ ~LastPort(port) /\ port' = (port + 1) % (MaxPort + 1) /\ UNCHANGED server
    /\ UNCHANGED <<given, client, dialled>>

\* Client::Client.
ConstructClient ==
    /\ client = "new"
    /\ client' = IF Parses(given.remoteaddr) /\ EndpointTaken(given.localaddr) THEN "starting" ELSE "failed"
    /\ UNCHANGED <<given, server, port, bound, dialled>>

\* Client::start: opening the TCP or Unix acceptor may throw.
StartClient ==
    /\ client = "starting"
    /\ client' \in {"running", "failed"}
    /\ UNCHANGED <<given, server, port, bound, dialled>>

\* pick_remote_endpoint with choose_port, for a new connection.
Dial ==
    /\ client = "running"
    /\ \E p \in PortsOf(given.remoteaddr) : dialled' = dialled \cup {p}
    /\ UNCHANGED <<given, server, port, bound, client>>

Init ==
    /\ given \in [listen : Addresses, remoteaddr : Addresses, target : Endpoints, localaddr : Endpoints]
    /\ server = "new" /\ client = "new"
    /\ port = 0 /\ bound = [p \in AllPorts |-> 0]
    /\ dialled = {}

Next == ConstructServer \/ Bind \/ ConstructClient \/ StartClient \/ Dial

Spec == Init /\ [][Next]_vars

-----------------------------------------------------------------------------
(* No port is ever bound twice and none outside the range of listen is      *)
(* bound; and when client and server are configured with the same range and *)
(* the server is up, every port a connection may be dialled to, the highest *)
(* included, has its listener.                                              *)
PortsCovered ==
    /\ \A p \in AllPorts : bound[p] > 0 => bound[p] = 1 /\ p \in PortsOf(given.listen)
    /\ server = "running" /\ given.remoteaddr = given.listen =>
           \A p \in dialled : p > 0 /\ bound[p] = 1
=============================================================================
