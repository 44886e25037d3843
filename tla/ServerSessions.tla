--------------------------- MODULE ServerSessions ---------------------------
(***************************************************************************)
(* The server's table of sessions (server.cpp, UdpListener).  There is no   *)
(* handshake: a datagram with an unknown endpoint and conversation id       *)
(* creates a KcpTransport and a SmuxSession, also when it comes late, from  *)
(* a client that is gone or for a session that has just been closed.        *)
(*                                                                         *)
(* A session object outlives its entry in sessions_ (its keepalive timer    *)
(* holds it), so instances are numbered in the order they were created.     *)
(* What a session does with its input is left out; a datagram that does not *)
(* decrypt is one that is lost, and loss is a datagram that never arrives.  *)
(***************************************************************************)
EXTENDS Integers, Sequences, FiniteSets, Functions

Kind == {"data", "parity"}

CONSTANTS
    Clients,        \* connections clients make
    Endpoint,       \* [Clients -> UDP endpoints], as the server sees them
    Conv,           \* [Clients -> conversation ids]
    MaxSends        \* [Kind -> Nat], bound: datagrams of a client, repeats included

ASSUME ServerAssumption ==
    /\ IsFiniteSet(Clients) /\ MaxSends \in [Kind -> Nat]
    /\ \A b, c \in Clients : Endpoint[b] = Endpoint[c] /\ Conv[b] = Conv[c] => b = c

VARIABLES
    clientOpen,    \* [Clients -> BOOLEAN]
    sends,         \* [Clients \X Kind -> Nat]: datagrams sent
    net,           \* [Clients \X Kind -> Nat]: datagrams under way
    sessions,      \* sessions_: [keys -> instance]
    instances,     \* all sessions created
    curr_estab     \* snmp counter

vars == <<clientOpen, sends, net, sessions, instances, curr_estab>>

\* Mutation: conversations of one endpoint share a session.
KeyByEndpoint(c) == <<Endpoint[c]>>

\* endpoint_key.
Key(c) == <<Endpoint[c], Conv[c]>>

-----------------------------------------------------------------------------
\* The table without the given key: the erase in the close handler.
Erase(key) == Restrict(sessions, DOMAIN sessions \ {key})

\* Mutation: KcpTransport::close does not remember that it ran.
TransportCloseAgain(k, record) ==
    /\ instances' = [instances EXCEPT ![k] = [record EXCEPT !.closing = TRUE]]
    /\ sessions' = Erase(record.key)
    /\ curr_estab' = curr_estab - 1

\* KcpTransport::close and the close handler handle_packet gave it.
TransportClose(k, record) ==
    /\ instances' = [instances EXCEPT ![k] = [record EXCEPT !.closing = TRUE]]
    /\ IF record.closing THEN UNCHANGED <<sessions, curr_estab>>
       ELSE /\ sessions' = Erase(record.key)
            /\ curr_estab' = IF curr_estab > 0 THEN curr_estab - 1 ELSE 0

\* Input to a session changes nothing of this module but what it was fed.
Input(k, c, kind) == [instances EXCEPT ![k].fed = @ \cup {<<c, kind>>}]

\* A datagram that carries a KCP packet: handle_packet with a payload offset.
HandleData(c) ==
    \/ /\ Key(c) \in DOMAIN sessions
       /\ instances' = Input(sessions[Key(c)], c, "data")
       /\ UNCHANGED <<sessions, curr_estab>>
    \/ /\ Key(c) \notin DOMAIN sessions
       /\ instances' = Append(instances,
             [key |-> Key(c), endpoint |-> Endpoint[c], conv |-> Conv[c],
              closing |-> FALSE, smux_closed |-> FALSE, fed |-> {<<c, "data">>}])
       /\ sessions' = [key \in DOMAIN sessions \cup {Key(c)} |->
                          IF key = Key(c) THEN Len(instances) + 1 ELSE sessions[key]]
       /\ curr_estab' = curr_estab + 1

\* A parity datagram carries no conversation id: it is taken only if the
\* endpoint has exactly one session.
HandleParity(c) ==
    LET here == {key \in DOMAIN sessions : instances[sessions[key]].endpoint = Endpoint[c]}
    IN  /\ instances' = IF Cardinality(here) = 1
                        THEN Input(sessions[CHOOSE key \in here : TRUE], c, "parity")
                        ELSE instances
        /\ UNCHANGED <<sessions, curr_estab>>

\* A datagram reaches the listener.
HandlePacket(c, kind) ==
    /\ net[<<c, kind>>] > 0
    /\ net' = [net EXCEPT ![<<c, kind>>] = @ - 1]
    /\ \/ kind = "data" /\ HandleData(c)
       \/ kind = "parity" /\ HandleParity(c)
    /\ UNCHANGED <<clientOpen, sends>>

\* keepalive_tick or protocol_error of instance k: SmuxSession::close.
SessionEnds(k) ==
    /\ ~instances[k].smux_closed
    /\ TransportClose(k, [instances[k] EXCEPT !.smux_closed = TRUE])
    /\ UNCHANGED <<clientOpen, sends, net>>

\* Mutation: last_activity_ is not looked at, only a closed transport ends a session.
SilentWithoutTransport(k) == instances[k].closing

\* Nothing is decoded for a session whose client is gone or whose transport is
\* closed, so its keepalive timer ends it.
Silent(k) ==
    \/ instances[k].closing
    \/ \A c \in Clients : Key(c) = instances[k].key => ~clientOpen[c]

\* send_udp cannot encrypt a packet: the transport is closed, the session not.
EncryptionFails(k) ==
    /\ ~instances[k].closing
    /\ TransportClose(k, instances[k])
    /\ UNCHANGED <<clientOpen, sends, net>>

-----------------------------------------------------------------------------
(* The clients and the network.                                             *)
Send(c, kind) ==
    /\ clientOpen[c] \/ net[<<c, kind>>] > 0          \* a new datagram, or a repeated one
    /\ sends[<<c, kind>>] < MaxSends[kind]
    /\ sends' = [sends EXCEPT ![<<c, kind>>] = @ + 1]
    /\ net' = [net EXCEPT ![<<c, kind>>] = @ + 1]
    /\ UNCHANGED <<clientOpen, sessions, instances, curr_estab>>

ClientClose(c) ==
    /\ clientOpen[c]
    /\ clientOpen' = [clientOpen EXCEPT ![c] = FALSE]
    /\ UNCHANGED <<sends, net, sessions, instances, curr_estab>>

Init ==
    /\ clientOpen = [c \in Clients |-> TRUE]
    /\ sends = [d \in Clients \X Kind |-> 0]
    /\ net = [d \in Clients \X Kind |-> 0]
    /\ sessions = Restrict([k \in {<<>>} |-> 0], {})
    /\ instances = <<>>
    /\ curr_estab = 0

Next ==
    \/ \E c \in Clients, kind \in Kind : Send(c, kind) \/ HandlePacket(c, kind)
    \/ \E c \in Clients : ClientClose(c)
    \/ \E k \in DOMAIN instances : SessionEnds(k) \/ EncryptionFails(k)

Spec == Init /\ [][Next]_vars

(* The keepalive timer of a session runs until the session is closed, and   *)
(* no datagram is repeated for ever.                                        *)
Fairness ==
    \A k \in 1..(Cardinality(Clients) * MaxSends["data"]) :
        WF_vars(k \in DOMAIN instances /\ Silent(k) /\ SessionEnds(k))

FairSpec == Spec /\ Fairness

-----------------------------------------------------------------------------
(* The state is well typed: sessions_ refers to sessions that were created, *)
(* CurrEstab is never negative.                                             *)
TypeOK ==
    /\ clientOpen \in [Clients -> BOOLEAN]
    /\ \A c \in Clients, kind \in Kind :
          sends[<<c, kind>>] \in 0..MaxSends[kind] /\ net[<<c, kind>>] \in 0..sends[<<c, kind>>]
    /\ curr_estab \in Nat
    /\ \A key \in DOMAIN sessions : sessions[key] \in DOMAIN instances
    /\ \A k \in DOMAIN instances : instances[k].fed \subseteq Clients \X Kind

(* The table holds exactly the sessions whose transport is open, each under *)
(* its own key, and CurrEstab counts them: when a session object that has   *)
(* lost its transport is closed later, it does not take the entry of the    *)
(* session that was created for the same client in between.                 *)
TableExact ==
    /\ \A k \in DOMAIN instances :
          ~instances[k].closing <=>
              instances[k].key \in DOMAIN sessions /\ sessions[instances[k].key] = k
    /\ curr_estab = Cardinality(DOMAIN sessions)

(* A session is fed only what came from its endpoint and, parity apart,    *)
(* what belongs to its conversation.                                        *)
FedByOwner ==
    \A k \in DOMAIN instances : \A f \in instances[k].fed :
        /\ Endpoint[f[1]] = instances[k].endpoint
        /\ f[2] = "data" => Conv[f[1]] = instances[k].conv

(* Sessions of clients that are gone, recreated by late datagrams or not,   *)
(* all end, and so does every session object without a transport.           *)
ZombiesEnd ==
    <>[]( /\ \A c \in Clients : ~clientOpen[c] => Key(c) \notin DOMAIN sessions
          /\ \A k \in DOMAIN instances : instances[k].closing => instances[k].smux_closed )
=============================================================================
