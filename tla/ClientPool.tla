----------------------------- MODULE ClientPool -----------------------------
(***************************************************************************)
(* The client's pool of connections (client.cpp): `conn` slots used in      *)
(* turn, each holding a UDP socket with a KcpTransport and a SmuxSession,   *)
(* replaced when it is closed or past autoexpire and closed by a scavenge   *)
(* timer scavengettl seconds later; and the connection counters of          *)
(* stats.cpp.  Each connection has a chain of receives on its socket, which *)
(* also keeps the Connection, and with it the socket its transport refers   *)
(* to, alive after its slot has been given to another.                      *)
(*                                                                         *)
(* Time is counted in seconds.  A timer that is due fires before the clock  *)
(* moves on.                                                                *)
(***************************************************************************)
EXTENDS Integers, Sequences, FiniteSets

CONSTANTS
    Configs,       \* configurations: conn, autoexpire (0: never), scavengettl
    Convs,         \* conversation ids random_conv may draw
    Wrap,          \* range of the size_t rr_
    MaxConns,      \* bound: connections created
    MaxTime        \* bound: seconds

ASSUME PoolAssumption ==
    /\ Configs \subseteq [conn : Nat \ {0}, autoexpire : Nat, scavengettl : Nat]
    /\ Wrap \in Nat \ {0}
    /\ MaxConns \in Nat /\ MaxTime \in Nat

VARIABLES
    config,       \* the configuration of this client
    now, rr,
    slot,         \* [Slots -> 0 or the number of a connection]
    conns,        \* all connections created, in order
    transports,   \* transports_: the conversation ids in use
    snmp          \* active_opens, curr_estab, max_conn

vars == <<config, now, rr, slot, conns, transports, snmp>>

Conn == config.conn
AutoExpire == config.autoexpire
ScavengeTtl == config.scavengettl

Slots == 0..(Conn - 1)  \* muxes_
NoTimer == -1

\* The receive of a connection: outstanding, completed with one of three
\* results whose handler has not run, or not issued again.
Completed == {"datagram", "error", "aborted"}

\* Connections whose KcpTransport has not been closed.
Open == {c \in DOMAIN conns : ~conns[c].closing}

-----------------------------------------------------------------------------
(* stats.cpp *)

SnmpConnectionOpen(r) ==
    LET current == r.curr_estab + 1
    IN  [active_opens |-> r.active_opens + 1, curr_estab |-> current,
         max_conn |-> IF current > r.max_conn THEN current ELSE r.max_conn]

SnmpConnectionClose(r) ==
    [r EXCEPT !.curr_estab = IF @ > 0 THEN @ - 1 ELSE 0]

-----------------------------------------------------------------------------
\* Mutation: a transport runs its close handler every time.
TransportCloseAgain(c, record) ==
    /\ conns' = [conns EXCEPT ![c] = [record EXCEPT !.closing = TRUE]]
    /\ transports' = transports \ {record.conv}
    /\ snmp' = SnmpConnectionClose(snmp)

\* KcpTransport::close and the close handler create_connection gave it; the
\* connection ends up as `record` with its transport closed, its socket too.
TransportClose(c, record) ==
    /\ conns' = [conns EXCEPT ![c] =
          [record EXCEPT !.closing = TRUE,
                         !.receive = IF @ = "outstanding" THEN "aborted" ELSE @]]
    /\ IF record.closing THEN UNCHANGED <<transports, snmp>>
       ELSE /\ transports' = transports \ {record.conv}
            /\ snmp' = SnmpConnectionClose(snmp)

\* SmuxSession::close.
SmuxClose(c, record) ==
    IF record.smux_closed
    THEN conns' = [conns EXCEPT ![c] = record] /\ UNCHANGED <<transports, snmp>>
    ELSE TransportClose(c, [record EXCEPT !.smux_closed = TRUE])

\* next_conv.
FreeConvs == Convs \ transports

\* Mutation: no scavenge timer.
ScavengeTimeNever == NoTimer

\* When the scavenge timer of a connection created now will fire.
ScavengeTime == IF AutoExpire > 0 THEN now + AutoExpire + ScavengeTtl ELSE NoTimer

\* create_connection for slot i.
CreateConnection(i) ==
    \E conv \in FreeConvs :
        /\ Len(conns) < MaxConns
        /\ conns' = Append(conns,
              [conv |-> conv, slot |-> i, born |-> now, expiry |-> now + AutoExpire,
               smux_closed |-> FALSE, closing |-> FALSE, scavenge |-> ScavengeTime,
               receive |-> "outstanding"])
        /\ slot' = [slot EXCEPT ![i] = Len(conns) + 1]
        /\ transports' = transports \cup {conv}
        /\ snmp' = SnmpConnectionOpen(snmp)

\* ensure_session may hand out the session that slot i holds.
Usable(i) ==
    /\ slot[i] # 0 /\ ~conns[slot[i]].smux_closed
    /\ AutoExpire = 0 \/ now < conns[slot[i]].expiry

\* rr_++ on a size_t.
Advance(n) == (n + 1) % Wrap

\* handle_accept up to open_stream.  Resolving the server may throw, which is
\* logged; the slot is used up all the same.
HandleAccept ==
    LET i == rr % Conn
    IN  /\ rr' = Advance(rr)
        /\ \/ /\ Usable(i)
              /\ UNCHANGED <<slot, conns, transports, snmp>>
           \/ /\ ~Usable(i)
              /\ \/ CreateConnection(i)
                 \/ UNCHANGED <<slot, conns, transports, snmp>>
        /\ UNCHANGED <<config, now>>

\* The scavenge timer of connection c.
Scavenge(c) ==
    /\ conns[c].scavenge # NoTimer /\ conns[c].scavenge <= now
    /\ SmuxClose(c, [conns[c] EXCEPT !.scavenge = NoTimer])
    /\ UNCHANGED <<config, now, rr, slot>>

\* keepalive_tick finds the peer silent.
SessionEnds(c) ==
    /\ ~conns[c].smux_closed
    /\ SmuxClose(c, conns[c])
    /\ UNCHANGED <<config, now, rr, slot>>

\* send_udp cannot encrypt a packet: the transport is closed, the session not.
EncryptionFails(c) ==
    /\ ~conns[c].closing
    /\ TransportClose(c, conns[c])
    /\ UNCHANGED <<config, now, rr, slot>>

\* The kernel completes a receive.
Completes(c) ==
    /\ conns[c].receive = "outstanding"
    /\ \E result \in Completed \ {"aborted"} : conns' = [conns EXCEPT ![c].receive = result]
    /\ UNCHANGED <<config, now, rr, slot, transports, snmp>>

\* async_receive_from: on a closed socket it completes at once with an error.
Received(record) == [record EXCEPT !.receive = IF record.closing THEN "error" ELSE "outstanding"]

\* Mutation: an error ends the chain of receives.
ReceiveAgainUnlessError(record) ==
    IF record.closing \/ record.receive = "error" THEN [record EXCEPT !.receive = "ended"] ELSE Received(record)

\* The end of the receive handler.
ReceiveAgain(record) ==
    IF record.closing THEN [record EXCEPT !.receive = "ended"] ELSE Received(record)

\* The handler of start_udp_receive.  A datagram that cannot be decrypted is
\* dropped before is_open() is asked; any other goes into the transport, where
\* a frame in error closes the session.
HandleReceive(c) ==
    /\ conns[c].receive \in Completed
    /\ \/ /\ conns[c].receive = "datagram"
          /\ conns' = [conns EXCEPT ![c] = Received(@)]
          /\ UNCHANGED <<transports, snmp>>
       \/ /\ conns' = [conns EXCEPT ![c] = ReceiveAgain(@)]
          /\ UNCHANGED <<transports, snmp>>
       \/ /\ conns[c].receive = "datagram" /\ ~conns[c].closing
          /\ SmuxClose(c, [conns[c] EXCEPT !.receive = "ended"])
    /\ UNCHANGED <<config, now, rr, slot>>

Tick ==
    /\ now < MaxTime
    /\ \A c \in DOMAIN conns : conns[c].scavenge # NoTimer => conns[c].scavenge > now
    /\ now' = now + 1
    /\ UNCHANGED <<config, rr, slot, conns, transports, snmp>>

Init ==
    /\ config \in Configs
    /\ now = 0 /\ rr = 0
    /\ slot = [i \in Slots |-> 0]
    /\ conns = <<>> /\ transports = {}
    /\ snmp = [active_opens |-> 0, curr_estab |-> 0, max_conn |-> 0]

Next ==
    \/ HandleAccept
    \/ \E c \in DOMAIN conns : Scavenge(c) \/ SessionEnds(c) \/ EncryptionFails(c)
                                 \/ Completes(c) \/ HandleReceive(c)
    \/ Tick

Spec == Init /\ [][Next]_vars

-----------------------------------------------------------------------------
(* transports_ holds the id of every open transport and no other, no id     *)
(* twice, and CurrEstab counts them, whichever of session end, scavenging   *)
(* and transport failure comes first and whichever follows.                 *)
EstabExact ==
    /\ transports = {conns[c].conv : c \in Open}
    /\ \A b, c \in Open : conns[b].conv = conns[c].conv => b = c
    /\ snmp.curr_estab = Cardinality(Open)
    /\ snmp.max_conn >= snmp.curr_estab

(* Whatever its receives end with and whoever else refers to the           *)
(* connection, an open transport has a receive outstanding or about to be   *)
(* handled, so it goes on hearing its peer and its Connection, with the     *)
(* socket, lives; and no receive is left waiting on a closed socket, so     *)
(* that the last handler to run lets a dead Connection go.                  *)
ReceivePending ==
    \A c \in DOMAIN conns :
        IF conns[c].closing THEN conns[c].receive # "outstanding"
        ELSE conns[c].receive \notin {"aborted", "ended"}

(* With autoexpire no transport outlives autoexpire + scavengettl.          *)
LifetimeBounded ==
    AutoExpire > 0 => \A c \in Open : now - conns[c].born <= AutoExpire + ScavengeTtl
=============================================================================
