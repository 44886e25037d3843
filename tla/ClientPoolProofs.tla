-------------------------- MODULE ClientPoolProofs --------------------------
(***************************************************************************)
(* TLAPS proofs about ClientPool, for every number of slots, every lifetime *)
(* and every supply of conversation ids that PoolAssumption admits.         *)
(***************************************************************************)
EXTENDS ClientPool, FiniteSetTheorems, SequenceTheorems, TLAPS

-----------------------------------------------------------------------------
(* The inductive invariant, by parts.                                       *)

Connection ==
    [conv : Convs, slot : Nat, born : Nat, expiry : Nat, smux_closed : BOOLEAN,
     closing : BOOLEAN, scavenge : Nat \cup {NoTimer},
     receive : {"outstanding", "datagram", "error", "aborted", "ended"}]

Types ==
    /\ config \in Configs
    /\ now \in Nat /\ rr \in Nat
    /\ conns \in Seq(Connection)
    /\ slot \in [Slots -> 0..Len(conns)]
    /\ snmp \in [active_opens : Nat, curr_estab : Nat, max_conn : Nat]

\* A session that has ended took its transport with it.
ClosedThrough == \A c \in DOMAIN conns : conns[c].smux_closed => conns[c].closing

\* With autoexpire every open transport has a timer that is still to fire, set
\* when it was created.
ScavengeSet ==
    AutoExpire > 0 =>
        \A c \in Open : /\ conns[c].scavenge = conns[c].born + AutoExpire + ScavengeTtl
                        /\ now <= conns[c].scavenge

PoolIndInv == Types /\ ClosedThrough /\ EstabExact /\ ReceivePending /\ ScavengeSet

-----------------------------------------------------------------------------
\* The configuration as the proofs use it.
LEMMA ConfigTypes ==
    ASSUME Types
    PROVE  Conn \in Nat \ {0} /\ AutoExpire \in Nat /\ ScavengeTtl \in Nat
  BY PoolAssumption DEF Types, Conn, AutoExpire, ScavengeTtl

\* The open connections are finitely many.
LEMMA OpenFinite ==
    ASSUME Types
    PROVE  IsFiniteSet(Open) /\ Cardinality(Open) \in Nat
  <1>1. IsFiniteSet(1..Len(conns))
    BY FS_Interval, LenProperties DEF Types
  <1>2. DOMAIN conns = 1..Len(conns)
    BY LenProperties DEF Types
  <1>3. Open \in SUBSET (1..Len(conns))
    BY <1>2 DEF Open
  <1>4. QED
    BY <1>1, <1>3, FS_Subset, FS_CardinalityType

\* What is left when one connection is given a record that keeps its id, its
\* birth and its transport.
LEMMA RecordKeeps ==
    ASSUME PoolIndInv, NEW c \in DOMAIN conns, NEW record \in Connection,
           record.conv = conns[c].conv, record.born = conns[c].born,
           record.closing = conns[c].closing,
           record.smux_closed => record.closing,
           AutoExpire > 0 /\ ~record.closing => record.scavenge = conns[c].scavenge,
           IF record.closing THEN record.receive # "outstanding"
                             ELSE record.receive \notin {"aborted", "ended"},
           conns' = [conns EXCEPT ![c] = record],
           UNCHANGED <<config, now, rr, slot, transports, snmp>>
    PROVE  PoolIndInv'
  <1> USE DEF PoolIndInv
  <1>1. /\ conns \in Seq(Connection) /\ conns' \in Seq(Connection)
        /\ Len(conns') = Len(conns) /\ DOMAIN conns' = DOMAIN conns
        /\ conns'[c] = record
        /\ \A d \in DOMAIN conns : d # c => conns'[d] = conns[d]
    BY ExceptSeq DEF Types
  <1>2. Types'
    BY <1>1 DEF Types, Slots, Conn
  <1>3. ClosedThrough'
    BY <1>1 DEF ClosedThrough
  <1>4. /\ Open' = Open
        /\ \A d \in DOMAIN conns : conns'[d].conv = conns[d].conv /\ conns'[d].born = conns[d].born
    BY <1>1 DEF Open
  <1>5. EstabExact'
    <2>1. {conns'[d].conv : d \in Open} = {conns[d].conv : d \in Open}
      BY <1>4 DEF Open
    <2>2. \A d \in Open : d \in DOMAIN conns
      BY DEF Open
    <2>3. QED
      BY <1>4, <2>1, <2>2 DEF EstabExact
  <1>6. ReceivePending'
    BY <1>1 DEF ReceivePending
  <1>7. ScavengeSet'
    BY <1>1, <1>4 DEF ScavengeSet, Open, AutoExpire, ScavengeTtl
  <1>8. QED
    BY <1>2, <1>3, <1>5, <1>6, <1>7

\* What is left when an open transport closes: its id is free, the counter is
\* one less, and its receive, if it was outstanding, is aborted.
LEMMA CloseKeeps ==
    ASSUME PoolIndInv, NEW c \in DOMAIN conns, NEW record \in Connection,
           record.conv = conns[c].conv, record.closing = conns[c].closing,
           record.born = conns[c].born,
           record.closing => record.receive # "outstanding",
           TransportClose(c, record),
           UNCHANGED <<config, now, rr, slot>>
    PROVE  PoolIndInv'
  <1> USE DEF PoolIndInv
  <1> DEFINE closed == [record EXCEPT !.closing = TRUE,
                                      !.receive = IF @ = "outstanding" THEN "aborted" ELSE @]
  <1>1. /\ closed \in Connection /\ closed.closing /\ closed.receive # "outstanding"
        /\ closed.conv = conns[c].conv /\ closed.born = conns[c].born
    BY DEF Connection
  <1>2. conns' = [conns EXCEPT ![c] = closed]
    BY DEF TransportClose
  <1> HIDE DEF closed
  <1>3. CASE record.closing
    <2>1. UNCHANGED <<transports, snmp>>
      BY <1>3 DEF TransportClose
    <2>2. closed.closing = conns[c].closing
      <3>1. conns[c].closing \in BOOLEAN /\ closed.closing \in BOOLEAN
        BY <1>1, ElementOfSeq, LenProperties DEF Types, Connection
      <3>2. QED
        BY <1>1, <1>3, <3>1
    <2>3. QED
      BY <1>1, <1>2, <2>1, <2>2, RecordKeeps
  <1>4. CASE ~record.closing
    <2>1. /\ conns \in Seq(Connection) /\ conns' \in Seq(Connection)
          /\ Len(conns') = Len(conns) /\ DOMAIN conns' = DOMAIN conns
          /\ conns'[c] = closed
          /\ \A d \in DOMAIN conns : d # c => conns'[d] = conns[d]
      BY <1>1, <1>2, ExceptSeq DEF Types
    <2>2. /\ transports' = transports \ {conns[c].conv}
          /\ snmp' = SnmpConnectionClose(snmp)
      BY <1>4 DEF TransportClose
    <2>3. c \in Open /\ Open' = Open \ {c}
      BY <1>1, <1>4, <2>1 DEF Open
    <2>4. Cardinality(Open \ {c}) = Cardinality(Open) - 1 /\ Cardinality(Open) \in Nat
      BY <2>3, OpenFinite, FS_RemoveElement
    <2>5. snmp.curr_estab = Cardinality(Open) /\ snmp.max_conn >= snmp.curr_estab
      BY DEF EstabExact
    <2>6. Cardinality(Open) - 1 \in Nat
      BY <2>3, OpenFinite, FS_EmptySet, <2>4
    <2>7. /\ snmp' \in [active_opens : Nat, curr_estab : Nat, max_conn : Nat]
          /\ snmp'.curr_estab = Cardinality(Open) - 1 /\ snmp'.max_conn = snmp.max_conn
      BY <2>2, <2>5, <2>6 DEF SnmpConnectionClose, Types
    <2>8. Types'
      BY <2>1, <2>7 DEF Types, Slots, Conn
    <2>9. ClosedThrough'
      BY <1>1, <2>1 DEF ClosedThrough
    <2>10. EstabExact'
      <3>1. \A d \in Open : d \in DOMAIN conns
        BY DEF Open
      <3>2. \A d \in Open \ {c} : conns'[d].conv = conns[d].conv /\ conns[d].conv # conns[c].conv
        BY <2>1, <2>3, <3>1 DEF EstabExact
      <3>3. {conns'[d].conv : d \in Open \ {c}} = {conns[d].conv : d \in Open} \ {conns[c].conv}
        BY <3>2
      <3>4. transports' = {conns'[d].conv : d \in Open'}
        BY <2>2, <2>3, <3>3 DEF EstabExact
      <3>5. \A a, b \in Open' : conns'[a].conv = conns'[b].conv => a = b
        BY <2>3, <3>2 DEF EstabExact
      <3>6. snmp'.curr_estab = Cardinality(Open')
        BY <2>3, <2>4, <2>7
      <3>7. snmp'.max_conn >= snmp'.curr_estab
        BY <2>4, <2>5, <2>7 DEF Types
      <3>8. QED
        BY <3>4, <3>5, <3>6, <3>7 DEF EstabExact
    <2>11. ReceivePending'
      BY <1>1, <2>1 DEF ReceivePending
    <2>12. ScavengeSet'
      <3>1. \A d \in Open' : d \in Open /\ conns'[d] = conns[d]
        BY <2>1, <2>3 DEF Open
      <3>2. QED
        BY <3>1 DEF ScavengeSet, AutoExpire, ScavengeTtl
    <2>13. QED
      BY <2>8, <2>9, <2>10, <2>11, <2>12
  <1>5. QED
    BY <1>3, <1>4

\* SmuxSession::close, however the record was changed before.
LEMMA SmuxCloseKeeps ==
    ASSUME PoolIndInv, NEW c \in DOMAIN conns, NEW record \in Connection,
           record.conv = conns[c].conv, record.closing = conns[c].closing,
           record.smux_closed = conns[c].smux_closed,
           record.born = conns[c].born,
           record.closing => record.receive # "outstanding",
           SmuxClose(c, record),
           UNCHANGED <<config, now, rr, slot>>
    PROVE  PoolIndInv'
  <1>1. CASE record.smux_closed
    <2>1. record.closing
      BY <1>1 DEF PoolIndInv, ClosedThrough
    <2>2. conns' = [conns EXCEPT ![c] = record] /\ UNCHANGED <<transports, snmp>>
      BY <1>1 DEF SmuxClose
    <2>3. QED
      BY <2>1, <2>2, RecordKeeps
  <1>2. CASE ~record.smux_closed
    <2> DEFINE ended == [record EXCEPT !.smux_closed = TRUE]
    <2>1. /\ ended \in Connection /\ ended.conv = record.conv /\ ended.born = record.born
          /\ ended.closing = record.closing /\ ended.receive = record.receive
      BY DEF Connection
    <2>2. TransportClose(c, ended)
      BY <1>2 DEF SmuxClose
    <2> HIDE DEF ended
    <2>3. QED
      BY <2>1, <2>2, CloseKeeps
  <1>3. QED
    BY <1>1, <1>2

-----------------------------------------------------------------------------
\* Initially there is nothing.
LEMMA PoolInit == Init => PoolIndInv
  <1>1. SUFFICES ASSUME Init PROVE PoolIndInv
    OBVIOUS
  <1>2. conns = <<>> /\ Open = {} /\ DOMAIN conns = {} /\ Len(conns) = 0
    BY <1>1 DEF Init, Open
  <1>3. Types
    BY <1>1, <1>2, EmptySeq DEF Init, Types
  <1>4. EstabExact
    BY <1>1, <1>2, FS_EmptySet DEF Init, EstabExact
  <1>5. ClosedThrough /\ ReceivePending /\ ScavengeSet
    BY <1>2 DEF ClosedThrough, ReceivePending, ScavengeSet
  <1>6. QED
    BY <1>3, <1>4, <1>5 DEF PoolIndInv

\* A new connection takes an id that no open one has.
LEMMA CreateKeeps ==
    ASSUME PoolIndInv, NEW i \in Slots, CreateConnection(i),
           UNCHANGED <<config, now>>, rr' \in Nat
    PROVE  PoolIndInv'
  <1> USE DEF PoolIndInv
  <1>1. PICK conv \in FreeConvs :
           /\ conns' = Append(conns,
                 [conv |-> conv, slot |-> i, born |-> now, expiry |-> now + AutoExpire,
                  smux_closed |-> FALSE, closing |-> FALSE, scavenge |-> ScavengeTime,
                  receive |-> "outstanding"])
           /\ slot' = [slot EXCEPT ![i] = Len(conns) + 1]
           /\ transports' = transports \cup {conv}
           /\ snmp' = SnmpConnectionOpen(snmp)
    BY DEF CreateConnection
  <1> DEFINE new == [conv |-> conv, slot |-> i, born |-> now, expiry |-> now + AutoExpire,
                     smux_closed |-> FALSE, closing |-> FALSE, scavenge |-> ScavengeTime,
                     receive |-> "outstanding"]
             n == Len(conns) + 1
  <1>2. new \in Connection
    <2>1. i \in Nat /\ now \in Nat /\ now + AutoExpire \in Nat
      BY ConfigTypes DEF Slots, Types
    <2>2. ScavengeTime \in Nat \cup {NoTimer}
      BY ConfigTypes, <2>1 DEF ScavengeTime
    <2>3. QED
      BY <2>1, <2>2 DEF Connection, FreeConvs
  <1>3. /\ new.conv = conv /\ ~new.closing /\ ~new.smux_closed /\ new.born = now
        /\ new.scavenge = ScavengeTime /\ new.receive = "outstanding"
    OBVIOUS
  <1>4. conns' = Append(conns, new)
    BY <1>1
  <1> HIDE DEF new
  <1>5. /\ conns' \in Seq(Connection) /\ Len(conns') = n /\ Len(conns) \in Nat
        /\ DOMAIN conns = 1..Len(conns) /\ DOMAIN conns' = DOMAIN conns \cup {n}
        /\ n \notin DOMAIN conns /\ conns'[n] = new
        /\ \A d \in DOMAIN conns : conns'[d] = conns[d]
    BY <1>2, <1>4, AppendProperties, LenProperties DEF Types
  <1>6. Open' = Open \cup {n} /\ n \notin Open /\ \A d \in Open : d \in DOMAIN conns
    BY <1>3, <1>5 DEF Open
  <1>7. Cardinality(Open') = Cardinality(Open) + 1 /\ Cardinality(Open) \in Nat
    BY <1>6, OpenFinite, FS_AddElement
  <1>8. /\ snmp' \in [active_opens : Nat, curr_estab : Nat, max_conn : Nat]
        /\ snmp'.curr_estab = Cardinality(Open) + 1 /\ snmp'.max_conn >= snmp'.curr_estab
    BY <1>1, <1>7 DEF SnmpConnectionOpen, Types, EstabExact
  <1>9. Types'
    <2>1. slot' \in [Slots -> 0..Len(conns')]
      BY <1>1, <1>5 DEF Types
    <2>2. QED
      BY <1>5, <1>8, <2>1 DEF Types, Slots, Conn
  <1>10. ClosedThrough' /\ ReceivePending'
    BY <1>3, <1>5 DEF ClosedThrough, ReceivePending
  <1>11. EstabExact'
    <2>1. conv \notin transports
      BY <1>1 DEF FreeConvs
    <2>2. transports' = {conns'[d].conv : d \in Open'}
      BY <1>1, <1>3, <1>5, <1>6 DEF EstabExact
    <2>3. \A a, b \in Open' : conns'[a].conv = conns'[b].conv => a = b
      <3>1. \A d \in Open : conns'[d].conv = conns[d].conv /\ conns'[d].conv # conv
        BY <1>5, <1>6, <2>1 DEF EstabExact
      <3>2. QED
        BY <1>3, <1>5, <1>6, <3>1 DEF EstabExact
    <2>4. QED
      BY <1>7, <1>8, <2>2, <2>3 DEF EstabExact
  <1>12. ScavengeSet'
    <2>1. AutoExpire > 0 => ScavengeTime = now + AutoExpire + ScavengeTtl /\ now <= ScavengeTime
      BY ConfigTypes DEF ScavengeTime, Types
    <2>2. QED
      BY <1>3, <1>5, <1>6, <2>1 DEF ScavengeSet, AutoExpire, ScavengeTtl
  <1>13. QED
    BY <1>9, <1>10, <1>11, <1>12

\* An accepted connection uses the session in its slot or a new one.
LEMMA AcceptKeeps ==
    ASSUME PoolIndInv, HandleAccept
    PROVE  PoolIndInv'
  <1>1. rr % Conn \in Slots /\ rr' \in Nat
    <2>1. rr \in Nat /\ Conn \in Nat \ {0} /\ Wrap \in Nat \ {0}
      BY ConfigTypes, PoolAssumption DEF PoolIndInv, Types
    <2>2. QED
      BY <2>1 DEF HandleAccept, Slots, Advance
  <1>2. UNCHANGED <<config, now>>
    BY DEF HandleAccept
  <1>3. CASE CreateConnection(rr % Conn)
    BY <1>1, <1>2, <1>3, CreateKeeps
  <1>4. CASE UNCHANGED <<slot, conns, transports, snmp>>
    BY <1>1, <1>2, <1>4
       DEF PoolIndInv, Types, ClosedThrough, EstabExact, ReceivePending, ScavengeSet,
           Open, Slots, Conn, AutoExpire, ScavengeTtl
  <1>5. QED
    BY <1>3, <1>4 DEF HandleAccept

\* The handlers of one connection.
LEMMA HandlersKeep ==
    ASSUME PoolIndInv, NEW c \in DOMAIN conns,
           Scavenge(c) \/ SessionEnds(c) \/ EncryptionFails(c) \/ Completes(c) \/ HandleReceive(c)
    PROVE  PoolIndInv'
  <1>1. conns[c] \in Connection
    BY ElementOfSeq, LenProperties DEF PoolIndInv, Types
  <1>2. /\ conns[c].smux_closed => conns[c].closing
        /\ conns[c].closing => conns[c].receive # "outstanding"
        /\ ~conns[c].closing => conns[c].receive \notin {"aborted", "ended"}
    BY DEF PoolIndInv, ClosedThrough, ReceivePending
  <1>3. CASE Scavenge(c)
    <2> DEFINE record == [conns[c] EXCEPT !.scavenge = NoTimer]
    <2>1. /\ record \in Connection
          /\ record.conv = conns[c].conv /\ record.closing = conns[c].closing
          /\ record.smux_closed = conns[c].smux_closed
          /\ record.born = conns[c].born /\ record.receive = conns[c].receive
      BY <1>1 DEF Connection
    <2>2. SmuxClose(c, record) /\ UNCHANGED <<config, now, rr, slot>>
      BY <1>3 DEF Scavenge
    <2> HIDE DEF record
    <2>3. QED
      BY <1>2, <2>1, <2>2, SmuxCloseKeeps
  <1>4. CASE SessionEnds(c)
    BY <1>1, <1>2, <1>4, SmuxCloseKeeps DEF SessionEnds
  <1>5. CASE EncryptionFails(c)
    BY <1>1, <1>2, <1>5, CloseKeeps DEF EncryptionFails
  <1>6. CASE Completes(c)
    <2>1. PICK result \in Completed \ {"aborted"} :
             conns' = [conns EXCEPT ![c].receive = result]
      BY <1>6 DEF Completes
    <2> DEFINE record == [conns[c] EXCEPT !.receive = result]
    <2>2. /\ record \in Connection
          /\ record.conv = conns[c].conv /\ record.closing = conns[c].closing
          /\ record.smux_closed = conns[c].smux_closed /\ record.scavenge = conns[c].scavenge
          /\ record.born = conns[c].born /\ record.receive = result
      BY <1>1 DEF Connection, Completed
    <2>3. conns' = [conns EXCEPT ![c] = record]
      BY <2>1
    <2> HIDE DEF record
    <2>4. result \in {"datagram", "error"} /\ UNCHANGED <<config, now, rr, slot, transports, snmp>>
      BY <1>6 DEF Completed, Completes
    <2>5. QED
      BY <1>2, <2>2, <2>3, <2>4, RecordKeeps
  <1>7. CASE HandleReceive(c)
    <2>1. UNCHANGED <<config, now, rr, slot>>
      BY <1>7 DEF HandleReceive
    <2>2. ASSUME NEW received \in {"outstanding", "error", "ended"},
                 conns' = [conns EXCEPT ![c] = [conns[c] EXCEPT !.receive = received]],
                 UNCHANGED <<transports, snmp>>,
                 IF conns[c].closing THEN received # "outstanding" ELSE received = "outstanding"
          PROVE  PoolIndInv'
      <3> DEFINE record == [conns[c] EXCEPT !.receive = received]
      <3>1. /\ record \in Connection
            /\ record.conv = conns[c].conv /\ record.closing = conns[c].closing
            /\ record.smux_closed = conns[c].smux_closed /\ record.scavenge = conns[c].scavenge
            /\ record.born = conns[c].born /\ record.receive = received
        BY <1>1 DEF Connection
      <3>2. conns' = [conns EXCEPT ![c] = record]
        BY <2>2
      <3> HIDE DEF record
      <3>3. QED
        BY <1>2, <2>1, <2>2, <3>1, <3>2, RecordKeeps
    <2>3. CASE conns' = [conns EXCEPT ![c] = Received(conns[c])] /\ UNCHANGED <<transports, snmp>>
      <3>1. CASE conns[c].closing
        BY <2>2, <2>3, <3>1 DEF Received
      <3>2. CASE ~conns[c].closing
        BY <2>2, <2>3, <3>2 DEF Received
      <3>3. QED
        BY <3>1, <3>2
    <2>4. CASE conns' = [conns EXCEPT ![c] = ReceiveAgain(conns[c])] /\ UNCHANGED <<transports, snmp>>
      <3>1. CASE conns[c].closing
        BY <2>2, <2>4, <3>1 DEF ReceiveAgain
      <3>2. CASE ~conns[c].closing
        BY <2>2, <2>4, <3>2 DEF ReceiveAgain, Received
      <3>3. QED
        BY <3>1, <3>2
    <2>5. CASE ~conns[c].closing /\ SmuxClose(c, [conns[c] EXCEPT !.receive = "ended"])
      <3> DEFINE record == [conns[c] EXCEPT !.receive = "ended"]
      <3>1. /\ record \in Connection
            /\ record.conv = conns[c].conv /\ record.closing = conns[c].closing
            /\ record.smux_closed = conns[c].smux_closed
            /\ record.born = conns[c].born /\ record.receive = "ended"
        BY <1>1 DEF Connection
      <3>2. SmuxClose(c, record)
        BY <2>5
      <3> HIDE DEF record
      <3>3. QED
        BY <2>1, <3>1, <3>2, SmuxCloseKeeps
    <2>6. QED
      BY <1>7, <2>3, <2>4, <2>5 DEF HandleReceive
  <1>8. QED
    BY <1>3, <1>4, <1>5, <1>6, <1>7

\* The clock passes no timer that is due.
LEMMA PoolTickKeeps ==
    ASSUME PoolIndInv, Tick
    PROVE  PoolIndInv'
  <1> USE DEF PoolIndInv
  <1>1. now' = now + 1 /\ UNCHANGED <<config, rr, slot, conns, transports, snmp>>
    BY DEF Tick
  <1>2. Types' /\ ClosedThrough' /\ EstabExact' /\ ReceivePending'
    BY <1>1 DEF Types, ClosedThrough, EstabExact, ReceivePending, Open, Slots, Conn
  <1>3. ScavengeSet'
    <2>1. SUFFICES ASSUME AutoExpire > 0, NEW c \in Open
                   PROVE  /\ conns[c].scavenge = conns[c].born + AutoExpire + ScavengeTtl
                          /\ now + 1 <= conns[c].scavenge
      BY <1>1 DEF ScavengeSet, Open, AutoExpire, ScavengeTtl
    <2>2. c \in DOMAIN conns /\ conns[c] \in Connection
      BY ElementOfSeq, LenProperties DEF Open, Types
    <2>3. /\ conns[c].scavenge = conns[c].born + AutoExpire + ScavengeTtl
          /\ now <= conns[c].scavenge
      BY <2>1 DEF ScavengeSet
    <2>4. conns[c].scavenge \in Nat
      BY <2>2, <2>3, ConfigTypes DEF Connection
    <2>5. now < conns[c].scavenge
      BY <2>2, <2>4 DEF Tick, NoTimer
    <2>6. QED
      BY <2>3, <2>4, <2>5 DEF Types
  <1>4. QED
    BY <1>2, <1>3

-----------------------------------------------------------------------------
(* Every reachable state satisfies the inductive invariant: whichever of    *)
(* session end, scavenging, failing encryption and receive handler comes    *)
(* next.                                                                    *)
THEOREM PoolInvariant == Spec => []PoolIndInv
  <1>1. PoolIndInv /\ [Next]_vars => PoolIndInv'
    <2>1. SUFFICES ASSUME PoolIndInv, [Next]_vars PROVE PoolIndInv'
      OBVIOUS
    <2>2. CASE HandleAccept
      BY <2>1, <2>2, AcceptKeeps
    <2>3. CASE \E c \in DOMAIN conns : \/ Scavenge(c) \/ SessionEnds(c) \/ EncryptionFails(c)
                                       \/ Completes(c) \/ HandleReceive(c)
      BY <2>1, <2>3, HandlersKeep
    <2>4. CASE Tick
      BY <2>1, <2>4, PoolTickKeeps
    <2>5. CASE UNCHANGED vars
      BY <2>1, <2>5 DEF vars, PoolIndInv, Types, ClosedThrough, EstabExact, ReceivePending,
                       ScavengeSet, Open, Slots, Conn, AutoExpire, ScavengeTtl
    <2>6. QED
      BY <2>1, <2>2, <2>3, <2>4, <2>5 DEF Next
  <1>2. QED
    BY PoolInit, <1>1, PTL DEF Spec

(* The table of ids and the connection counter agree with the open          *)
(* transports whatever closes them, and no id is in use twice.              *)
THEOREM PoolEstabExact == Spec => []EstabExact
  <1>1. PoolIndInv => EstabExact
    BY DEF PoolIndInv
  <1>2. QED
    BY <1>1, PoolInvariant, PTL

(* An open transport never goes deaf, and none that is closed keeps its     *)
(* connection: however receives end.                                        *)
THEOREM PoolReceivePending == Spec => []ReceivePending
  <1>1. PoolIndInv => ReceivePending
    BY DEF PoolIndInv
  <1>2. QED
    BY <1>1, PoolInvariant, PTL

(* With autoexpire every transport is gone autoexpire + scavengettl seconds *)
(* after its creation, if timers fire in time.                              *)
THEOREM PoolLifetime == Spec => []LifetimeBounded
  <1>1. PoolIndInv => LifetimeBounded
    <2>1. SUFFICES ASSUME PoolIndInv, AutoExpire > 0, NEW c \in Open
                   PROVE  now - conns[c].born <= AutoExpire + ScavengeTtl
      BY DEF LifetimeBounded
    <2>2. conns[c] \in Connection
      BY <2>1, ElementOfSeq, LenProperties DEF PoolIndInv, Open, Types
    <2>3. /\ conns[c].scavenge = conns[c].born + AutoExpire + ScavengeTtl
          /\ now <= conns[c].scavenge
      BY <2>1 DEF PoolIndInv, ScavengeSet
    <2>4. conns[c].born \in Nat /\ now \in Nat
      BY <2>1, <2>2 DEF Connection, PoolIndInv, Types
    <2>5. QED
      BY <2>1, <2>3, <2>4, ConfigTypes DEF PoolIndInv
  <1>2. QED
    BY <1>1, PoolInvariant, PTL
=============================================================================
