------------------------ MODULE ServerSessionsProofs ------------------------
(***************************************************************************)
(* TLAPS proofs about ServerSessions, for every set of clients, however     *)
(* many of them share an endpoint, and every number of datagrams.           *)
(***************************************************************************)
EXTENDS MCServerSessions, FiniteSetTheorems, SequenceTheorems, TLAPS

-----------------------------------------------------------------------------
(* The inductive invariant, by parts.                                       *)

Endpoints == {Endpoint[c] : c \in Clients}
Convs == {Conv[c] : c \in Clients}

Instance ==
    [key : Endpoints \X Convs, endpoint : Endpoints, conv : Convs,
     closing : BOOLEAN, smux_closed : BOOLEAN, fed : SUBSET (Clients \X Kind)]

Types ==
    /\ clientOpen \in [Clients -> BOOLEAN]
    /\ sends \in [Clients \X Kind -> Nat] /\ net \in [Clients \X Kind -> Nat]
    /\ \A d \in Clients \X Kind : net[d] <= sends[d] /\ sends[d] <= MaxSends[d[2]]
    /\ instances \in Seq(Instance)
    /\ sessions = [key \in DOMAIN sessions |-> sessions[key]]
    /\ IsFiniteSet(DOMAIN sessions)

\* Every entry of the table refers to a session that was created under its key.
EntriesOwn ==
    \A key \in DOMAIN sessions :
        sessions[key] \in DOMAIN instances /\ instances[sessions[key]].key = key

\* The key of a session is made of its endpoint and its conversation id.
KeysOwn ==
    \A k \in DOMAIN instances : instances[k].key = <<instances[k].endpoint, instances[k].conv>>

ServerIndInv == Types /\ EntriesOwn /\ KeysOwn /\ TableExact /\ FedByOwner

-----------------------------------------------------------------------------
\* What is left when a session object is given a record that differs in none of
\* the things the table depends on.
LEMMA RecordKeeps ==
    ASSUME ServerIndInv, NEW k \in DOMAIN instances, NEW record \in Instance,
           record.key = instances[k].key, record.endpoint = instances[k].endpoint,
           record.conv = instances[k].conv, record.closing = instances[k].closing,
           \A f \in record.fed : /\ Endpoint[f[1]] = record.endpoint
                                 /\ f[2] = "data" => Conv[f[1]] = record.conv,
           instances' = [instances EXCEPT ![k] = record],
           UNCHANGED <<clientOpen, sends, sessions, curr_estab>>,
           net' \in [Clients \X Kind -> Nat], \A d \in Clients \X Kind : net'[d] <= net[d]
    PROVE  ServerIndInv'
  <1> USE DEF ServerIndInv
  <1>1. /\ instances \in Seq(Instance) /\ instances' \in Seq(Instance)
        /\ DOMAIN instances' = DOMAIN instances
        /\ instances'[k] = record
        /\ \A j \in DOMAIN instances : j # k => instances'[j] = instances[j]
    BY ExceptSeq DEF Types
  <1>2. /\ \A j \in DOMAIN instances : /\ instances'[j].key = instances[j].key
                                       /\ instances'[j].endpoint = instances[j].endpoint
                                       /\ instances'[j].conv = instances[j].conv
                                       /\ instances'[j].closing = instances[j].closing
    BY <1>1
  <1>3. Types'
    <2>1. \A d \in Clients \X Kind : net'[d] <= sends[d]
      <3>1. \A d \in Clients \X Kind : net'[d] \in Nat /\ net[d] \in Nat /\ sends[d] \in Nat
        BY DEF Types
      <3>2. QED
        BY <3>1 DEF Types
    <2>2. QED
      BY <1>1, <2>1 DEF Types
  <1>4. EntriesOwn' /\ KeysOwn' /\ TableExact'
    BY <1>1, <1>2 DEF EntriesOwn, KeysOwn, TableExact
  <1>5. FedByOwner'
    BY <1>1 DEF FedByOwner
  <1>6. QED
    BY <1>3, <1>4, <1>5

\* KcpTransport::close: an open transport takes its own entry with it, one that
\* was closed before takes none.
LEMMA CloseKeeps ==
    ASSUME ServerIndInv, NEW k \in DOMAIN instances, NEW record \in Instance,
           record.key = instances[k].key, record.endpoint = instances[k].endpoint,
           record.conv = instances[k].conv, record.closing = instances[k].closing,
           record.fed = instances[k].fed,
           TransportClose(k, record),
           UNCHANGED <<clientOpen, sends, net>>
    PROVE  ServerIndInv'
  <1> USE DEF ServerIndInv
  <1> DEFINE closed == [record EXCEPT !.closing = TRUE]
  <1>1. /\ closed \in Instance /\ closed.closing = TRUE
        /\ closed.key = instances[k].key /\ closed.endpoint = instances[k].endpoint
        /\ closed.conv = instances[k].conv /\ closed.fed = instances[k].fed
    BY DEF Instance
  <1>2. instances' = [instances EXCEPT ![k] = closed]
    BY DEF TransportClose
  <1> HIDE DEF closed
  <1>3. \A f \in closed.fed : /\ Endpoint[f[1]] = closed.endpoint
                              /\ f[2] = "data" => Conv[f[1]] = closed.conv
    BY <1>1 DEF FedByOwner
  <1>4. instances[k].closing \in BOOLEAN
    <2>1. instances[k] \in Instance
      BY ElementOfSeq, LenProperties DEF Types
    <2>2. QED
      BY <2>1 DEF Instance
  <1>5. CASE instances[k].closing
    <2>1. UNCHANGED <<sessions, curr_estab>>
      BY <1>5 DEF TransportClose
    <2>2. closed.closing = instances[k].closing
      BY <1>1, <1>4, <1>5
    <2>3. net' \in [Clients \X Kind -> Nat] /\ \A d \in Clients \X Kind : net'[d] <= net[d]
      BY DEF Types
    <2>4. QED
      BY <1>1, <1>2, <1>3, <2>1, <2>2, <2>3, RecordKeeps
  <1>6. CASE ~instances[k].closing
    <2> DEFINE key == instances[k].key
    <2>1. /\ instances \in Seq(Instance) /\ instances' \in Seq(Instance)
          /\ DOMAIN instances' = DOMAIN instances
          /\ instances'[k] = closed
          /\ \A j \in DOMAIN instances : j # k => instances'[j] = instances[j]
      BY <1>1, <1>2, ExceptSeq DEF Types
    <2>2. key \in DOMAIN sessions /\ sessions[key] = k
      BY <1>6 DEF TableExact
    <2>3. /\ sessions' = [other \in DOMAIN sessions \ {key} |-> sessions[other]]
          /\ curr_estab' = IF curr_estab > 0 THEN curr_estab - 1 ELSE 0
      BY <1>6 DEF TransportClose, Erase, Restrict
    <2>4. /\ DOMAIN sessions' = DOMAIN sessions \ {key}
          /\ \A other \in DOMAIN sessions' : sessions'[other] = sessions[other]
      BY <2>3
    <2> HIDE DEF key
    <2>5. /\ IsFiniteSet(DOMAIN sessions')
          /\ Cardinality(DOMAIN sessions') = Cardinality(DOMAIN sessions) - 1
          /\ Cardinality(DOMAIN sessions) \in Nat /\ Cardinality(DOMAIN sessions') \in Nat
      BY <2>2, <2>4, FS_RemoveElement, FS_CardinalityType DEF Types
    <2>6. Types'
      BY <2>1, <2>4, <2>5, <2>3 DEF Types
    <2>7. EntriesOwn'
      BY <1>1, <2>1, <2>4 DEF EntriesOwn
    <2>8. KeysOwn' /\ FedByOwner'
      <3>1. \A j \in DOMAIN instances' :
               /\ j \in DOMAIN instances
               /\ instances'[j].key = instances[j].key
               /\ instances'[j].endpoint = instances[j].endpoint
               /\ instances'[j].conv = instances[j].conv
               /\ instances'[j].fed = instances[j].fed
        BY <1>1, <2>1
      <3>2. KeysOwn'
        BY <3>1 DEF KeysOwn
      <3>3. FedByOwner'
        BY <3>1, Zenon DEF FedByOwner
      <3>4. QED
        BY <3>2, <3>3
    <2>9. TableExact'
      <3>1. curr_estab' = Cardinality(DOMAIN sessions')
        BY <2>3, <2>5 DEF TableExact
      <3>2. ASSUME NEW j \in DOMAIN instances
            PROVE  ~instances'[j].closing <=>
                      instances'[j].key \in DOMAIN sessions' /\ sessions'[instances'[j].key] = j
        <4>1. CASE j = k
          BY <1>1, <2>1, <2>4, <4>1 DEF key
        <4>2. CASE j # k
          <5>1. ~instances[j].closing => instances[j].key # key
            BY <2>2, <4>2 DEF TableExact
          <5>2. QED
            BY <2>1, <2>4, <4>2, <5>1 DEF TableExact
        <4>3. QED
          BY <4>1, <4>2
      <3>3. QED
        BY <2>1, <3>1, <3>2 DEF TableExact
    <2>10. QED
      BY <2>6, <2>7, <2>8, <2>9
  <1>7. QED
    BY <1>5, <1>6

-----------------------------------------------------------------------------
\* Initially there is nothing.
LEMMA ServerInit == Init => ServerIndInv
  <1>1. SUFFICES ASSUME Init PROVE ServerIndInv
    OBVIOUS
  <1>2. /\ sessions = [key \in {} |-> [n \in {<<>>} |-> 0][key]] /\ DOMAIN sessions = {}
        /\ instances = <<>> /\ DOMAIN instances = {} /\ curr_estab = 0
    BY <1>1 DEF Init, Restrict
  <1>3. Types
    <2>1. \A d \in Clients \X Kind : MaxSends[d[2]] \in Nat
      BY ServerAssumption
    <2>2. QED
      BY <1>1, <1>2, <2>1, FS_EmptySet, EmptySeq DEF Init, Types
  <1>4. EntriesOwn /\ KeysOwn /\ FedByOwner
    BY <1>2 DEF EntriesOwn, KeysOwn, FedByOwner
  <1>5. TableExact
    BY <1>2, FS_EmptySet DEF TableExact
  <1>6. QED
    BY <1>3, <1>4, <1>5 DEF ServerIndInv

\* A datagram with an unknown key creates a session and is the first it is fed.
LEMMA CreateKeeps ==
    ASSUME ServerIndInv, NEW c \in Clients, Key(c) \notin DOMAIN sessions, HandleData(c),
           UNCHANGED <<clientOpen, sends>>,
           net' \in [Clients \X Kind -> Nat], \A d \in Clients \X Kind : net'[d] <= net[d]
    PROVE  ServerIndInv'
  <1> USE DEF ServerIndInv
  <1> DEFINE new == [key |-> Key(c), endpoint |-> Endpoint[c], conv |-> Conv[c],
                     closing |-> FALSE, smux_closed |-> FALSE, fed |-> {<<c, "data">>}]
             n == Len(instances) + 1
             key == Key(c)
  <1>1. /\ instances' = Append(instances, new)
        /\ sessions' = [other \in DOMAIN sessions \cup {key} |->
                           IF other = key THEN n ELSE sessions[other]]
        /\ curr_estab' = curr_estab + 1
    BY DEF HandleData
  <1>2. /\ new \in Instance /\ new.key = key /\ new.endpoint = Endpoint[c] /\ new.conv = Conv[c]
        /\ ~new.closing /\ new.fed = {<<c, "data">>}
    BY DEF Instance, Key, Endpoints, Convs, Kind
  <1>3. key = <<Endpoint[c], Conv[c]>>
    BY DEF Key
  <1> HIDE DEF new, key
  <1>4. /\ instances' \in Seq(Instance) /\ Len(instances) \in Nat
        /\ DOMAIN instances = 1..Len(instances)
        /\ DOMAIN instances' = DOMAIN instances \cup {n} /\ n \notin DOMAIN instances
        /\ instances'[n] = new
        /\ \A j \in DOMAIN instances : instances'[j] = instances[j]
    BY <1>1, <1>2, AppendProperties, LenProperties DEF Types
  <1> HIDE DEF n
  <1>5. /\ DOMAIN sessions' = DOMAIN sessions \cup {key} /\ key \notin DOMAIN sessions
        /\ sessions'[key] = n
        /\ \A other \in DOMAIN sessions : sessions'[other] = sessions[other]
    BY <1>1 DEF key
  <1>6. /\ IsFiniteSet(DOMAIN sessions')
        /\ Cardinality(DOMAIN sessions') = Cardinality(DOMAIN sessions) + 1
    BY <1>5, FS_AddElement DEF Types
  <1>7. Types'
    <2>1. \A d \in Clients \X Kind : net'[d] <= sends[d]
      <3>1. \A d \in Clients \X Kind : net'[d] \in Nat /\ net[d] \in Nat /\ sends[d] \in Nat
        BY DEF Types
      <3>2. QED
        BY <3>1 DEF Types
    <2>2. sessions' = [other \in DOMAIN sessions' |-> sessions'[other]]
      BY <1>1
    <2>3. QED
      BY <1>4, <1>6, <2>1, <2>2 DEF Types
  <1>8. EntriesOwn'
    BY <1>2, <1>4, <1>5 DEF EntriesOwn
  <1>9. KeysOwn'
    BY <1>2, <1>3, <1>4 DEF KeysOwn
  <1>10. FedByOwner'
    BY <1>2, <1>4 DEF FedByOwner
  <1>11. TableExact'
    <2>1. curr_estab' = Cardinality(DOMAIN sessions')
      BY <1>1, <1>6 DEF TableExact
    <2>2. ASSUME NEW j \in DOMAIN instances'
          PROVE  ~instances'[j].closing <=>
                    instances'[j].key \in DOMAIN sessions' /\ sessions'[instances'[j].key] = j
      <3>1. CASE j = n
        BY <1>2, <1>4, <1>5, <3>1
      <3>2. CASE j # n
        BY <1>4, <1>5, <3>2 DEF TableExact
      <3>3. QED
        BY <3>1, <3>2
    <2>3. QED
      BY <2>1, <2>2 DEF TableExact
  <1>12. QED
    BY <1>7, <1>8, <1>9, <1>10, <1>11

\* Input reaches a session of the datagram's endpoint, and data one of its
\* conversation.
LEMMA InputKeeps ==
    ASSUME ServerIndInv, NEW k \in DOMAIN instances, NEW c \in Clients, NEW kind \in Kind,
           Endpoint[c] = instances[k].endpoint,
           kind = "data" => Conv[c] = instances[k].conv,
           instances' = Input(k, c, kind),
           UNCHANGED <<clientOpen, sends, sessions, curr_estab>>,
           net' \in [Clients \X Kind -> Nat], \A d \in Clients \X Kind : net'[d] <= net[d]
    PROVE  ServerIndInv'
  <1> DEFINE record == [instances[k] EXCEPT !.fed = @ \cup {<<c, kind>>}]
  <1>1. instances[k] \in Instance
    BY ElementOfSeq, LenProperties DEF ServerIndInv, Types
  <1>2. /\ record \in Instance /\ record.key = instances[k].key
        /\ record.endpoint = instances[k].endpoint /\ record.conv = instances[k].conv
        /\ record.closing = instances[k].closing
        /\ record.fed = instances[k].fed \cup {<<c, kind>>}
    BY <1>1 DEF Instance
  <1>3. instances' = [instances EXCEPT ![k] = record]
    BY DEF Input
  <1> HIDE DEF record
  <1>4. \A f \in record.fed : /\ Endpoint[f[1]] = record.endpoint
                              /\ f[2] = "data" => Conv[f[1]] = record.conv
    BY <1>2 DEF ServerIndInv, FedByOwner
  <1>5. QED
    BY <1>2, <1>3, <1>4, RecordKeeps

\* A datagram reaches the listener.
LEMMA PacketKeeps ==
    ASSUME ServerIndInv, NEW c \in Clients, NEW kind \in Kind, HandlePacket(c, kind)
    PROVE  ServerIndInv'
  <1> USE DEF ServerIndInv
  <1>1. /\ net' \in [Clients \X Kind -> Nat] /\ \A d \in Clients \X Kind : net'[d] <= net[d]
        /\ UNCHANGED <<clientOpen, sends>>
    <2>1. <<c, kind>> \in Clients \X Kind /\ net[<<c, kind>>] \in Nat /\ net[<<c, kind>>] > 0
      BY DEF HandlePacket, Types
    <2>2. net' = [net EXCEPT ![<<c, kind>>] = @ - 1] /\ UNCHANGED <<clientOpen, sends>>
      BY DEF HandlePacket
    <2>3. net \in [Clients \X Kind -> Nat] /\ net[<<c, kind>>] - 1 \in Nat
      BY <2>1 DEF Types
    <2>4. net' \in [Clients \X Kind -> Nat]
      BY <2>2, <2>3
    <2>5. ASSUME NEW d \in Clients \X Kind PROVE net'[d] <= net[d]
      <3>1. CASE d = <<c, kind>>
        BY <2>1, <2>2, <2>3, <3>1
      <3>2. CASE d # <<c, kind>>
        <4>1. net'[d] = net[d] /\ net[d] \in Nat
          BY <2>2, <2>3, <3>2
        <4>2. QED
          BY <4>1
      <3>3. QED
        BY <3>1, <3>2
    <2>6. QED
      BY <2>2, <2>4, <2>5
  <1>2. CASE kind = "data" /\ HandleData(c)
    <2>1. CASE Key(c) \in DOMAIN sessions
      <3>1. /\ instances' = Input(sessions[Key(c)], c, "data")
            /\ UNCHANGED <<sessions, curr_estab>>
        BY <1>2, <2>1 DEF HandleData
      <3>2. /\ sessions[Key(c)] \in DOMAIN instances
            /\ instances[sessions[Key(c)]].endpoint = Endpoint[c]
            /\ instances[sessions[Key(c)]].conv = Conv[c]
        BY <2>1 DEF EntriesOwn, KeysOwn, Key
      <3>3. QED
        BY <1>1, <1>2, <3>1, <3>2, InputKeeps
    <2>2. CASE Key(c) \notin DOMAIN sessions
      BY <1>1, <1>2, <2>2, CreateKeeps
    <2>3. QED
      BY <2>1, <2>2
  <1>3. CASE kind = "parity" /\ HandleParity(c)
    <2> DEFINE here == {key \in DOMAIN sessions : instances[sessions[key]].endpoint = Endpoint[c]}
               key == CHOOSE key \in here : TRUE
    <2>1. CASE Cardinality(here) = 1
      <3>1. here # {}
        BY <2>1, FS_EmptySet
      <3>2. key \in here
        BY <3>1
      <3>3. /\ sessions[key] \in DOMAIN instances
            /\ instances[sessions[key]].endpoint = Endpoint[c]
        BY <3>2 DEF EntriesOwn
      <3>4. instances' = Input(sessions[key], c, "parity") /\ UNCHANGED <<sessions, curr_estab>>
        BY <1>3, <2>1 DEF HandleParity
      <3> HIDE DEF key, here
      <3>5. QED
        BY <1>1, <1>3, <3>3, <3>4, InputKeeps
    <2>2. CASE Cardinality(here) # 1
      <3>1. UNCHANGED <<instances, sessions, curr_estab>>
        BY <1>3, <2>2 DEF HandleParity
      <3>2. \A d \in Clients \X Kind : net'[d] <= sends[d]
        <4>1. \A d \in Clients \X Kind : net'[d] \in Nat /\ net[d] \in Nat /\ sends[d] \in Nat
          BY <1>1 DEF Types
        <4>2. QED
          BY <1>1, <4>1 DEF Types
      <3>3. QED
        BY <1>1, <3>1, <3>2 DEF Types, EntriesOwn, KeysOwn, TableExact, FedByOwner
    <2>3. QED
      BY <2>1, <2>2
  <1>4. QED
    BY <1>2, <1>3 DEF HandlePacket

\* Clients send and go.
LEMMA ClientsKeep ==
    ASSUME ServerIndInv, NEW c \in Clients,
           (\E kind \in Kind : Send(c, kind)) \/ ClientClose(c)
    PROVE  ServerIndInv'
  <1> USE DEF ServerIndInv
  <1>1. UNCHANGED <<sessions, instances, curr_estab>>
    BY DEF Send, ClientClose
  <1>2. Types'
    <2>1. ASSUME NEW kind \in Kind, Send(c, kind) PROVE Types'
      <3>1. /\ <<c, kind>> \in Clients \X Kind
            /\ net[<<c, kind>>] \in Nat /\ sends[<<c, kind>>] \in Nat /\ MaxSends[kind] \in Nat
            /\ sends[<<c, kind>>] < MaxSends[kind] /\ net[<<c, kind>>] <= sends[<<c, kind>>]
            /\ sends' = [sends EXCEPT ![<<c, kind>>] = @ + 1]
            /\ net' = [net EXCEPT ![<<c, kind>>] = @ + 1]
            /\ UNCHANGED clientOpen
        BY <2>1, ServerAssumption DEF Send, Types
      <3>2. /\ net' \in [Clients \X Kind -> Nat] /\ sends' \in [Clients \X Kind -> Nat]
        BY <3>1 DEF Types
      <3>3. \A d \in Clients \X Kind : net'[d] <= sends'[d] /\ sends'[d] <= MaxSends[d[2]]
        <4>1. SUFFICES ASSUME NEW d \in Clients \X Kind
                       PROVE  net'[d] <= sends'[d] /\ sends'[d] <= MaxSends[d[2]]
          OBVIOUS
        <4>2. CASE d = <<c, kind>>
          BY <3>1, <4>2 DEF Types
        <4>3. CASE d # <<c, kind>>
          BY <3>1, <4>3 DEF Types
        <4>4. QED
          BY <4>2, <4>3
      <3>4. QED
        BY <1>1, <3>1, <3>2, <3>3 DEF Types
    <2>2. ASSUME ClientClose(c) PROVE Types'
      BY <1>1, <2>2 DEF ClientClose, Types
    <2>3. QED
      BY <2>1, <2>2
  <1>3. EntriesOwn' /\ KeysOwn' /\ TableExact' /\ FedByOwner'
    BY <1>1 DEF EntriesOwn, KeysOwn, TableExact, FedByOwner
  <1>4. QED
    BY <1>2, <1>3

\* A session ends, or loses its transport.
LEMMA EndsKeep ==
    ASSUME ServerIndInv, NEW k \in DOMAIN instances, SessionEnds(k) \/ EncryptionFails(k)
    PROVE  ServerIndInv'
  <1>1. instances[k] \in Instance
    BY ElementOfSeq, LenProperties DEF ServerIndInv, Types
  <1>2. CASE SessionEnds(k)
    <2> DEFINE record == [instances[k] EXCEPT !.smux_closed = TRUE]
    <2>1. /\ record \in Instance /\ record.key = instances[k].key
          /\ record.endpoint = instances[k].endpoint /\ record.conv = instances[k].conv
          /\ record.closing = instances[k].closing /\ record.fed = instances[k].fed
      BY <1>1 DEF Instance
    <2>2. TransportClose(k, record) /\ UNCHANGED <<clientOpen, sends, net>>
      BY <1>2 DEF SessionEnds
    <2> HIDE DEF record
    <2>3. QED
      BY <2>1, <2>2, CloseKeeps
  <1>3. CASE EncryptionFails(k)
    BY <1>1, <1>3, CloseKeeps DEF EncryptionFails
  <1>4. QED
    BY <1>2, <1>3

-----------------------------------------------------------------------------
(* Every reachable state satisfies the inductive invariant, however late    *)
(* and however often datagrams arrive.                                      *)
THEOREM ServerInvariant == Spec => []ServerIndInv
  <1>1. ServerIndInv /\ [Next]_vars => ServerIndInv'
    <2>1. SUFFICES ASSUME ServerIndInv, [Next]_vars PROVE ServerIndInv'
      OBVIOUS
    <2>2. CASE \E c \in Clients, kind \in Kind : Send(c, kind)
      BY <2>1, <2>2, ClientsKeep
    <2>3. CASE \E c \in Clients, kind \in Kind : HandlePacket(c, kind)
      BY <2>1, <2>3, PacketKeeps
    <2>4. CASE \E c \in Clients : ClientClose(c)
      BY <2>1, <2>4, ClientsKeep
    <2>5. CASE \E k \in DOMAIN instances : SessionEnds(k) \/ EncryptionFails(k)
      BY <2>1, <2>5, EndsKeep
    <2>6. CASE UNCHANGED vars
      BY <2>1, <2>6 DEF vars, ServerIndInv, Types, EntriesOwn, KeysOwn, TableExact, FedByOwner
    <2>7. QED
      BY <2>1, <2>2, <2>3, <2>4, <2>5, <2>6 DEF Next
  <1>2. QED
    BY ServerInit, <1>1, PTL DEF Spec

(* Nothing the table refers to is missing, no datagram is there that was    *)
(* not sent, and CurrEstab never becomes negative.                          *)
THEOREM ServerTypes == Spec => []TypeOK
  <1>1. ServerIndInv => TypeOK
    <2>1. SUFFICES ASSUME ServerIndInv PROVE TypeOK
      OBVIOUS
    <2> USE DEF ServerIndInv
    <2>2. \A c \in Clients, kind \in Kind :
             sends[<<c, kind>>] \in 0..MaxSends[kind] /\ net[<<c, kind>>] \in 0..sends[<<c, kind>>]
      <3>1. SUFFICES ASSUME NEW c \in Clients, NEW kind \in Kind
                     PROVE  sends[<<c, kind>>] \in 0..MaxSends[kind] /\ net[<<c, kind>>] \in 0..sends[<<c, kind>>]
        OBVIOUS
      <3>2. <<c, kind>> \in Clients \X Kind /\ <<c, kind>>[2] = kind /\ MaxSends[kind] \in Nat
        BY ServerAssumption
      <3>3. QED
        BY <2>1, <3>2 DEF Types
    <2>3. curr_estab \in Nat
      BY <2>1, FS_CardinalityType DEF Types, TableExact
    <2>4. \A k \in DOMAIN instances : instances[k].fed \subseteq Clients \X Kind
      <3>1. \A k \in DOMAIN instances : instances[k] \in Instance
        BY <2>1, ElementOfSeq, LenProperties DEF Types
      <3>2. QED
        BY <3>1 DEF Instance
    <2>5. QED
      BY <2>1, <2>2, <2>3, <2>4 DEF TypeOK, Types, EntriesOwn
  <1>2. QED
    BY <1>1, ServerInvariant, PTL

(* The table holds exactly the sessions with an open transport, whichever   *)
(* of them end, lose their transport or are created anew under the key of   *)
(* one that lives on without an entry.                                      *)
THEOREM ServerTable == Spec => []TableExact
  <1>1. ServerIndInv => TableExact
    BY DEF ServerIndInv
  <1>2. QED
    BY <1>1, ServerInvariant, PTL

(* No session is ever fed a datagram of another endpoint, or data of        *)
(* another conversation.                                                    *)
THEOREM ServerFedByOwner == Spec => []FedByOwner
  <1>1. ServerIndInv => FedByOwner
    BY DEF ServerIndInv
  <1>2. QED
    BY <1>1, ServerInvariant, PTL

-----------------------------------------------------------------------------
(* The other part of MCServerSessions: what SessionLifeProofs proves of the *)
(* clocks of a session holds of its instance Life, whose definitions are    *)
(* those of LifeProofs.                                                     *)

LifeProofs == INSTANCE SessionLifeProofs

LEMMA SameInit == Life!Init => LifeProofs!Init
  BY DEF Life!Init, LifeProofs!Init, Life!Ends, LifeProofs!Ends, Life!TimerSet,
     LifeProofs!TimerSet, Life!Segment, LifeProofs!Segment

LEMMA SameCard == \A S : Life!Cardinality(S) = LifeProofs!Cardinality(S)
  BY Zenon DEF Life!Cardinality, LifeProofs!Cardinality, Life!IsFiniteSet,
     LifeProofs!IsFiniteSet

LEMMA SameNext == Life!Next => LifeProofs!Next
  <1>1. Life!Ends = LifeProofs!Ends /\ Life!NoTimer = LifeProofs!NoTimer
    BY DEF Life!Ends, LifeProofs!Ends, Life!NoTimer, LifeProofs!NoTimer
  <1>2. \A e : Life!Peer(e) = LifeProofs!Peer(e)
    BY <1>1, Zenon DEF Life!Peer, LifeProofs!Peer
  <1>3. \A e : Life!TimerSet(e) = LifeProofs!TimerSet(e)
    BY Zenon DEF Life!TimerSet, LifeProofs!TimerSet
  <1>4. \A n : Life!Segment(n) = LifeProofs!Segment(n)
    BY Zenon DEF Life!Segment, LifeProofs!Segment
  <1>5. \A g : Life!Delivered(g) = LifeProofs!Delivered(g)
    <2>1. SUFFICES ASSUME NEW g PROVE Life!Delivered(g) = LifeProofs!Delivered(g)
      OBVIOUS
    <2>2. QED
      BY SameCard DEF Life!Delivered, LifeProofs!Delivered
  <1>6. \A g, n : Life!Hears(g, n) <=> LifeProofs!Hears(g, n)
    BY <1>5, Zenon DEF Life!Hears, LifeProofs!Hears
  <1>7. Life!CreateServer => LifeProofs!CreateServer
    BY <1>3, Zenon DEF Life!CreateServer, LifeProofs!CreateServer
  <1>8. \A e : Life!SendFrame(e) => LifeProofs!SendFrame(e)
    BY <1>4, Zenon DEF Life!SendFrame, LifeProofs!SendFrame
  <1>9. ASSUME NEW e, Life!Loses(e) PROVE LifeProofs!Loses(e)
    <2>1. CASE e = "server" /\ ~orphaned /\ \A d \in wire["client"] : d.sn # 0
      BY <1>9, <2>1, SameCard, Zenon DEF Life!Loses, LifeProofs!Loses
    <2>2. CASE ~(e = "server" /\ ~orphaned /\ \A d \in wire["client"] : d.sn # 0)
      BY <1>9, <2>2, Zenon DEF Life!Loses, LifeProofs!Loses
    <2>3. QED
      BY <2>1, <2>2
  <1>10. \A e : Life!InTime(e) <=> LifeProofs!InTime(e)
    BY Zenon DEF Life!InTime, LifeProofs!InTime
  <1>11. ASSUME NEW e, NEW d, NEW a, Life!Arrive(e, d, a) PROVE LifeProofs!Arrive(e, d, a)
    BY <1>1, <1>2, <1>6, <1>7, <1>11, Zenon DEF Life!Arrive, LifeProofs!Arrive
  <1>12. \A e : Life!KeepaliveTick(e) => LifeProofs!KeepaliveTick(e)
    BY <1>3, <1>8, <1>9, Zenon DEF Life!KeepaliveTick, LifeProofs!KeepaliveTick
  <1>13. Life!Restart => LifeProofs!Restart
    BY <1>9, Zenon DEF Life!Restart, LifeProofs!Restart, Life!netVars, LifeProofs!netVars,
       Life!historyVars, LifeProofs!historyVars
  <1>14. Life!LinkDown => LifeProofs!LinkDown
    BY Zenon DEF Life!LinkDown, LifeProofs!LinkDown, Life!historyVars, LifeProofs!historyVars
  <1>15. Life!Tick => LifeProofs!Tick
    BY <1>1, <1>10, Zenon DEF Life!Tick, LifeProofs!Tick, Life!NoTimer, LifeProofs!NoTimer,
       Life!historyVars, LifeProofs!historyVars
  <1>16. QED
    BY <1>1, <1>2, <1>11, <1>12, <1>13, <1>14, <1>15, Zenon DEF Life!Next, LifeProofs!Next

LEMMA LifeStep == [MCNext]_<<part, vars, lifeVars>> => [LifeProofs!Next]_(LifeProofs!vars)
  BY SameNext DEF MCNext, lifeVars, LifeProofs!vars, LifeProofs!netVars, LifeProofs!historyVars

LEMMA LifePart == MCSpec => LifeProofs!Spec
  <1>1. MCInit => LifeProofs!Init
    BY SameInit DEF MCInit
  <1>2. QED
    BY <1>1, LifeStep, PTL DEF MCSpec, LifeProofs!Spec

LEMMA LifeConstantsHold == LifeProofs!LifeAssumption
  BY LifeConstants DEF LifeProofs!LifeAssumption, Life!LifeAssumption, LifeProofs!Ends, Life!Ends

(* keepalive_tick of a server's session or of its client's closes neither   *)
(* while path and server are there and the intervals leave room.            *)
THEOREM HealthySessions == MCSpec => []HealthyStaysOpen
  <1>1. LifeProofs!Spec => []LifeProofs!HealthyStaysOpen
    BY LifeConstantsHold, LifeProofs!LifeHealthy
  <1>2. LifeProofs!HealthyStaysOpen => HealthyStaysOpen
    BY DEF LifeProofs!HealthyStaysOpen, HealthyStaysOpen, Life!HealthyStaysOpen,
           LifeProofs!Ends, Life!Ends, LifeProofs!Interval, Life!Interval
  <1>3. QED
    BY <1>1, <1>2, LifePart, PTL

(* keepalive_tick closes a session that has heard nothing for smux_timeout  *)
(* and one late tick.                                                       *)
THEOREM SilentSessions == MCSpec => []SilenceBounded
  <1>1. LifeProofs!Spec => []LifeProofs!SilenceBounded
    BY LifeConstantsHold, LifeProofs!LifeSilence
  <1>2. LifeProofs!SilenceBounded => SilenceBounded
    BY DEF LifeProofs!SilenceBounded, SilenceBounded, Life!SilenceBounded,
           LifeProofs!Ends, Life!Ends, LifeProofs!Interval, Life!Interval
  <1>3. QED
    BY <1>1, <1>2, LifePart, PTL

(* However often handle_packet makes a session of an orphaned client's      *)
(* datagrams, the client hears a bounded number of segments.                *)
THEOREM OrphanSessions == MCSpec => []OrphanStarves
  <1>1. LifeProofs!Spec => []LifeProofs!OrphanStarves
    BY LifeConstantsHold, LifeProofs!LifeOrphanStarves
  <1>2. LifeProofs!OrphanStarves => OrphanStarves
    BY DEF LifeProofs!OrphanStarves, OrphanStarves, Life!OrphanStarves,
           LifeProofs!Interval, Life!Interval
  <1>3. QED
    BY <1>1, <1>2, LifePart, PTL
=============================================================================
