------------------------- MODULE SessionLifeProofs -------------------------
(***************************************************************************)
(* TLAPS proofs about SessionLife, for every keepalive of the two ends,     *)
(* every smux_timeout and every bound on how late timers fire and segments  *)
(* arrive.                                                                  *)
(***************************************************************************)
EXTENDS SessionLife, FiniteSetTheorems, WellFoundedInduction, TLAPS

-----------------------------------------------------------------------------
(* The inductive invariants.                                                *)

Segments == [sn : Nat, at : Nat]

Types ==
    /\ keepalive \in [Ends -> Nat]
    /\ now \in Nat /\ restarts \in Nat /\ strays \in Nat /\ revivals \in Nat
    /\ running \in [Ends -> BOOLEAN]
    /\ last_activity \in [Ends -> Nat] /\ timer \in [Ends -> Nat]
    /\ sent \in [Ends -> Nat]
    /\ got \in [Ends -> SUBSET Nat] /\ wire \in [Ends -> SUBSET Segments]
    /\ \A e \in Ends : IsFiniteSet(got[e]) /\ IsFiniteSet(wire[e])
    /\ linkUp \in BOOLEAN /\ orphaned \in BOOLEAN

\* A running session has a timer that is due at most one interval after the last
\* time it found its peer alive, and that is never overdue by more than Late.
Clock ==
    \A e \in Ends :
        /\ last_activity[e] <= now
        /\ timer[e] <= now + Interval(e)
        /\ running[e] => /\ timer[e] <= last_activity[e] + Timeout + Interval(e)
                         /\ now <= timer[e] + Late

ClockInv == Types /\ Clock

Healthy ==
    /\ linkUp /\ restarts = 0
    /\ \A e \in Ends : Interval(e) + Late + 2 * Lag <= Timeout

\* Every segment of an end has arrived, or is under way and not overdue.
NothingLost ==
    \A e \in Ends :
        /\ got[Peer(e)] \subseteq 0..(sent[e] - 1)
        /\ \A sn \in 0..(sent[e] - 1) : sn \in got[Peer(e)] \/ \E d \in wire[e] : d.sn = sn
        /\ \A d \in wire[e] : d.sn < sent[e] /\ d.at <= now /\ now <= d.at + Lag

\* The server waits for the segment with which the client has begun.
NotYet ==
    /\ sent["client"] > 0 /\ \A d \in wire["client"] : d.sn = 0 => d.at = 0
    /\ ~running["server"] => sent["server"] = 0 /\ wire["server"] = {} /\ got["server"] = {}

\* The peer of e has heard something no longer ago than the last timer of e was
\* set, or than the one before when it is still missing what was sent then.
HeardLately ==
    running["server"] =>
        \A e \in Ends :
            LET p == Peer(e)
                next == Delivered(got[p])
            IN  /\ next = sent[e] => timer[e] <= last_activity[p] + Interval(e) + Lag
                /\ \A d \in wire[e] :
                      d.sn = next => d.at <= last_activity[p] + Interval(e) + Late + Lag

HealthyInv == Healthy => running["client"] /\ NothingLost /\ NotYet /\ HeardLately

LifeInv == ClockInv /\ HealthyInv

\* Numbers of the server that the client has not seen and may still see, when the
\* server's sessions no longer live to send more than Nops + 1 segments.
Nops == Timeout \div Interval("server")
Unheard == ({d.sn : d \in wire["server"]} \cup 0..Nops) \ got["client"]

\* A server that has lost the session hears nothing of what reaches it.
Deaf ==
    /\ sent["client"] > 0
    /\ orphaned =>
          /\ \A d \in wire["client"] : d.sn # 0
          /\ running["server"] =>
                /\ 0 \notin got["server"]
                /\ last_activity["server"] + (sent["server"] + 1) * Interval("server") <= timer["server"]
                /\ sent["server"] * Interval("server") <= Timeout

\* Whatever can still revive the client is a stray of the first session or one
\* of the few NOPs of those that follow.
Spent ==
    /\ running["server"] => \A sn \in 0..(sent["server"] - 1) :
                               sn \in got["client"] \/ \E d \in wire["server"] : d.sn = sn
    /\ ~orphaned => revivals = 0
    /\ orphaned => Cardinality(Unheard) + revivals <= strays + Nops + 1

OrphanInv == ClockInv /\ Deaf /\ Spent

-----------------------------------------------------------------------------
\* There are two ends, each the other's peer.
LEMMA TwoEnds ==
    /\ Peer("client") = "server" /\ Peer("server") = "client"
    /\ \A e \in Ends : Peer(e) \in Ends /\ Peer(Peer(e)) = e /\ Peer(e) # e
    /\ \A e, f \in Ends : f = e \/ f = Peer(e)
  <1>1. ASSUME NEW e \in Ends PROVE Peer(e) \in Ends /\ Peer(e) # e
    <2>1. \E p \in Ends : p # e
      BY DEF Ends
    <2>2. QED
      BY <2>1 DEF Peer
  <1>2. QED
    BY <1>1 DEF Ends

\* Timers are set one interval ahead.
LEMMA Intervals ==
    ASSUME Types, NEW e \in Ends
    PROVE  /\ Interval(e) \in Nat \ {0} /\ TimerSet(e) = now + Interval(e) /\ TimerSet(e) \in Nat
           /\ keepalive' = keepalive => Interval(e)' = Interval(e)
  BY DEF Types, Interval, TimerSet

\* The smallest element of a set of numbers.
LEMMA LeastElement ==
    ASSUME NEW S \in SUBSET Nat, S # {}
    PROVE  \E least \in S : \A n \in S : least <= n
  <1> DEFINE R == OpToRel(<, Nat)
  <1>1. IsWellFoundedOn(R, Nat)
    BY NatLessThanWellFounded
  <1>2. ASSUME NEW m \in Nat, NEW n \in Nat, m < n PROVE <<m, n>> \in R
    BY <1>2 DEF OpToRel
  <1> HIDE DEF R
  <1>3. PICK least \in S : \A n \in S : ~(<<n, least>> \in R)
    BY <1>1, WFMin
  <1>4. ASSUME NEW n \in S PROVE least <= n
    <2>1. least \in Nat /\ n \in Nat
      OBVIOUS
    <2>2. ~(<<n, least>> \in R)
      BY <1>3
    <2>3. ~(n < least)
      BY <2>1, <2>2, <1>2, Zenon
    <2>4. QED
      BY <2>1, <2>3
  <1>5. QED
    BY <1>4

\* Delivered is the first number that is missing.
LEMMA DeliveredFirst ==
    ASSUME NEW G \in SUBSET Nat, IsFiniteSet(G)
    PROVE  Delivered(G) \in Nat /\ Delivered(G) \notin G /\ 0..(Delivered(G) - 1) \subseteq G
  <1> DEFINE missing == {n \in 0..Cardinality(G) : n \notin G}
  <1>1. Cardinality(G) \in Nat
    BY FS_CardinalityType
  <1>2. missing # {}
    <2>1. SUFFICES ASSUME 0..Cardinality(G) \subseteq G PROVE FALSE
      OBVIOUS
    <2>2. Cardinality(0..Cardinality(G)) = Cardinality(G) + 1
      BY <1>1, FS_Interval
    <2>3. Cardinality(0..Cardinality(G)) <= Cardinality(G)
      BY <2>1, FS_Subset
    <2>4. QED
      BY <1>1, <2>2, <2>3
  <1>3. PICK n \in missing : \A m \in missing : n <= m
    <2>1. missing \in SUBSET Nat
      BY <1>1
    <2> HIDE DEF missing
    <2>2. QED
      BY <1>2, <2>1, LeastElement
  <1>4. ASSUME NEW m \in 0..(n - 1) PROVE m \in G
    <2>1. m \in 0..Cardinality(G) /\ m < n
      BY <1>1
    <2>2. QED
      BY <1>1, <1>3, <2>1
  <1>5. \E k \in 0..Cardinality(G) : k \notin G /\ 0..(k - 1) \subseteq G
    BY <1>4
  <1>6. QED
    BY <1>1, <1>5 DEF Delivered

\* What arrives only takes it further.
LEMMA DeliveredGrows ==
    ASSUME NEW G \in SUBSET Nat, IsFiniteSet(G), NEW sn \in Nat
    PROVE  /\ IsFiniteSet(G \cup {sn})
           /\ Delivered(G) <= Delivered(G \cup {sn})
           /\ ~Hears(G, sn) => Delivered(G \cup {sn}) = Delivered(G)
           /\ Hears(G, sn) => sn = Delivered(G)
  <1> DEFINE u == Delivered(G)
             v == Delivered(G \cup {sn})
  <1>1. IsFiniteSet(G \cup {sn})
    BY FS_AddElement
  <1>2. u \in Nat /\ u \notin G /\ 0..(u - 1) \subseteq G
    BY DeliveredFirst
  <1>3. v \in Nat /\ v \notin G \cup {sn} /\ 0..(v - 1) \subseteq G \cup {sn}
    BY <1>1, DeliveredFirst
  <1> HIDE DEF u, v
  <1>4. ~(v < u)
    BY <1>2, <1>3
  <1>5. v > u => sn = u
    BY <1>2, <1>3
  <1>6. QED
    BY <1>1, <1>2, <1>3, <1>4, <1>5 DEF Hears, u, v

-----------------------------------------------------------------------------
\* A session made, a segment taken in, and what that makes of the state.
LEMMA ArriveTypes ==
    ASSUME Types, NEW e \in Ends, NEW d \in wire[Peer(e)], NEW acknowledged \in BOOLEAN,
           Arrive(e, d, acknowledged)
    PROVE  Types'
  <1>1. d \in Segments /\ d.sn \in Nat
    BY TwoEnds DEF Types, Segments
  <1>2. revivals' \in Nat
    BY DEF Arrive, Types
  <1>3. wire' \in [Ends -> SUBSET Segments] /\ \A p \in Ends : IsFiniteSet(wire'[p])
    <2>1. IsFiniteSet(wire[Peer(e)] \ {d})
      BY TwoEnds, FS_RemoveElement DEF Types
    <2>2. QED
      BY <2>1, TwoEnds DEF Arrive, Types
  <1>4. got' \in [Ends -> SUBSET Nat] /\ \A p \in Ends : IsFiniteSet(got'[p])
    <2>1. ASSUME NEW G \in SUBSET Nat, IsFiniteSet(G) PROVE IsFiniteSet(G \cup {d.sn}) /\ IsFiniteSet(G \cup {})
      BY <2>1, FS_AddElement
    <2>2. IsFiniteSet({}) /\ {} \in SUBSET Nat
      BY FS_EmptySet
    <2>3. PICK known \in [Ends -> SUBSET Nat] :
             /\ \A p \in Ends : known[p] = got[p] \/ known[p] = {}
             /\ got' = [p \in Ends |-> known[p] \cup (IF p = e THEN {d.sn} ELSE {})]
      <3> DEFINE made == ~running["server"] /\ (e = "server" \/ acknowledged)
                 known == [p \in Ends |-> IF made /\ p = "server" THEN {} ELSE got[p]]
      <3>1. known \in [Ends -> SUBSET Nat] /\ \A p \in Ends : known[p] = got[p] \/ known[p] = {}
        BY DEF Types
      <3>2. got' = [p \in Ends |-> known[p] \cup (IF p = e THEN {d.sn} ELSE {})]
        BY DEF Arrive
      <3>3. QED
        BY <3>1, <3>2
    <2>4. \A p \in Ends : IsFiniteSet(known[p])
      BY <2>2, <2>3 DEF Types
    <2>5. QED
      BY <1>1, <2>1, <2>3, <2>4
  <1>5. last_activity' \in [Ends -> Nat]
    BY DEF Arrive, Types
  <1>6. running' \in [Ends -> BOOLEAN] /\ timer' \in [Ends -> Nat] /\ sent' \in [Ends -> Nat]
    <2>1. "server" \in Ends
      BY DEF Ends
    <2>2. CASE CreateServer
      BY <2>1, <2>2, Intervals DEF CreateServer, Types
    <2>3. CASE UNCHANGED <<running, timer, sent>>
      BY <2>3 DEF Types
    <2>4. QED
      BY <2>2, <2>3 DEF Arrive
  <1>7. QED
    BY <1>2, <1>3, <1>4, <1>5, <1>6 DEF Arrive, Types

\* A frame sent.
LEMMA SendFrameTypes ==
    ASSUME Types, NEW e \in Ends, SendFrame(e)
    PROVE  /\ sent' \in [Ends -> Nat] /\ wire' \in [Ends -> SUBSET Segments]
           /\ \A f \in Ends : IsFiniteSet(wire'[f])
  <1>1. Segment(sent[e]) \in Segments
    BY DEF Types, Segment, Segments
  <1>2. IsFiniteSet(wire[e] \cup {Segment(sent[e])})
    BY FS_AddElement DEF Types
  <1>3. QED
    BY <1>1, <1>2 DEF SendFrame, Types

LEMMA LosesTypes ==
    ASSUME Types, NEW e \in Ends, Loses(e)
    PROVE  strays' \in Nat /\ orphaned' \in BOOLEAN
  <1>1. Cardinality(wire["server"]) \in Nat
    BY FS_CardinalityType DEF Types, Ends
  <1>2. QED
    BY <1>1 DEF Loses, Types

LEMMA TypesKept ==
    ASSUME Types, [Next]_vars
    PROVE  Types'
  <1>1. ASSUME NEW e \in Ends, NEW acknowledged \in BOOLEAN, NEW d \in wire[Peer(e)],
               Arrive(e, d, acknowledged)
        PROVE  Types'
    BY <1>1, ArriveTypes
  <1>2. ASSUME NEW e \in Ends, KeepaliveTick(e) PROVE Types'
    <2>1. SendFrame(e)
      BY <1>2 DEF KeepaliveTick
    <2>2. strays' \in Nat /\ orphaned' \in BOOLEAN
      BY <1>2, LosesTypes DEF KeepaliveTick, Types
    <2>3. timer' \in [Ends -> Nat] /\ running' \in [Ends -> BOOLEAN]
      BY <1>2, Intervals DEF KeepaliveTick, Types
    <2>4. UNCHANGED <<keepalive, now, last_activity, got, linkUp, restarts, revivals>>
      BY <1>2 DEF KeepaliveTick
    <2>5. QED
      BY <2>1, <2>2, <2>3, <2>4, SendFrameTypes DEF Types
  <1>3. CASE Restart
    <2>1. strays' \in Nat /\ orphaned' \in BOOLEAN
      BY <1>3, LosesTypes DEF Restart, Ends
    <2>2. running' \in [Ends -> BOOLEAN] /\ restarts' \in Nat
      <3>1. running' = [e \in Ends |-> IF e = "server" THEN FALSE ELSE running[e]]
        BY <1>3 DEF Restart, Types
      <3>2. running' \in [Ends -> BOOLEAN]
        BY <3>1 DEF Types
      <3>3. restarts' \in Nat
        BY <1>3 DEF Restart, Types
      <3>4. QED
        BY <3>2, <3>3
    <2>3. UNCHANGED <<keepalive, now, last_activity, timer, sent, got, wire, linkUp, revivals>>
      BY <1>3 DEF Restart, netVars
    <2>4. QED
      BY <2>1, <2>2, <2>3 DEF Types
  <1>4. CASE LinkDown
    BY <1>4 DEF LinkDown, Types, historyVars
  <1>5. CASE Tick
    <2>1. wire' = [e \in Ends |-> {d \in wire[e] : running[e] \/ now - d.at < Lag}]
      BY <1>5 DEF Tick
    <2>2. ASSUME NEW e \in Ends PROVE wire'[e] \in SUBSET wire[e] /\ IsFiniteSet(wire'[e])
      <3>1. wire'[e] \in SUBSET wire[e]
        BY <2>1
      <3>2. QED
        BY <3>1, FS_Subset DEF Types
    <2>3. wire' \in [Ends -> SUBSET Segments]
      BY <2>1, <2>2 DEF Types
    <2>4. QED
      BY <1>5, <2>2, <2>3 DEF Tick, Types, historyVars
  <1>6. CASE UNCHANGED vars
    BY <1>6 DEF vars, netVars, historyVars, Types
  <1>7. QED
    BY <1>1, <1>2, <1>3, <1>4, <1>5, <1>6 DEF Next

-----------------------------------------------------------------------------
(* Silence.                                                                 *)

LEMMA LifeInit ==
    ASSUME LifeAssumption, Init
    PROVE  ClockInv
  <1>1. keepalive \in [Ends -> Nat] /\ now = 0 /\ now \in Nat
    BY DEF LifeAssumption, Init
  <1>2. \A e \in Ends : TimerSet(e) = now + Interval(e) /\ Interval(e) \in Nat
    BY <1>1 DEF TimerSet, Interval
  <1>3. IsFiniteSet({}) /\ IsFiniteSet({Segment(0)}) /\ Segment(0) \in Segments
    BY <1>1, FS_EmptySet, FS_Singleton DEF Segment, Segments
  <1>4. wire \in [Ends -> SUBSET Segments] /\ \A e \in Ends : IsFiniteSet(wire[e])
    BY <1>3 DEF Init, Ends
  <1>5. Types
    <2>1. running \in [Ends -> BOOLEAN] /\ sent \in [Ends -> Nat]
      BY DEF Init, Ends
    <2>2. last_activity \in [Ends -> Nat] /\ timer \in [Ends -> Nat]
      BY <1>1, <1>2 DEF Init
    <2>3. got \in [Ends -> SUBSET Nat] /\ \A e \in Ends : IsFiniteSet(got[e])
      BY <1>3 DEF Init
    <2>4. restarts \in Nat /\ strays \in Nat /\ revivals \in Nat /\ linkUp \in BOOLEAN
          /\ orphaned \in BOOLEAN
      BY DEF Init
    <2>5. QED
      BY <1>1, <1>4, <2>1, <2>2, <2>3, <2>4 DEF Types
  <1>6. Clock
    BY <1>1, <1>2 DEF LifeAssumption, Init, Clock
  <1>7. QED
    BY <1>5, <1>6 DEF ClockInv

LEMMA ClockKept ==
    ASSUME LifeAssumption, ClockInv, [Next]_vars
    PROVE  ClockInv'
  <1>1. Types /\ Types' /\ Clock /\ Timeout \in Nat /\ Late \in Nat
    BY TypesKept DEF ClockInv, LifeAssumption
  <1>2. keepalive' = keepalive
    BY DEF Next, Arrive, KeepaliveTick, Restart, LinkDown, Tick, vars
  <1>3. ASSUME NEW e \in Ends
        PROVE  /\ Interval(e) \in Nat \ {0} /\ Interval(e)' = Interval(e)
               /\ TimerSet(e) = now + Interval(e)
    BY <1>1, <1>2, Intervals
  <1> SUFFICES Clock'
    BY <1>1 DEF ClockInv
  <1>4. ASSUME NEW e \in Ends, NEW acknowledged \in BOOLEAN, NEW d \in wire[Peer(e)],
               Arrive(e, d, acknowledged)
        PROVE  Clock'
    <2>1. ASSUME NEW p \in Ends
          PROVE  /\ last_activity'[p] \in {now, last_activity[p]} /\ now' = now
                 /\ \/ running'[p] = running[p] /\ timer'[p] = timer[p]
                    \/ running'[p] /\ timer'[p] = now + Interval(p) /\ last_activity'[p] = now
      BY <1>1, <1>3, <1>4 DEF Arrive, CreateServer, Types
    <2>2. ASSUME NEW p \in Ends
          PROVE  /\ last_activity[p] \in Nat /\ timer[p] \in Nat /\ now \in Nat
      BY <1>1 DEF Types
    <2>3. QED
      BY <1>1, <1>3, <2>1, <2>2 DEF Clock
  <1>5. ASSUME NEW e \in Ends, KeepaliveTick(e) PROVE Clock'
    <2>1. /\ last_activity' = last_activity /\ now' = now
          /\ \A p \in Ends : p # e => running'[p] = running[p] /\ timer'[p] = timer[p]
          /\ \/ running'[e] = FALSE /\ timer' = timer
             \/ /\ now - last_activity[e] <= Timeout
                /\ timer'[e] = now + Interval(e)
      BY <1>1, <1>3, <1>5 DEF KeepaliveTick, Types
    <2>2. ASSUME NEW p \in Ends
          PROVE  /\ last_activity[p] \in Nat /\ timer[p] \in Nat /\ now \in Nat
      BY <1>1 DEF Types
    <2>3. QED
      BY <1>1, <1>3, <2>1, <2>2 DEF Clock
  <1>6. CASE Restart
    <2>1. /\ UNCHANGED <<now, last_activity, timer>>
          /\ \A p \in Ends : running'[p] => running[p]
      BY <1>1, <1>6 DEF Restart, Types
    <2>2. QED
      BY <1>1, <1>3, <2>1 DEF Clock
  <1>7. CASE LinkDown
    BY <1>1, <1>3, <1>7 DEF Clock, LinkDown
  <1>8. CASE Tick
    <2>1. /\ UNCHANGED <<last_activity, timer, running>> /\ now' = now + 1
          /\ \A p \in Ends : running[p] => now < timer[p] + Late
      BY <1>1, <1>8 DEF Tick, Types, NoTimer
    <2>2. ASSUME NEW p \in Ends
          PROVE  /\ last_activity[p] \in Nat /\ timer[p] \in Nat /\ now \in Nat
      BY <1>1 DEF Types
    <2>3. QED
      BY <1>1, <1>3, <2>1, <2>2 DEF Clock
  <1>9. CASE UNCHANGED vars
    BY <1>1, <1>3, <1>9 DEF Clock, vars
  <1>10. QED
    BY <1>4, <1>5, <1>6, <1>7, <1>8, <1>9 DEF Next

(* The clocks of both ends stay in step with what they hear, whatever       *)
(* KeepaliveTick, restarts and the path do.                                 *)
THEOREM LifeClock ==
    ASSUME LifeAssumption
    PROVE  Spec => []ClockInv
  <1>1. Init => ClockInv
    BY LifeInit
  <1>2. ClockInv /\ [Next]_vars => ClockInv'
    BY ClockKept
  <1>3. QED
    BY <1>1, <1>2, PTL DEF Spec

(* keepalive_tick closes every session that has not heard anything for      *)
(* smux_timeout and one late tick, whatever happens to its peer.            *)
THEOREM LifeSilence ==
    ASSUME LifeAssumption
    PROVE  Spec => []SilenceBounded
  <1>1. ClockInv => SilenceBounded
    <2>1. SUFFICES ASSUME ClockInv, NEW e \in Ends, running[e]
                   PROVE  now - last_activity[e] <= Timeout + Interval(e) + Late
      BY DEF SilenceBounded
    <2>2. Interval(e) \in Nat /\ Timeout \in Nat /\ Late \in Nat
      BY <2>1, Intervals DEF ClockInv, LifeAssumption
    <2>3. last_activity[e] \in Nat /\ timer[e] \in Nat /\ now \in Nat
      BY <2>1 DEF ClockInv, Types
    <2>4. timer[e] <= last_activity[e] + Timeout + Interval(e) /\ now <= timer[e] + Late
      BY <2>1 DEF ClockInv, Clock
    <2>5. QED
      BY <2>2, <2>3, <2>4
  <1>2. QED
    BY <1>1, LifeClock, PTL

-----------------------------------------------------------------------------
(* A healthy session.                                                       *)

\* What every step of a healthy session starts from.
LEMMA HealthyFacts ==
    ASSUME LifeAssumption, LifeInv, Healthy
    PROVE  /\ Types /\ Clock /\ running["client"] /\ NothingLost /\ NotYet /\ HeardLately
           /\ Timeout \in Nat /\ Late \in Nat /\ Lag \in Nat
           /\ \A e \in Ends : /\ Interval(e) \in Nat \ {0} /\ TimerSet(e) = now + Interval(e)
                              /\ Interval(e) + Late + 2 * Lag <= Timeout
           /\ ~running["server"] => now <= Lag
  <1>1. /\ Types /\ Clock /\ running["client"] /\ NothingLost /\ NotYet /\ HeardLately
        /\ Timeout \in Nat /\ Late \in Nat /\ Lag \in Nat
    BY DEF LifeInv, ClockInv, HealthyInv, LifeAssumption
  <1>2. ASSUME ~running["server"] PROVE now <= Lag
    <2>1. sent["client"] \in Nat \ {0} /\ 0 \notin got["server"]
      BY <1>1, <1>2 DEF NotYet, Types, Ends
    <2>2. PICK d \in wire["client"] : d.sn = 0
      <3>1. "client" \in Ends /\ Peer("client") = "server" /\ 0 \in 0..(sent["client"] - 1)
        BY <2>1, TwoEnds DEF Ends
      <3>2. QED
        BY <1>1, <2>1, <3>1 DEF NothingLost
    <2>3. d.at = 0 /\ now <= d.at + Lag
      BY <1>1, <2>2 DEF NotYet, NothingLost, Ends
    <2>4. QED
      BY <1>1, <2>3 DEF Types
  <1>3. QED
    BY <1>1, <1>2, Intervals DEF Healthy

\* What the reader of end e's segments waits for is the next to be sent, or has been.
LEMMA NextBounded ==
    ASSUME Types, NothingLost, NEW e \in Ends
    PROVE  LET next == Delivered(got[Peer(e)])
           IN  next \in Nat /\ next \notin got[Peer(e)] /\ next <= sent[e]
  <1> DEFINE p == Peer(e)
             next == Delivered(got[p])
  <1>1. /\ p \in Ends /\ got[p] \in SUBSET Nat /\ IsFiniteSet(got[p]) /\ sent[e] \in Nat
        /\ got[p] \subseteq 0..(sent[e] - 1)
    BY TwoEnds DEF Types, NothingLost
  <1>2. next \in Nat /\ next \notin got[p] /\ 0..(next - 1) \subseteq got[p]
    BY <1>1, DeliveredFirst
  <1>3. ASSUME sent[e] < next PROVE FALSE
    <2>1. sent[e] \in got[p]
      BY <1>1, <1>2, <1>3
    <2>2. QED
      BY <1>1, <2>1
  <1>4. QED
    BY <1>1, <1>2, <1>3

\* Neither end ever has reason to give up.
LEMMA NobodyGivesUp ==
    ASSUME LifeAssumption, LifeInv, Healthy, NEW p \in Ends, running[p]
    PROVE  now - last_activity[p] <= Timeout
  <1> DEFINE e == Peer(p)
             next == Delivered(got[p])
  <1>1. Types /\ Clock /\ NothingLost /\ HeardLately /\ running["client"]
    BY HealthyFacts
  <1>2. e \in Ends /\ Peer(e) = p
    BY TwoEnds
  <1>3. /\ Interval(e) \in Nat /\ Late \in Nat /\ Lag \in Nat /\ Timeout \in Nat
        /\ Interval(e) + Late + 2 * Lag <= Timeout
    BY <1>2, HealthyFacts
  <1>4. /\ now \in Nat /\ last_activity[p] \in Nat /\ timer[e] \in Nat /\ sent[e] \in Nat
        /\ got[p] \in SUBSET Nat /\ IsFiniteSet(got[p])
    BY <1>1, <1>2 DEF Types
  <1>5. CASE ~running["server"]
    BY <1>3, <1>4, <1>5, HealthyFacts
  <1>6. CASE running["server"]
    <2>1. running[e]
      BY <1>1, <1>2, <1>6 DEF Ends
    <2>2. next \in Nat /\ next \notin got[p] /\ next <= sent[e]
      BY <1>1, <1>2, NextBounded
    <2>5. CASE next = sent[e]
      <3>1. timer[e] <= last_activity[p] + Interval(e) + Lag
        BY <1>1, <1>2, <1>6, <2>5 DEF HeardLately
      <3>2. now <= timer[e] + Late
        BY <1>1, <1>2, <2>1 DEF Clock
      <3>3. QED
        BY <1>3, <1>4, <3>1, <3>2
    <2>6. CASE next < sent[e]
      <3>1. PICK d \in wire[e] : d.sn = next
        <4>1. next \in 0..(sent[e] - 1)
          BY <1>4, <2>2, <2>6
        <4>2. QED
          BY <1>1, <1>2, <2>2, <4>1 DEF NothingLost
      <3>2. d.at <= last_activity[p] + Interval(e) + Late + Lag
        BY <1>1, <1>2, <1>6, <3>1 DEF HeardLately
      <3>3. now <= d.at + Lag
        BY <1>1, <1>2 DEF NothingLost
      <3>4. d.at \in Nat
        BY <1>1, <1>2 DEF Types, Segments
      <3>5. QED
        BY <1>3, <1>4, <3>2, <3>3, <3>4
    <2>7. QED
      BY <1>4, <2>2, <2>5, <2>6
  <1>7. QED
    BY <1>5, <1>6

\* A segment arrives, the first at the server included.
LEMMA HealthyArrive ==
    ASSUME LifeAssumption, LifeInv, Healthy, NEW e \in Ends, NEW acknowledged \in BOOLEAN,
           NEW d \in wire[Peer(e)], Arrive(e, d, acknowledged)
    PROVE  running'["client"] /\ NothingLost' /\ NotYet' /\ HeardLately'
  <1> DEFINE p == Peer(e)
             made == ~running["server"] /\ (e = "server" \/ acknowledged)
             hears == Hears(got[e], d.sn)
  <1>1. /\ Types /\ Clock /\ running["client"] /\ NothingLost /\ NotYet /\ HeardLately
        /\ Late \in Nat /\ Lag \in Nat
        /\ \A f \in Ends : Interval(f) \in Nat /\ TimerSet(f) = now + Interval(f)
        /\ ~running["server"] => now <= Lag
    BY HealthyFacts
  <1>2. p \in Ends /\ Peer(p) = e /\ p # e /\ \A f \in Ends : f = e \/ f = p
    BY TwoEnds
  <1>3. \A f \in Ends : Interval(f)' = Interval(f)
    BY <1>1, Intervals DEF Arrive
  <1>4. made => e = "server" /\ p = "client"
    <2>1. e = "client" \/ e = "server"
      BY DEF Ends
    <2>2. d \in wire[p] /\ (~running["server"] => wire["server"] = {})
      BY <1>1 DEF NotYet
    <2>3. QED
      BY <2>1, <2>2, TwoEnds
  <1>5. /\ d \in wire[p] /\ d.sn \in Nat /\ d.at \in Nat
        /\ d.sn < sent[p] /\ d.at <= now /\ now <= d.at + Lag
    BY <1>1, <1>2 DEF Types, Segments, NothingLost
  <1>6. /\ now \in Nat
        /\ \A f \in Ends : /\ got[f] \in SUBSET Nat /\ IsFiniteSet(got[f]) /\ sent[f] \in Nat
                           /\ timer[f] \in Nat /\ last_activity[f] \in Nat
                           /\ \A x \in wire[f] : x.sn \in Nat /\ x.at \in Nat
    BY <1>1 DEF Types, Segments
  <1>7. now' = now /\ sent' = sent
    <2>1. CASE made
      BY <1>1, <2>1 DEF Arrive, CreateServer, NotYet, Types
    <2>2. CASE ~made
      BY <2>2 DEF Arrive
    <2>3. QED
      BY <2>1, <2>2
  <1>8. got'[e] = got[e] \cup {d.sn} /\ got'[p] = got[p]
    BY <1>1, <1>2, <1>4 DEF Arrive, NotYet
  <1>9. wire'[e] = wire[e] /\ wire'[p] \subseteq wire[p] /\ \A x \in wire[p] : x \in wire'[p] \/ x = d
    BY <1>1, <1>2 DEF Arrive, Types
  <1>10. running'["client"] /\ running'["server"]
    <2>1. CASE made
      BY <1>1, <2>1 DEF Arrive, CreateServer, Types, Ends
    <2>2. CASE ~made
      <3>1. running["server"]
        BY <1>1, <1>2, <1>5, <2>2, TwoEnds DEF NotYet, Ends
      <3>2. QED
        BY <1>1, <2>2, <3>1 DEF Arrive
    <2>3. QED
      BY <2>1, <2>2
  <1>11. NothingLost'
    <2>1. ASSUME NEW f \in Ends
          PROVE  /\ got'[Peer(f)] \subseteq 0..(sent[f] - 1)
                 /\ \A sn \in 0..(sent[f] - 1) : sn \in got'[Peer(f)] \/ \E x \in wire'[f] : x.sn = sn
                 /\ \A x \in wire'[f] : x.sn < sent[f] /\ x.at <= now /\ now <= x.at + Lag
      <3>1. CASE f = e
        BY <1>1, <1>2, <1>8, <1>9, <3>1 DEF NothingLost
      <3>2. CASE f = p
        <4>1. /\ got[e] \subseteq 0..(sent[p] - 1)
              /\ \A sn \in 0..(sent[p] - 1) : sn \in got[e] \/ \E x \in wire[p] : x.sn = sn
              /\ \A x \in wire[p] : x.sn < sent[p] /\ x.at <= now /\ now <= x.at + Lag
          BY <1>1, <1>2 DEF NothingLost
        <4>2. d.sn \in 0..(sent[p] - 1)
          BY <1>2, <1>5, <1>6
        <4>3. QED
          BY <1>2, <1>8, <1>9, <3>2, <4>1, <4>2
      <3>3. QED
        BY <1>2, <3>1, <3>2
    <2>2. QED
      BY <1>7, <2>1 DEF NothingLost
  <1>12. NotYet'
    BY <1>1, <1>2, <1>7, <1>9, <1>10 DEF NotYet, Ends
  <1>13. HeardLately'
    <2> DEFINE next(f) == Delivered(got'[Peer(f)])
    <2>1. SUFFICES ASSUME NEW f \in Ends
                   PROVE  /\ next(f) = sent[f] => timer'[f] <= last_activity'[Peer(f)] + Interval(f) + Lag
                          /\ \A x \in wire'[f] : x.sn = next(f) =>
                                x.at <= last_activity'[Peer(f)] + Interval(f) + Late + Lag
      BY <1>3, <1>7 DEF HeardLately
    <2>2. CASE made
      <3>1. timer'["server"] = now + Interval("server") /\ timer'["client"] = timer["client"]
            /\ last_activity'["server"] = now /\ last_activity'["client"] = last_activity["client"]
        BY <1>1, <1>2, <1>4, <2>2 DEF Arrive, CreateServer, Types, Ends
      <3>2. CASE f = "server"
        <4>1. wire'[f] = {} /\ Peer(f) = "client"
          BY <1>1, <1>4, <1>9, <2>2, <3>2, TwoEnds DEF NotYet
        <4>2. now <= Lag
          BY <1>1, <2>2
        <4>3. QED
          BY <1>1, <1>6, <3>1, <3>2, <4>1, <4>2 DEF Ends
      <3>3. CASE f = "client"
        <4>1. timer["client"] <= now + Interval("client") /\ Peer(f) = "server"
          BY <1>1, <3>3, TwoEnds DEF Clock, Ends
        <4>2. \A x \in wire'[f] : x.at <= now /\ x.at \in Nat
          BY <1>6, <1>11, <1>7, <1>9, <1>4, <2>2, <3>3 DEF NothingLost
        <4>3. QED
          BY <1>1, <1>6, <3>1, <3>3, <4>1, <4>2 DEF Ends
      <3>4. QED
        BY <3>2, <3>3 DEF Ends
    <2>3. CASE ~made
      <3>1. /\ timer' = timer /\ running["server"]
            /\ last_activity'[p] = last_activity[p]
            /\ last_activity'[e] = IF hears THEN now ELSE last_activity[e]
        BY <1>1, <1>2, <1>10, <2>3 DEF Arrive
      <3>2. CASE f = e
        BY <1>1, <1>2, <1>8, <1>9, <3>1, <3>2 DEF HeardLately
      <3>3. CASE f = p /\ hears
        <4>1. timer[p] <= now + Interval(p)
          BY <1>1, <1>2 DEF Clock
        <4>2. \A x \in wire'[p] : x.at <= now /\ x.at \in Nat
          BY <1>1, <1>2, <1>6, <1>9 DEF NothingLost
        <4>3. QED
          BY <1>1, <1>2, <1>6, <3>1, <3>3, <4>1, <4>2
      <3>4. CASE f = p /\ ~hears
        <4>1. next(p) = Delivered(got[e])
          BY <1>2, <1>5, <1>6, <1>8, <3>4, DeliveredGrows
        <4>2. QED
          BY <1>1, <1>2, <1>9, <3>1, <3>4, <4>1 DEF HeardLately
      <3>5. QED
        BY <1>2, <3>2, <3>3, <3>4
    <2>4. QED
      BY <2>2, <2>3
  <1>14. QED
    BY <1>10, <1>11, <1>12, <1>13

\* A tick sends a NOP and sets the timer again; the session lives on.
LEMMA HealthyTick ==
    ASSUME LifeAssumption, LifeInv, Healthy, NEW e \in Ends, KeepaliveTick(e)
    PROVE  running'["client"] /\ NothingLost' /\ NotYet' /\ HeardLately'
  <1> DEFINE p == Peer(e)
             nop == Segment(sent[e])
  <1>1. /\ Types /\ Clock /\ running["client"] /\ NothingLost /\ NotYet /\ HeardLately
        /\ Late \in Nat /\ Lag \in Nat
        /\ \A f \in Ends : Interval(f) \in Nat /\ TimerSet(f) = now + Interval(f)
    BY HealthyFacts
  <1>2. p \in Ends /\ Peer(p) = e /\ p # e /\ \A f \in Ends : f = e \/ f = p
    BY TwoEnds
  <1>3. \A f \in Ends : Interval(f)' = Interval(f)
    BY <1>1, Intervals DEF KeepaliveTick
  <1>4. /\ now \in Nat
        /\ \A f \in Ends : /\ got[f] \in SUBSET Nat /\ IsFiniteSet(got[f]) /\ sent[f] \in Nat
                           /\ timer[f] \in Nat /\ last_activity[f] \in Nat
                           /\ \A x \in wire[f] : x.sn \in Nat /\ x.at \in Nat
    BY <1>1 DEF Types, Segments
  <1>5. running[e]
    BY DEF KeepaliveTick
  <1>6. /\ UNCHANGED <<now, last_activity, got, running>>
        /\ timer'[e] = now + Interval(e) /\ timer'[p] = timer[p]
    <2>1. now - last_activity[e] <= Timeout
      BY <1>5, NobodyGivesUp
    <2>2. ~(now - last_activity[e] > Timeout)
      BY <1>4, <2>1 DEF LifeAssumption
    <2>3. QED
      BY <1>1, <1>2, <2>2 DEF KeepaliveTick, Types
  <1>7. /\ sent'[e] = sent[e] + 1 /\ sent'[p] = sent[p]
        /\ wire'[e] = wire[e] \cup {nop} /\ wire'[p] = wire[p]
        /\ nop.sn = sent[e] /\ nop.at = now
    BY <1>1, <1>2 DEF KeepaliveTick, SendFrame, Segment, Types
  <1>8. NothingLost'
    <2>1. ASSUME NEW f \in Ends
          PROVE  /\ got[Peer(f)] \subseteq 0..(sent'[f] - 1)
                 /\ \A sn \in 0..(sent'[f] - 1) : sn \in got[Peer(f)] \/ \E x \in wire'[f] : x.sn = sn
                 /\ \A x \in wire'[f] : x.sn < sent'[f] /\ x.at <= now /\ now <= x.at + Lag
      <3>1. /\ got[Peer(f)] \subseteq 0..(sent[f] - 1)
            /\ \A sn \in 0..(sent[f] - 1) : sn \in got[Peer(f)] \/ \E x \in wire[f] : x.sn = sn
            /\ \A x \in wire[f] : x.sn < sent[f] /\ x.at <= now /\ now <= x.at + Lag
        BY <1>1 DEF NothingLost
      <3>2. CASE f = e
        <4>1. got[Peer(f)] \subseteq 0..(sent'[f] - 1)
          BY <1>4, <1>7, <3>1, <3>2
        <4>2. ASSUME NEW sn \in 0..(sent'[f] - 1)
              PROVE  sn \in got[Peer(f)] \/ \E x \in wire'[f] : x.sn = sn
          <5>1. sn \in 0..(sent[f] - 1) \/ sn = sent[e]
            BY <1>4, <1>7, <3>2
          <5>2. QED
            BY <1>7, <3>1, <3>2, <5>1
        <4>3. ASSUME NEW x \in wire'[f] PROVE x.sn < sent'[f] /\ x.at <= now /\ now <= x.at + Lag
          <5>1. x \in wire[f] \/ x = nop
            BY <1>7, <3>2
          <5>2. QED
            BY <1>1, <1>4, <1>7, <3>1, <3>2, <5>1
        <4>4. QED
          BY <4>1, <4>2, <4>3
      <3>3. CASE f = p
        BY <1>7, <3>1, <3>3
      <3>4. QED
        BY <1>2, <3>2, <3>3
    <2>2. QED
      BY <1>6, <2>1 DEF NothingLost
  <1>9. NotYet'
    <2>1. /\ sent["client"] \in Nat \ {0} /\ sent'["client"] \in Nat \ {0}
          /\ \A x \in wire["client"] : x.sn = 0 => x.at = 0
      BY <1>1, <1>4, <1>7, <1>2 DEF NotYet, Ends
    <2>2. \A x \in wire'["client"] : x.sn = 0 => x.at = 0
      BY <1>2, <1>7, <2>1 DEF Ends
    <2>3. ~running'["server"] => e = "client" /\ p = "server"
      BY <1>5, <1>6, TwoEnds DEF Ends
    <2>4. QED
      BY <1>1, <1>6, <1>7, <2>1, <2>2, <2>3 DEF NotYet
  <1>10. HeardLately'
    <2> DEFINE next(f) == Delivered(got[Peer(f)])
    <2>1. SUFFICES ASSUME running["server"], NEW f \in Ends
                   PROVE  /\ next(f) = sent'[f] => timer'[f] <= last_activity[Peer(f)] + Interval(f) + Lag
                          /\ \A x \in wire'[f] : x.sn = next(f) =>
                                x.at <= last_activity[Peer(f)] + Interval(f) + Late + Lag
      BY <1>3, <1>6 DEF HeardLately
    <2>2. /\ next(f) = sent[f] => timer[f] <= last_activity[Peer(f)] + Interval(f) + Lag
          /\ \A x \in wire[f] : x.sn = next(f) =>
                x.at <= last_activity[Peer(f)] + Interval(f) + Late + Lag
      BY <1>1, <2>1 DEF HeardLately
    <2>3. CASE f = e
      <3>1. next(e) \in Nat /\ next(e) <= sent[e]
        BY <1>1, NextBounded
      <3>2. now <= timer[e] + Late
        BY <1>1, <1>5 DEF Clock
      <3>3. next(e) = sent[e] => now <= last_activity[p] + Interval(e) + Late + Lag
        BY <1>1, <1>2, <1>4, <2>2, <2>3, <3>2
      <3>4. QED
        BY <1>4, <1>7, <2>2, <2>3, <3>1, <3>3
    <2>4. CASE f = p
      BY <1>6, <1>7, <2>2, <2>4
    <2>5. QED
      BY <1>2, <2>3, <2>4
  <1>11. QED
    BY <1>1, <1>6, <1>8, <1>9, <1>10

\* Time passes.
LEMMA HealthyTime ==
    ASSUME LifeAssumption, LifeInv, Healthy, Tick
    PROVE  running'["client"] /\ NothingLost' /\ NotYet' /\ HeardLately'
  <1>1. /\ Types /\ Clock /\ running["client"] /\ NothingLost /\ NotYet /\ HeardLately
        /\ Late \in Nat /\ Lag \in Nat /\ linkUp
    BY HealthyFacts DEF Healthy
  <1>2. /\ now' = now + 1 /\ now \in Nat
        /\ UNCHANGED <<keepalive, running, last_activity, timer, sent, got>>
        /\ \A f \in Ends : InTime(f)
    BY <1>1 DEF Tick, Types
  <1>3. \A f \in Ends : Interval(f)' = Interval(f)
    BY <1>1, <1>2, Intervals
  <1>4. ASSUME NEW f \in Ends
        PROVE  /\ wire'[f] = wire[f]
               /\ \A d \in wire[f] : d.sn \in Nat /\ d.at \in Nat /\ now - d.at < Lag
    <2>1. wire[f] = {} \/ running[f]
      BY <1>1 DEF NotYet, Ends
    <2>2. wire'[f] = {d \in wire[f] : running[f] \/ now - d.at < Lag}
      BY DEF Tick
    <2>3. \A d \in wire[f] : d.sn \in Nat /\ d.at \in Nat
      BY <1>1 DEF Types, Segments
    <2>4. \A d \in wire[f] : now - d.at < Lag
      BY <1>1, <1>2, <2>1 DEF InTime
    <2>5. QED
      BY <2>1, <2>2, <2>3, <2>4
  <1>5. NothingLost'
    <2>1. ASSUME NEW f \in Ends, NEW d \in wire[f]
          PROVE  d.sn < sent[f] /\ d.at <= now + 1 /\ now + 1 <= d.at + Lag
      BY <1>1, <1>2, <1>4 DEF NothingLost
    <2>2. ASSUME NEW f \in Ends
          PROVE  /\ got[Peer(f)] \subseteq 0..(sent[f] - 1)
                 /\ \A sn \in 0..(sent[f] - 1) : sn \in got[Peer(f)] \/ \E d \in wire[f] : d.sn = sn
      BY <1>1 DEF NothingLost
    <2>3. QED
      BY <1>2, <1>4, <2>1, <2>2 DEF NothingLost
  <1>6. NotYet'
    BY <1>1, <1>2, <1>4 DEF NotYet, Ends
  <1>7. HeardLately'
    BY <1>1, <1>2, <1>3, <1>4 DEF HeardLately
  <1>8. QED
    BY <1>1, <1>2, <1>5, <1>6, <1>7

LEMMA HealthyKept ==
    ASSUME LifeAssumption, LifeInv, [Next]_vars
    PROVE  LifeInv'
  <1>1. Types /\ ClockInv /\ ClockInv'
    BY ClockKept DEF LifeInv, ClockInv
  <1>2. SUFFICES ASSUME Healthy' PROVE running'["client"] /\ NothingLost' /\ NotYet' /\ HeardLately'
    BY <1>1 DEF LifeInv, HealthyInv
  <1>3. keepalive' = keepalive
    BY DEF Next, Arrive, KeepaliveTick, Restart, LinkDown, Tick, vars
  <1>4. \A e \in Ends : Interval(e)' = Interval(e)
    BY <1>1, <1>3, Intervals
  <1>5. linkUp' = linkUp \/ linkUp' = FALSE
    BY DEF Next, Arrive, KeepaliveTick, Restart, LinkDown, Tick, vars, netVars
  <1>6. restarts' = restarts \/ restarts' = restarts + 1
    BY DEF Next, Arrive, KeepaliveTick, Restart, LinkDown, Tick, vars, historyVars
  <1>7. Healthy
    <2>1. linkUp
      BY <1>2, <1>5 DEF Healthy
    <2>2. restarts = 0
      BY <1>1, <1>2, <1>6 DEF Healthy, Types
    <2>3. \A e \in Ends : Interval(e) + Late + 2 * Lag <= Timeout
      BY <1>2, <1>4 DEF Healthy
    <2>4. QED
      BY <2>1, <2>2, <2>3 DEF Healthy
  <1>8. ASSUME NEW e \in Ends, NEW acknowledged \in BOOLEAN, NEW d \in wire[Peer(e)],
               Arrive(e, d, acknowledged)
        PROVE  running'["client"] /\ NothingLost' /\ NotYet' /\ HeardLately'
    BY <1>7, <1>8, HealthyArrive
  <1>9. ASSUME NEW e \in Ends, KeepaliveTick(e)
        PROVE  running'["client"] /\ NothingLost' /\ NotYet' /\ HeardLately'
    BY <1>7, <1>9, HealthyTick
  <1>10. CASE Restart
    BY <1>1, <1>2, <1>10 DEF Restart, Healthy, Types
  <1>11. CASE LinkDown
    BY <1>2, <1>11 DEF LinkDown, Healthy
  <1>12. CASE Tick
    BY <1>7, <1>12, HealthyTime
  <1>13. CASE UNCHANGED vars
    <2>1. running["client"] /\ NothingLost /\ NotYet /\ HeardLately
      BY <1>7, HealthyFacts
    <2>2. UNCHANGED <<now, running, last_activity, timer, sent, got, wire>>
      BY <1>13 DEF vars, netVars
    <2>3. QED
      BY <1>4, <2>1, <2>2 DEF NothingLost, NotYet, HeardLately
  <1>14. QED
    BY <1>8, <1>9, <1>10, <1>11, <1>12, <1>13 DEF Next

(* While path and server are there, nothing that is sent is lost or late    *)
(* and each end hears the other's NOPs in time.                             *)
THEOREM LifeInvariant ==
    ASSUME LifeAssumption
    PROVE  Spec => []LifeInv
  <1>1. Init => LifeInv
    <2>1. SUFFICES ASSUME Init PROVE LifeInv
      OBVIOUS
    <2>2. ClockInv /\ Lag \in Nat
      BY <2>1, LifeInit DEF LifeAssumption
    <2>3. running["client"] /\ ~running["server"]
      BY <2>1 DEF Init, Ends
    <2>4. /\ sent["client"] = 1 /\ sent["server"] = 0 /\ now = 0
          /\ got["client"] = {} /\ got["server"] = {}
          /\ wire["client"] = {Segment(0)} /\ wire["server"] = {}
          /\ Segment(0).sn = 0 /\ Segment(0).at = 0
      BY <2>1 DEF Init, Ends, Segment
    <2>5. NothingLost
      <3>1. ASSUME NEW e \in Ends
            PROVE  /\ got[Peer(e)] \subseteq 0..(sent[e] - 1)
                   /\ \A sn \in 0..(sent[e] - 1) : sn \in got[Peer(e)] \/ \E d \in wire[e] : d.sn = sn
                   /\ \A d \in wire[e] : d.sn < sent[e] /\ d.at <= now /\ now <= d.at + Lag
        <4>1. CASE e = "client"
          BY <2>2, <2>4, <4>1, TwoEnds
        <4>2. CASE e = "server"
          BY <2>2, <2>4, <4>2, TwoEnds
        <4>3. QED
          BY <4>1, <4>2 DEF Ends
      <3>2. QED
        BY <3>1 DEF NothingLost
    <2>6. NotYet
      BY <2>4 DEF NotYet
    <2>7. QED
      BY <2>2, <2>3, <2>5, <2>6 DEF HeardLately, HealthyInv, LifeInv
  <1>2. LifeInv /\ [Next]_vars => LifeInv'
    BY HealthyKept
  <1>3. QED
    BY <1>1, <1>2, PTL DEF Spec

(* keepalive_tick closes no session while path and server are there and     *)
(* the two intervals leave room within smux_timeout.                        *)
THEOREM LifeHealthy ==
    ASSUME LifeAssumption
    PROVE  Spec => []HealthyStaysOpen
  <1>1. LifeInv => HealthyStaysOpen
    BY HealthyFacts DEF HealthyStaysOpen, Healthy
  <1>2. QED
    BY <1>1, LifeInvariant, PTL

-----------------------------------------------------------------------------
(* An orphaned client.                                                      *)

\* A product that stays below a bound, and the quotient of the bound.
LEMMA QuotientBound ==
    ASSUME NEW n \in Nat, NEW i \in Nat \ {0}, NEW t \in Nat
    PROVE  /\ t \div i \in Nat
           /\ (n + 1) * i = n * i + i /\ n * i \in Nat
           /\ n * i <= t => n <= t \div i
  <1> DEFINE q == t \div i
  <1>1. q \in Nat /\ t = i * q + (t % i) /\ t % i \in 0..(i - 1)
    OBVIOUS
  <1> HIDE DEF q
  <1>2. t < i * q + i /\ n * i \in Nat
    BY <1>1
  <1>3. ASSUME n > q, n * i <= t PROVE FALSE
    <2>1. n - q - 1 \in Nat /\ n = q + 1 + (n - q - 1)
      BY <1>1, <1>3
    <2>2. PICK m \in Nat : n = q + 1 + m
      BY <2>1
    <2>3. n * i = q * i + i + m * i
      BY <1>1, <2>2
    <2>4. m * i \in Nat /\ q * i \in Nat /\ i * q = q * i
      BY <1>1
    <2>5. QED
      BY <1>2, <1>3, <2>3, <2>4
  <1>4. (n + 1) * i = n * i + i
    OBVIOUS
  <1>5. n * i <= t => n <= q
    BY <1>1, <1>3
  <1>6. QED
    BY <1>1, <1>2, <1>4, <1>5 DEF q

\* The numbers of the segments on their way are no more than the segments.
LEMMA NumbersFinite ==
    ASSUME NEW W \in SUBSET Segments, IsFiniteSet(W)
    PROVE  LET numbers == {d.sn : d \in W}
           IN  /\ IsFiniteSet(numbers) /\ numbers \in SUBSET Nat
               /\ Cardinality(numbers) <= Cardinality(W)
  <1> DEFINE numbers == {d.sn : d \in W}
             f == [d \in W |-> d.sn]
  <1>1. f \in Surjection(W, numbers)
    BY DEF Surjection
  <1>2. numbers \in SUBSET Nat
    BY DEF Segments
  <1>3. QED
    BY <1>1, <1>2, FS_Surjection

LEMMA UnheardFinite ==
    ASSUME LifeAssumption, Types
    PROVE  /\ Nops \in Nat /\ IsFiniteSet(Unheard) /\ Cardinality(Unheard) \in Nat
           /\ Unheard \in SUBSET Nat
  <1>1. Nops \in Nat
    BY Intervals, QuotientBound DEF Nops, LifeAssumption, Ends
  <1> DEFINE numbers == {d.sn : d \in wire["server"]}
  <1>2. IsFiniteSet(numbers) /\ numbers \in SUBSET Nat
    BY NumbersFinite DEF Types, Ends
  <1>3. IsFiniteSet(0..Nops)
    BY <1>1, FS_Interval
  <1>4. IsFiniteSet(numbers \cup 0..Nops)
    BY <1>2, <1>3, FS_Union
  <1>5. Unheard \in SUBSET (numbers \cup 0..Nops)
    BY DEF Unheard
  <1>6. IsFiniteSet(Unheard)
    BY <1>4, <1>5, FS_Subset
  <1>7. QED
    BY <1>1, <1>2, <1>5, <1>6, FS_CardinalityType

\* What the client may still hear of the first session when the server loses it.
LEMMA UnheardAtLoss ==
    ASSUME LifeAssumption, Types, Spent, running["server"], keepalive' = keepalive, got' = got,
           wire'["server"] \subseteq wire["server"] \cup {Segment(sent["server"])}
    PROVE  Cardinality(Unheard') <= Cardinality(wire["server"]) + Nops + 1
  <1> DEFINE n == sent["server"]
             numbers == {d.sn : d \in wire["server"]}
             more == IF n <= Nops THEN n..Nops ELSE n..n
  <1>1. Nops' = Nops /\ Nops \in Nat /\ n \in Nat
    BY Intervals, UnheardFinite DEF Nops, Types, Ends
  <1>2. /\ IsFiniteSet(numbers) /\ IsFiniteSet(wire["server"])
        /\ Cardinality(numbers) <= Cardinality(wire["server"])
    BY NumbersFinite DEF Types, Ends
  <1>3. IsFiniteSet(more) /\ Cardinality(more) <= Nops + 1
    <2>1. /\ IsFiniteSet(n..Nops) /\ Cardinality(n..Nops) = IF n > Nops THEN 0 ELSE Nops - n + 1
          /\ IsFiniteSet(n..n) /\ Cardinality(n..n) = IF n > n THEN 0 ELSE n - n + 1
      <3>1. n \in Int /\ Nops \in Int
        BY <1>1
      <3> HIDE DEF n
      <3>2. QED
        BY <3>1, FS_Interval
    <2> HIDE DEF n
    <2>2. QED
      BY <1>1, <2>1
  <1>4. Unheard' \in SUBSET (numbers \cup more)
    <2>1. SUFFICES ASSUME NEW x \in Unheard' PROVE x \in numbers \cup more
      OBVIOUS
    <2>2. x \notin got["client"] /\ (x \in 0..Nops \/ \E d \in wire'["server"] : x = d.sn)
      BY <1>1, <2>1 DEF Unheard
    <2>3. CASE x \in 0..Nops
      <3>1. CASE x < n
        <4>1. x \in 0..(n - 1)
          BY <1>1, <2>3, <3>1
        <4>2. QED
          BY <2>2, <4>1 DEF Spent
      <3>2. CASE n <= x
        BY <1>1, <2>3, <3>2
      <3>3. QED
        BY <1>1, <2>3, <3>1, <3>2
    <2>4. CASE \E d \in wire'["server"] : x = d.sn
      <3>1. Segment(n).sn = n
        BY DEF Segment
      <3>2. x \in numbers \/ x = n
        BY <2>4, <3>1
      <3>3. n \in more
        BY <1>1
      <3>4. QED
        BY <3>2, <3>3
    <2>5. QED
      BY <2>2, <2>3, <2>4
  <1>5. /\ IsFiniteSet(numbers \cup more)
        /\ Cardinality(numbers \cup more) = Cardinality(numbers) + Cardinality(more) - Cardinality(numbers \cap more)
    BY <1>2, <1>3, FS_Union
  <1>6. IsFiniteSet(numbers \cap more)
    BY <1>2, FS_Subset
  <1>7. /\ Cardinality(numbers) \in Nat /\ Cardinality(more) \in Nat
        /\ Cardinality(numbers \cap more) \in Nat /\ Cardinality(wire["server"]) \in Nat
        /\ Cardinality(numbers \cup more) \in Nat
    BY <1>2, <1>3, <1>5, <1>6, FS_CardinalityType
  <1>8. Cardinality(Unheard') <= Cardinality(numbers \cup more) /\ Cardinality(Unheard') \in Nat
    BY <1>4, <1>5, FS_Subset, FS_CardinalityType
  <1> HIDE DEF numbers, more, n
  <1>9. QED
    BY <1>1, <1>2, <1>3, <1>5, <1>7, <1>8

\* Nothing is added to what the client may hear.
LEMMA UnheardShrinks ==
    ASSUME LifeAssumption, Types, Unheard' \subseteq Unheard
    PROVE  Cardinality(Unheard') <= Cardinality(Unheard)
  BY UnheardFinite, FS_Subset

LEMMA OrphanArrive ==
    ASSUME LifeAssumption, OrphanInv, NEW e \in Ends, NEW acknowledged \in BOOLEAN,
           NEW d \in wire[Peer(e)], Arrive(e, d, acknowledged)
    PROVE  Deaf' /\ Spent'
  <1> DEFINE p == Peer(e)
             made == ~running["server"] /\ (e = "server" \/ acknowledged)
             I == Interval("server")
  <1>1. /\ Types /\ Clock /\ Deaf /\ Spent /\ Timeout \in Nat
        /\ I \in Nat \ {0} /\ I' = I /\ TimerSet("server") = now + I /\ Nops' = Nops
    BY Intervals DEF OrphanInv, ClockInv, LifeAssumption, Arrive, Ends, Nops
  <1>2. p \in Ends /\ Peer(p) = e /\ p # e
    BY TwoEnds
  <1>3. d \in wire[p] /\ d.sn \in Nat
    BY <1>1, <1>2 DEF Types, Segments
  <1>4. (e = "client" /\ p = "server") \/ (e = "server" /\ p = "client")
    BY TwoEnds DEF Ends
  <1>5. now \in Nat /\ now' = now /\ orphaned' = orphaned /\ strays' = strays
    BY <1>1 DEF Arrive, Types
  <1>6. /\ \A f \in Ends : wire'[f] \subseteq wire[f] /\ \A x \in wire[f] : x \in wire'[f] \/ (x = d /\ f = p)
        /\ \A f \in Ends : got[f] \in SUBSET Nat /\ IsFiniteSet(got[f])
    BY <1>1, <1>2 DEF Arrive, Types
  <1>7. got'["client"] = got["client"] \cup (IF e = "client" THEN {d.sn} ELSE {})
    BY <1>1 DEF Arrive, Types, Ends
  <1>8. \/ /\ made
           /\ got'["server"] = IF e = "server" THEN {d.sn} ELSE {}
           /\ running'["server"] /\ sent'["server"] = 0 /\ timer'["server"] = now + I
           /\ last_activity'["server"] = now
        \/ /\ ~made
           /\ got'["server"] = got["server"] \cup (IF e = "server" THEN {d.sn} ELSE {})
           /\ UNCHANGED <<running, sent, timer>>
           /\ last_activity'["server"] = IF e = "server" /\ Hears(got["server"], d.sn)
                                         THEN now ELSE last_activity["server"]
    BY <1>1 DEF Arrive, CreateServer, Types, Ends
  <1>9. sent'["client"] = sent["client"]
    BY <1>1 DEF Arrive, CreateServer, Types, Ends
  <1>10. Deaf'
    <2>1. ASSUME orphaned PROVE \A x \in wire'["client"] : x.sn # 0
      BY <1>1, <1>6, <2>1 DEF Deaf, Ends
    <2>2. ASSUME orphaned, running'["server"]
          PROVE  /\ 0 \notin got'["server"]
                 /\ last_activity'["server"] + (sent'["server"] + 1) * I <= timer'["server"]
                 /\ sent'["server"] * I <= Timeout
      <3>1. e = "server" => d.sn # 0
        BY <1>1, <1>3, <1>4, <2>2 DEF Deaf
      <3>2. CASE made
        <4>1. 0 * I = 0 /\ (0 + 1) * I = I
          BY <1>1
        <4>2. QED
          BY <1>1, <1>5, <1>8, <3>1, <3>2, <4>1
      <3>3. CASE ~made
        <4>1. /\ running["server"] /\ 0 \notin got["server"]
              /\ last_activity["server"] + (sent["server"] + 1) * I <= timer["server"]
              /\ sent["server"] * I <= Timeout
          BY <1>1, <1>8, <2>2, <3>3 DEF Deaf
        <4>2. e = "server" => ~Hears(got["server"], d.sn)
          <5>1. got["server"] \in SUBSET Nat /\ IsFiniteSet(got["server"])
            BY <1>6 DEF Ends
          <5>2. Delivered(got["server"]) = 0
            BY <4>1, <5>1, DeliveredFirst
          <5>3. QED
            BY <1>3, <3>1, <5>1, <5>2, DeliveredGrows
        <4>3. UNCHANGED <<running, sent, timer>> /\ last_activity'["server"] = last_activity["server"]
          BY <1>8, <3>3, <4>2
        <4>4. QED
          BY <1>8, <3>1, <3>3, <4>1, <4>3
      <3>4. QED
        BY <3>2, <3>3
    <2>3. QED
      BY <1>1, <1>5, <1>9, <2>1, <2>2 DEF Deaf
  <1>11. Spent'
    <2>1. ASSUME running'["server"], NEW sn \in 0..(sent'["server"] - 1)
          PROVE  sn \in got'["client"] \/ \E x \in wire'["server"] : x.sn = sn
      <3>1. ~made /\ running["server"] /\ sent' = sent
        BY <1>8, <2>1
      <3>2. sn \in got["client"] \/ \E x \in wire["server"] : x.sn = sn
        BY <1>1, <2>1, <3>1 DEF Spent
      <3>3. CASE sn \in got["client"]
        BY <1>7, <3>3
      <3>4. ASSUME NEW x \in wire["server"], x.sn = sn
            PROVE  sn \in got'["client"] \/ \E y \in wire'["server"] : y.sn = sn
        <4>1. x \in wire'["server"] \/ (x = d /\ p = "server")
          BY <1>6 DEF Ends
        <4>2. QED
          BY <1>4, <1>7, <3>4, <4>1
      <3>5. QED
        BY <3>2, <3>3, <3>4
    <2>2. revivals' = IF e = "client" /\ orphaned /\ Hears(got["client"], d.sn) THEN revivals + 1 ELSE revivals
      BY DEF Arrive
    <2>3. ~orphaned => revivals' = 0
      BY <1>1, <2>2 DEF Spent
    <2>4. ASSUME orphaned PROVE Cardinality(Unheard') + revivals' <= strays + Nops + 1
      <3>1. Cardinality(Unheard) + revivals <= strays + Nops + 1
        BY <1>1, <2>4 DEF Spent
      <3>2. Unheard' \subseteq Unheard
        BY <1>1, <1>6, <1>7 DEF Unheard, Ends
      <3>3. /\ revivals \in Nat /\ strays \in Nat /\ Nops \in Nat
            /\ Cardinality(Unheard) \in Nat /\ Cardinality(Unheard') \in Nat
        BY <1>1, <3>2, UnheardFinite, FS_Subset, FS_CardinalityType DEF Types
      <3>4. CASE e = "client" /\ Hears(got["client"], d.sn)
        <4>1. d.sn \in Unheard
          <5>1. d.sn = Delivered(got["client"]) /\ d.sn \notin got["client"]
            <6>1. got["client"] \in SUBSET Nat /\ IsFiniteSet(got["client"])
              BY <1>6 DEF Ends
            <6>2. QED
              BY <1>3, <3>4, <6>1, DeliveredGrows, DeliveredFirst, ZenonT(40)
          <5>2. QED
            BY <1>3, <1>4, <3>4, <5>1 DEF Unheard
        <4>2. Unheard' \subseteq Unheard \ {d.sn}
          BY <1>7, <3>2, <3>4 DEF Unheard
        <4>3. /\ IsFiniteSet(Unheard \ {d.sn})
              /\ Cardinality(Unheard \ {d.sn}) = Cardinality(Unheard) - 1
          BY <1>1, <4>1, UnheardFinite, FS_RemoveElement
        <4>4. Cardinality(Unheard') <= Cardinality(Unheard) - 1
          BY <4>2, <4>3, FS_Subset
        <4>5. QED
          BY <2>2, <2>4, <3>1, <3>3, <3>4, <4>4
      <3>5. CASE ~(e = "client" /\ Hears(got["client"], d.sn))
        <4>1. Cardinality(Unheard') <= Cardinality(Unheard)
          BY <1>1, <3>2, UnheardShrinks
        <4>2. QED
          BY <2>2, <3>1, <3>3, <3>5, <4>1
      <3>6. QED
        BY <3>4, <3>5
    <2>5. QED
      BY <1>1, <1>5, <2>1, <2>3, <2>4 DEF Spent
  <1>12. QED
    BY <1>10, <1>11

\* The client's NOPs are numbered on; the server's repeat what the client knows.
LEMMA OrphanTick ==
    ASSUME LifeAssumption, OrphanInv, NEW e \in Ends, KeepaliveTick(e)
    PROVE  Deaf' /\ Spent'
  <1> DEFINE I == Interval("server")
             n == sent["server"]
  <1>1. /\ Types /\ Clock /\ Deaf /\ Spent /\ Timeout \in Nat
        /\ I \in Nat \ {0} /\ I' = I /\ TimerSet("server") = now + I /\ Nops' = Nops
    BY Intervals DEF OrphanInv, ClockInv, LifeAssumption, KeepaliveTick, Ends, Nops
  <1>2. /\ now \in Nat /\ n \in Nat /\ sent["client"] \in Nat /\ timer["server"] \in Nat
        /\ last_activity["server"] \in Nat /\ revivals \in Nat /\ strays \in Nat
        /\ Nops \in Nat /\ Cardinality(Unheard) \in Nat /\ IsFiniteSet(Unheard)
    BY <1>1, UnheardFinite DEF Types, Ends
  <1>3. UNCHANGED <<last_activity, got, revivals>> /\ running[e] /\ timer[e] <= now
    BY DEF KeepaliveTick
  <1>4. /\ sent'[e] = sent[e] + 1 /\ wire'[e] = wire[e] \cup {Segment(sent[e])}
        /\ \A f \in Ends : f # e => sent'[f] = sent[f] /\ wire'[f] = wire[f]
        /\ Segment(sent[e]).sn = sent[e]
    BY <1>1 DEF KeepaliveTick, SendFrame, Segment, Types
  <1>5. \A f \in Ends : f # e => running'[f] = running[f] /\ timer'[f] = timer[f]
    BY <1>1 DEF KeepaliveTick, Types
  <1>6. \/ running'[e] = FALSE /\ Loses(e)
        \/ /\ now - last_activity[e] <= Timeout /\ UNCHANGED <<orphaned, strays>>
           /\ timer'[e] = TimerSet(e)
    BY <1>1 DEF KeepaliveTick, Types
  <1>7. CASE e = "client"
    <2>1. UNCHANGED <<orphaned, strays>>
      BY <1>6, <1>7 DEF Loses
    <2>2. /\ running'["server"] = running["server"] /\ timer'["server"] = timer["server"]
          /\ sent'["server"] = n /\ wire'["server"] = wire["server"]
      BY <1>4, <1>5, <1>7 DEF Ends
    <2>3. Deaf'
      <3>1. sent["client"] > 0 /\ sent'["client"] > 0
        BY <1>1, <1>2, <1>4, <1>7 DEF Deaf
      <3>2. ASSUME orphaned PROVE \A d \in wire'["client"] : d.sn # 0
        <4>1. \A d \in wire["client"] : d.sn # 0
          BY <1>1, <3>2 DEF Deaf
        <4>2. QED
          BY <1>2, <1>4, <1>7, <3>1, <4>1
      <3>3. QED
        BY <1>1, <1>3, <2>1, <2>2, <3>1, <3>2 DEF Deaf
    <2>4. Unheard' = Unheard
      BY <1>1, <1>3, <2>2 DEF Unheard
    <2>5. Spent'
      BY <1>1, <1>3, <2>1, <2>2, <2>4 DEF Spent
    <2>6. QED
      BY <2>3, <2>5
  <1>8. CASE e = "server"
    <2>1. sent'["client"] = sent["client"] /\ wire'["client"] = wire["client"]
      BY <1>4, <1>8 DEF Ends
    <2>2. orphaned' = orphaned \/ (~orphaned /\ orphaned')
      BY <1>1, <1>6 DEF Loses, Types
    <2>3. orphaned' => \A d \in wire["client"] : d.sn # 0
      BY <1>1, <1>6, <1>8 DEF Loses, Deaf
    <2>4. ASSUME orphaned, running'["server"]
          PROVE  /\ 0 \notin got["server"]
                 /\ last_activity["server"] + (n + 1 + 1) * I <= timer'["server"]
                 /\ (n + 1) * I <= Timeout
      <3>1. /\ 0 \notin got["server"]
            /\ last_activity["server"] + (n + 1) * I <= timer["server"]
        BY <1>1, <1>3, <1>8, <2>4 DEF Deaf
      <3>2. /\ now - last_activity["server"] <= Timeout /\ timer'["server"] = now + I
            /\ timer["server"] <= now
        BY <1>1, <1>3, <1>6, <1>8, <2>4
      <3>3. (n + 1 + 1) * I = (n + 1) * I + I /\ (n + 1) * I \in Nat
        BY <1>1, <1>2, QuotientBound
      <3> HIDE DEF n, I
      <3>4. QED
        BY <1>1, <1>2, <3>1, <3>2, <3>3
    <2>5. Deaf'
      <3>1. running'["server"] /\ orphaned' => orphaned
        BY <1>1, <1>6, <1>8 DEF Loses
      <3>2. QED
        BY <1>1, <1>3, <1>4, <1>8, <2>1, <2>3, <2>4, <3>1 DEF Deaf
    <2>6. ASSUME NEW sn \in 0..(sent'["server"] - 1)
          PROVE  sn \in got["client"] \/ \E d \in wire'["server"] : d.sn = sn
      <3>1. sn \in 0..(n - 1) \/ sn = n
        BY <1>2, <1>4, <1>8
      <3>2. running["server"]
        BY <1>3, <1>8
      <3>3. CASE sn \in 0..(n - 1)
        BY <1>1, <1>4, <1>8, <3>2, <3>3 DEF Spent
      <3>4. CASE sn = n
        BY <1>4, <1>8, <3>4
      <3>5. QED
        BY <3>1, <3>3, <3>4
    <2>7. ~orphaned' => revivals' = 0
      BY <1>1, <1>3, <2>2 DEF Spent
    <2>8. ASSUME orphaned PROVE Cardinality(Unheard') + revivals' <= strays' + Nops + 1
      <3>1. strays' = strays
        BY <1>6, <2>8 DEF Loses
      <3>2. n <= Nops
        <4>1. n * I <= Timeout
          BY <1>1, <1>3, <1>8, <2>8 DEF Deaf
        <4> HIDE DEF n, I
        <4>2. n <= Timeout \div I
          BY <1>1, <1>2, <4>1, QuotientBound
        <4>3. QED
          BY <4>2 DEF Nops, I
      <3>3. Unheard' \subseteq Unheard
        BY <1>1, <1>2, <1>3, <1>4, <1>8, <3>2 DEF Unheard
      <3>4. Cardinality(Unheard') <= Cardinality(Unheard) /\ Cardinality(Unheard') \in Nat
        BY <1>1, <1>2, <3>3, FS_Subset, FS_CardinalityType
      <3>5. Cardinality(Unheard) + revivals <= strays + Nops + 1
        BY <1>1, <2>8 DEF Spent
      <3>6. QED
        BY <1>2, <1>3, <3>1, <3>4, <3>5
    <2>9. ASSUME ~orphaned, orphaned' PROVE Cardinality(Unheard') + revivals' <= strays' + Nops + 1
      <3>1. strays' = Cardinality(wire["server"])
        BY <1>6, <2>9 DEF Loses
      <3>2. Cardinality(Unheard') <= Cardinality(wire["server"]) + Nops + 1
        BY <1>1, <1>3, <1>4, <1>8, UnheardAtLoss DEF KeepaliveTick
      <3>3. revivals' = 0 /\ Cardinality(wire["server"]) \in Nat
        BY <1>1, <1>3, <2>9, FS_CardinalityType DEF Spent, Types, Ends
      <3>4. Unheard' \in SUBSET Nat /\ Cardinality(Unheard') \in Nat
        <4>1. Unheard' \subseteq Unheard \cup {n}
          BY <1>1, <1>3, <1>4, <1>8 DEF Unheard
        <4>2. IsFiniteSet(Unheard \cup {n})
          BY <1>2, FS_AddElement
        <4>3. QED
          BY <1>1, <1>2, <4>1, <4>2, FS_Subset, FS_CardinalityType, UnheardFinite
      <3>5. QED
        BY <1>2, <3>1, <3>2, <3>3, <3>4
    <2>10. Spent'
      BY <1>1, <1>3, <2>2, <2>6, <2>7, <2>8, <2>9 DEF Spent
    <2>11. QED
      BY <2>5, <2>10
  <1>9. QED
    BY <1>7, <1>8 DEF Ends

LEMMA OrphanRestart ==
    ASSUME LifeAssumption, OrphanInv, Restart
    PROVE  Deaf' /\ Spent'
  <1>1. /\ Types /\ Deaf /\ Spent /\ running["server"] /\ ~running'["server"]
        /\ Loses("server") /\ UNCHANGED <<keepalive, sent, got, wire, revivals>>
    BY DEF OrphanInv, ClockInv, Restart, netVars, Types, Ends
  <1>2. Nops' = Nops /\ Nops \in Nat
    BY <1>1, Intervals, UnheardFinite DEF Nops, Ends
  <1>3. orphaned' = orphaned \/ (~orphaned /\ orphaned' /\ strays' = Cardinality(wire["server"]))
    BY <1>1 DEF Loses
  <1>4. orphaned => strays' = strays
    BY <1>1 DEF Loses
  <1>5. orphaned' => \A d \in wire["client"] : d.sn # 0
    BY <1>1 DEF Loses, Deaf
  <1>6. Deaf'
    BY <1>1, <1>5 DEF Deaf
  <1>7. Unheard' = Unheard
    BY <1>1, <1>2 DEF Unheard
  <1>8. Cardinality(Unheard) <= Cardinality(wire["server"]) + Nops + 1
    BY <1>1, <1>7, UnheardAtLoss
  <1>9. ~orphaned' => revivals' = 0
    BY <1>1, <1>3 DEF Spent
  <1>10. orphaned' => Cardinality(Unheard') + revivals' <= strays' + Nops' + 1
    <2>1. CASE orphaned
      BY <1>1, <1>2, <1>4, <1>7, <2>1 DEF Spent
    <2>2. CASE ~orphaned
      <3>1. revivals = 0 /\ Cardinality(Unheard) \in Nat /\ Cardinality(wire["server"]) \in Nat
        BY <1>1, <2>2, UnheardFinite, FS_CardinalityType DEF Spent, Types, Ends
      <3>2. ASSUME orphaned' PROVE strays' = Cardinality(wire["server"])
        BY <1>3, <2>2, <3>2
      <3>3. Cardinality(Unheard') + revivals' = Cardinality(Unheard)
        BY <1>1, <1>7, <3>1
      <3>4. QED
        BY <1>2, <1>8, <3>1, <3>2, <3>3
    <2>3. QED
      BY <2>1, <2>2
  <1>11. Spent'
    BY <1>1, <1>9, <1>10 DEF Spent
  <1>12. QED
    BY <1>6, <1>11

LEMMA OrphanTime ==
    ASSUME LifeAssumption, OrphanInv,
           UNCHANGED <<keepalive, running, last_activity, timer, sent, got, orphaned, strays, revivals>>,
           \A e \in Ends : wire'[e] \subseteq wire[e] /\ (running[e] => wire'[e] = wire[e])
    PROVE  Deaf' /\ Spent'
  <1>1. /\ Types /\ Deaf /\ Spent /\ Interval("server")' = Interval("server") /\ Nops' = Nops
        /\ "server" \in Ends /\ "client" \in Ends
    BY Intervals DEF OrphanInv, ClockInv, Nops, Ends
  <1>2. Deaf'
    BY <1>1 DEF Deaf
  <1>3. Unheard' \subseteq Unheard
    BY <1>1 DEF Unheard
  <1>4. /\ Cardinality(Unheard') <= Cardinality(Unheard)
        /\ Cardinality(Unheard') \in Nat /\ Cardinality(Unheard) \in Nat
        /\ Nops \in Nat /\ strays \in Nat /\ revivals \in Nat
    BY <1>1, <1>3, UnheardFinite, FS_Subset, FS_CardinalityType DEF Types
  <1>5. orphaned => Cardinality(Unheard') + revivals <= strays + Nops + 1
    BY <1>1, <1>4 DEF Spent
  <1>6. Spent'
    BY <1>1, <1>5 DEF Spent
  <1>7. QED
    BY <1>2, <1>6

(* A server that has lost a session stays deaf to its client: each session  *)
(* handle_packet makes of the client's datagrams ends before it has sent    *)
(* more than a few NOPs.                                                    *)
THEOREM LifeOrphan ==
    ASSUME LifeAssumption
    PROVE  Spec => []OrphanInv
  <1>1. Init => OrphanInv
    <2>1. SUFFICES ASSUME Init PROVE OrphanInv
      OBVIOUS
    <2>2. ClockInv
      BY <2>1, LifeInit
    <2>3. sent["client"] = 1 /\ ~running["server"] /\ ~orphaned /\ revivals = 0
      BY <2>1 DEF Init, Ends
    <2>4. QED
      BY <2>2, <2>3 DEF OrphanInv, Deaf, Spent
  <1>2. OrphanInv /\ [Next]_vars => OrphanInv'
    <2>1. SUFFICES ASSUME OrphanInv, [Next]_vars PROVE Deaf' /\ Spent'
      BY ClockKept DEF OrphanInv
    <2>2. ASSUME NEW e \in Ends, NEW acknowledged \in BOOLEAN, NEW d \in wire[Peer(e)],
                 Arrive(e, d, acknowledged)
          PROVE  Deaf' /\ Spent'
      BY <2>1, <2>2, OrphanArrive
    <2>3. ASSUME NEW e \in Ends, KeepaliveTick(e) PROVE Deaf' /\ Spent'
      BY <2>1, <2>3, OrphanTick
    <2>4. CASE Restart
      BY <2>1, <2>4, OrphanRestart
    <2>5. CASE LinkDown
      BY <2>1, <2>5, OrphanTime DEF LinkDown, historyVars
    <2>6. CASE Tick
      BY <2>1, <2>6, OrphanTime DEF Tick, historyVars
    <2>7. CASE UNCHANGED vars
      BY <2>1, <2>7, OrphanTime DEF vars, netVars, historyVars
    <2>8. QED
      BY <2>1, <2>2, <2>3, <2>4, <2>5, <2>6, <2>7 DEF Next
  <1>3. QED
    BY <1>1, <1>2, PTL DEF Spec

(* A client whose server has lost the session hears no more than what was   *)
(* under way and the NOPs one such session has time for, however often      *)
(* handle_packet makes another.                                             *)
THEOREM LifeOrphanStarves ==
    ASSUME LifeAssumption
    PROVE  Spec => []OrphanStarves
  <1>1. OrphanInv => OrphanStarves
    <2>1. SUFFICES ASSUME OrphanInv PROVE revivals <= strays + Nops + 1
      BY DEF OrphanStarves, Nops
    <2>2. /\ Nops \in Nat /\ Cardinality(Unheard) \in Nat /\ strays \in Nat /\ revivals \in Nat
      BY <2>1, UnheardFinite DEF OrphanInv, ClockInv, Types
    <2>3. QED
      BY <2>1, <2>2 DEF OrphanInv, Spent
  <1>2. QED
    BY <1>1, LifeOrphan, PTL
=============================================================================
