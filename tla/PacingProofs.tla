---------------------------- MODULE PacingProofs ----------------------------
(***************************************************************************)
(* TLAPS proofs about the two places where bytes are made to wait.          *)
(* FlowControl: for every frame size, buffer size, initial window and       *)
(* counter width that FlowAssumption admits.  RateLimiter: for every set of *)
(* packet sizes, every rate and every resolution of the clock that          *)
(* RateAssumption admits.                                                   *)
(***************************************************************************)
EXTENDS FlowControl, RateLimiter, SequenceTheorems, TLAPS

-----------------------------------------------------------------------------
(* Arithmetic of wrapped counters.                                          *)

\* Division with remainder, the fact the other lemmas rest on.
LEMMA DivMod ==
    ASSUME NEW m \in Nat \ {0}, NEW x \in Int
    PROVE  /\ x \div m \in Int /\ x % m \in 0..(m - 1)
           /\ x = m * (x \div m) + (x % m)
  BY SMTT(20)

\* The remainder is determined by any decomposition.
LEMMA ModUnique ==
    ASSUME NEW m \in Nat \ {0}, NEW k \in Int, NEW r \in 0..(m - 1)
    PROVE  (m * k + r) % m = r
  BY SMTT(20)

\* A wrapped counter is below the modulus, and a small one has not wrapped.
LEMMA ModRange ==
    ASSUME NEW m \in Nat \ {0}, NEW x \in Int
    PROVE  x % m \in 0..(m - 1) /\ (x \in 0..(m - 1) => x % m = x)
  BY SMTT(20)

\* A counter that is advanced after it wrapped equals the wrapped total: the
\* += on num_written_, num_read_ (smux.cpp).
LEMMA WrapAdd ==
    ASSUME NEW m \in Nat \ {0}, NEW x \in Nat, NEW y \in Nat
    PROVE  ((x % m) + y) % m = (x + y) % m
  <1> DEFINE q == x \div m
             r == x % m
             p == (r + y) \div m
             t == (r + y) % m
  <1>1. q \in Int /\ r \in 0..(m - 1) /\ x = m * q + r
    BY DivMod
  <1>2. r + y \in Int
    BY <1>1
  <1>3. p \in Int /\ t \in 0..(m - 1) /\ r + y = m * p + t
    BY <1>2, DivMod
  <1> HIDE DEF q, r, p, t
  <1>4. x + y = m * (q + p) + t
    BY <1>1, <1>3, SMTT(20)
  <1>5. (m * (q + p) + t) % m = t
    <2>1. q + p \in Int
      BY <1>1, <1>3
    <2>2. QED
      BY <1>3, <2>1, ModUnique
  <1>6. QED
    BY <1>4, <1>5 DEF t, r

\* The difference of two wrapped counters is the difference of the totals as
\* long as that is below the modulus: inflight in available_peer_window.
LEMMA WrapSub ==
    ASSUME NEW m \in Nat \ {0}, NEW x \in Nat, NEW y \in Nat, y <= x, x - y < m
    PROVE  ((x % m) - (y % m)) % m = x - y
  <1> DEFINE q == x \div m
             r == x % m
             p == y \div m
             t == y % m
  <1>1. q \in Int /\ r \in 0..(m - 1) /\ x = m * q + r
    BY DivMod
  <1>2. p \in Int /\ t \in 0..(m - 1) /\ y = m * p + t
    BY DivMod
  <1> HIDE DEF q, r, p, t
  <1>3. r - t = m * (p - q) + (x - y)
    BY <1>1, <1>2, SMTT(20)
  <1>4. p - q \in Int /\ x - y \in 0..(m - 1)
    BY <1>1, <1>2
  <1>5. (r - t) % m = x - y
    BY <1>3, <1>4, ModUnique
  <1>6. QED
    BY <1>5 DEF r, t

-----------------------------------------------------------------------------
(* The constants.                                                           *)

\* Both windows are below half of the counter range, so the sign test on
\* inflight is never reached; an UPD is due at or below a full buffer.
LEMMA WindowFacts ==
    /\ MaxWindow \in Nat /\ InitWindow <= MaxWindow /\ StreamBuf <= MaxWindow
    /\ 2 * MaxWindow < Modulus
    /\ Threshold \in Nat /\ 1 <= Threshold /\ Threshold <= StreamBuf
  BY FlowAssumption DEF MaxWindow, Threshold

\* A wrapped counter is a uint32, and a small number is its own wrapping.
LEMMA Wrapped ==
    ASSUME NEW x \in Nat
    PROVE  x % Modulus \in UInt32 /\ (x < Modulus => x % Modulus = x)
  <1>1. Modulus \in Nat \ {0}
    BY FlowAssumption
  <1>2. QED
    BY <1>1, ModRange DEF UInt32

\* available_peer_window on wrapped counters is the window minus the bytes in
\* flight, provided those are within a window.
LEMMA AvailableIsExact ==
    ASSUME NEW w \in Nat, NEW c \in Nat, c <= w, w - c <= MaxWindow,
           NEW window \in Nat
    PROVE  AvailablePeerWindow(w % Modulus, c % Modulus, window) = window - (w - c)
  <1>1. w - c \in Nat /\ 2 * (w - c) < Modulus /\ w - c < Modulus
    BY WindowFacts, FlowAssumption
  <1>2. ((w % Modulus) - (c % Modulus)) % Modulus = w - c
    <2>1. Modulus \in Nat \ {0} /\ c <= w /\ w - c < Modulus
      BY <1>1, FlowAssumption
    <2>2. QED
      BY <2>1, WrapSub, Zenon
  <1>3. QED
    BY <1>1, <1>2, FlowAssumption DEF AvailablePeerWindow

\* What one call of try_flush_outbound does, in terms of positions.
LEMMA FlushFacts ==
    ASSUME sent \in Nat, num_written = sent % Modulus, ends \subseteq Nat,
           NEW queued \in Nat, NEW c \in Nat, c <= sent, sent - c <= MaxWindow,
           NEW window \in {InitWindow, StreamBuf},
           TryFlushOutbound(queued, c % Modulus, window)
    PROVE  /\ pending' \in Nat /\ sent' \in Nat /\ sent <= sent'
           /\ sent' + pending' = sent + queued
           /\ num_written' = sent' % Modulus
           /\ sent' - c <= MaxWindow
           /\ pending' > 0 => window <= sent' - c
           /\ ends' \subseteq Nat /\ ends \subseteq ends'
           /\ \A e \in ends' : e \in ends \/ (sent < e /\ e <= sent')
           /\ sent' > sent => sent' \in ends'
  <1> DEFINE avail == AvailablePeerWindow(num_written, c % Modulus, window)
             n == Allowed(queued, avail)
  <1>1. window \in Nat /\ window <= MaxWindow
    BY WindowFacts, FlowAssumption
  <1>2. avail = window - (sent - c)
    BY <1>1, AvailableIsExact
  <1>3. /\ n \in Nat /\ n <= queued
        /\ n > 0 => n <= window - (sent - c)
        /\ n < queued => window - (sent - c) <= n
    BY <1>1, <1>2 DEF Allowed
  <1>4. /\ pending' = queued - n /\ sent' = sent + n
        /\ num_written' = (num_written + n) % Modulus
    BY DEF TryFlushOutbound
  <1>5. PICK cuts \in SUBSET ((sent + 1)..(sent + n)) :
              /\ n > 0 => sent + n \in cuts
              /\ ends' = ends \cup cuts
    BY DEF TryFlushOutbound
  <1> HIDE DEF n
  <1>6. num_written' = sent' % Modulus
    BY <1>3, <1>4, WrapAdd, FlowAssumption
  <1>7. sent' - c <= MaxWindow /\ (pending' > 0 => window <= sent' - c)
    BY <1>1, <1>3, <1>4, WindowFacts
  <1>8. QED
    BY <1>3, <1>4, <1>5, <1>6, <1>7

-----------------------------------------------------------------------------
(* The inductive invariant.                                                 *)

\* How the positions are ordered, for use below.
LEMMA IndInvOrder ==
    ASSUME IndInv
    PROVE  /\ sent \in Nat /\ arrived \in Nat /\ consumed \in Nat /\ acked \in Nat /\ incr \in Nat
           /\ acked + incr <= consumed /\ consumed <= arrived /\ arrived <= sent
           /\ sent - acked <= MaxWindow
  BY WindowFacts, FlowAssumption DEF IndInv, TypeOK, UInt32, Positions, UpdatesInOrder, CreditKept

\* A fresh stream satisfies the invariant.
LEMMA InitIndInv == Init => IndInv
  <1> SUFFICES ASSUME Init PROVE IndInv
    OBVIOUS
  <1>1. 0 % Modulus = 0
    BY FlowAssumption, SMTT(20)
  <1>2. TypeOK
    BY FlowAssumption DEF Init, TypeOK, UInt32
  <1>3. QED
    BY <1>1, <1>2, WindowFacts, FlowAssumption
       DEF Init, IndInv, CountersWrap, Positions, UpdatesInOrder, WindowInForce, CreditKept

\* A read completes on the sending side.
LEMMA ProduceIndInv ==
    ASSUME IndInv, NEW n \in 1..ReadBuf, Produce(n)
    PROVE  IndInv'
  <1> USE DEF IndInv, TypeOK
  <1>1. /\ UNCHANGED <<open, acked, peer_consumed, peer_window, upds>>
        /\ UNCHANGED <<arrived, consumed, num_read, incr>>
        /\ open
        /\ TryFlushOutbound(pending + n, peer_consumed, peer_window)
    BY DEF Produce, receiverVars
  <1>2. pending + n \in Nat /\ acked <= sent /\ peer_consumed = acked % Modulus
    BY IndInvOrder, FlowAssumption DEF CountersWrap
  <1>3. /\ pending' \in Nat /\ sent' \in Nat /\ sent <= sent'
        /\ num_written' = sent' % Modulus
        /\ sent' - acked <= MaxWindow
        /\ pending' > 0 => peer_window <= sent' - acked
        /\ ends' \subseteq Nat /\ ends \subseteq ends'
        /\ \A e \in ends' : e \in ends \/ (sent < e /\ e <= sent')
        /\ sent' > sent => sent' \in ends'
    BY <1>1, <1>2, FlushFacts DEF CountersWrap, CreditKept
  <1>4. num_written' \in UInt32
    BY <1>3, Wrapped
  <1>5. TypeOK'
    BY <1>1, <1>3, <1>4
  <1>6. CountersWrap' /\ UpdatesInOrder' /\ WindowInForce'
    BY <1>1, <1>3 DEF CountersWrap, UpdatesInOrder, WindowInForce
  <1>7. Positions'
    BY <1>1, <1>3 DEF Positions
  <1>8. CreditKept'
    BY <1>1, <1>3 DEF CreditKept
  <1>9. QED
    BY <1>5, <1>6, <1>7, <1>8

\* The receiving session takes a frame.
LEMMA ArriveIndInv ==
    ASSUME IndInv, Arrive
    PROVE  IndInv'
  <1>1. /\ UNCHANGED senderVars /\ UNCHANGED <<consumed, num_read, incr, upds>>
        /\ \E e \in ends : e > arrived /\ arrived' = e
    BY DEF Arrive
  <1>2. QED
    BY <1>1 DEF senderVars, IndInv, TypeOK, CountersWrap, Positions, UpdatesInOrder,
                WindowInForce, CreditKept

\* A payload is written to the application and counted.
LEMMA ConsumeIndInv ==
    ASSUME IndInv, Consume
    PROVE  IndInv'
  <1> USE DEF IndInv, TypeOK
  <1> DEFINE bytes(e) == e - consumed
             read(e) == (num_read + bytes(e)) % Modulus
             unacked(e) == (incr + bytes(e)) % Modulus
             due(e) == unacked(e) >= Threshold \/ read(e) = bytes(e)
  <1>1. PICK e \in ends :
           /\ e > consumed /\ e <= arrived
           /\ consumed' = e
           /\ num_read' = read(e)
           /\ incr' = IF due(e) THEN 0 ELSE unacked(e)
           /\ upds' = IF due(e) THEN upds \cup {e} ELSE upds
    BY DEF Consume, UpdateDue, ReadCounter
  <1>2. UNCHANGED senderVars /\ UNCHANGED arrived
    BY DEF Consume
  <1>3. /\ e \in Nat /\ bytes(e) \in Nat /\ bytes(e) >= 1
        /\ acked <= consumed - incr /\ incr \in Nat /\ consumed - incr \in Nat
    BY <1>1, IndInvOrder
  <1>4. read(e) = e % Modulus /\ read(e) \in UInt32
    <2>1. num_read = consumed % Modulus
      BY DEF CountersWrap
    <2>2. ((consumed % Modulus) + bytes(e)) % Modulus = (consumed + bytes(e)) % Modulus
      BY <1>3, WrapAdd, FlowAssumption
    <2>3. consumed + bytes(e) = e
      BY <1>3
    <2>4. QED
      BY <2>1, <2>2, <2>3, <1>3, Wrapped
  <1>5. unacked(e) = incr + bytes(e)
    <2>1. incr + bytes(e) \in Nat /\ incr + bytes(e) < Modulus
      BY <1>1, <1>3, IndInvOrder, WindowFacts, FlowAssumption
    <2> HIDE DEF bytes
    <2>2. (incr + bytes(e)) % Modulus = incr + bytes(e)
      BY <2>1, Wrapped
    <2>3. QED
      BY <2>2
  <1>6. consumed = 0 => due(e)
    <2>1. ASSUME consumed = 0 PROVE read(e) = bytes(e)
      <3>1. num_read = 0
        BY <2>1, FlowAssumption, SMTT(20) DEF CountersWrap
      <3>2. bytes(e) \in Nat /\ bytes(e) < Modulus
        BY <1>1, <1>3, IndInvOrder, WindowFacts, FlowAssumption
      <3> HIDE DEF bytes
      <3>3. bytes(e) % Modulus = bytes(e)
        BY <3>2, Wrapped
      <3>4. num_read + bytes(e) = bytes(e)
        BY <3>1, <3>2
      <3>5. QED
        BY <3>3, <3>4
    <2>2. QED
      BY <2>1
  <1> HIDE DEF bytes, read, unacked, due
  <1>7. unacked(e) \in UInt32
    BY <1>1, <1>3, <1>5, IndInvOrder, WindowFacts, FlowAssumption DEF UInt32, bytes
  <1>8. TypeOK'
    BY <1>1, <1>2, <1>3, <1>4, <1>7, FlowAssumption DEF senderVars, UInt32
  <1>9. CountersWrap' /\ CreditKept'
    BY <1>1, <1>2, <1>4 DEF senderVars, CountersWrap, CreditKept
  <1>10. Positions'
    BY <1>1, <1>2, <1>3 DEF senderVars, Positions
  <1>11. UpdatesInOrder'
    <2>1. CASE due(e)
      BY <2>1, <1>1, <1>2, <1>3, WindowFacts DEF senderVars, UpdatesInOrder, bytes
    <2>2. CASE ~due(e)
      <3>1. consumed' - incr' = consumed - incr /\ incr' < Threshold /\ incr' \in Nat
        BY <2>2, <1>1, <1>3, <1>5, <1>7, WindowFacts DEF due, bytes
      <3>2. QED
        BY <3>1, <2>2, <1>1, <1>2, <1>3 DEF senderVars, UpdatesInOrder
    <2>3. QED
      BY <2>1, <2>2
  <1>12. WindowInForce'
    <2>1. CASE due(e)
      BY <2>1, <1>1, <1>2, <1>3 DEF senderVars, WindowInForce
    <2>2. CASE ~due(e)
      BY <2>2, <1>1, <1>2, <1>3, <1>5, <1>6 DEF senderVars, WindowInForce, bytes
    <2>3. QED
      BY <2>1, <2>2
  <1>13. QED
    BY <1>8, <1>9, <1>10, <1>11, <1>12

\* An UPD reaches the sending session.
LEMMA OnUpdateIndInv ==
    ASSUME IndInv, OnUpdate
    PROVE  IndInv'
  <1> USE DEF IndInv, TypeOK
  <1>1. PICK u \in upds :
           /\ \A v \in upds : u <= v
           /\ upds' = upds \ {u}
           /\ IF open
              THEN /\ acked' = u
                   /\ peer_consumed' = u % Modulus
                   /\ peer_window' = StreamBuf
                   /\ TryFlushOutbound(pending, u % Modulus, StreamBuf)
              ELSE UNCHANGED <<acked, peer_consumed, peer_window, pending, sent, num_written, ends>>
    BY DEF OnUpdate
  <1>2. UNCHANGED <<open, arrived, consumed, num_read, incr>>
    BY DEF OnUpdate, receiverVars
  <1>3. u \in Nat /\ acked < u /\ u <= consumed - incr /\ u <= sent /\ consumed - incr \in upds
    BY <1>1, IndInvOrder DEF UpdatesInOrder
  <1>4. /\ \A v \in upds' : u < v
        /\ upds' = {} => u = consumed - incr
        /\ upds' # {} => consumed - incr \in upds'
    <2>1. \A v \in upds' : v \in Nat /\ v # u /\ v \in upds
      BY <1>1
    <2>2. \A v \in upds' : u < v
      BY <1>1, <1>3, <2>1
    <2>3. consumed - incr # u => consumed - incr \in upds'
      BY <1>1, <1>3
    <2>4. consumed - incr = u => upds' = {}
      BY <1>3, <2>1, <2>2, IndInvOrder DEF UpdatesInOrder
    <2>5. QED
      BY <2>2, <2>3, <2>4
  <1>5. CASE ~open
    <2>1. UNCHANGED <<acked, peer_consumed, peer_window, pending, sent, num_written, ends>>
      BY <1>1, <1>5
    <2>2. QED
      BY <1>1, <1>2, <1>4, <1>5, <2>1
         DEF CountersWrap, Positions, UpdatesInOrder, WindowInForce, CreditKept
  <1>6. CASE open
    <2>1. /\ acked' = u /\ peer_consumed' = u % Modulus /\ peer_window' = StreamBuf
          /\ TryFlushOutbound(pending, u % Modulus, StreamBuf)
      BY <1>1, <1>6
    <2>2. sent - u <= MaxWindow
      BY <1>3, WindowFacts DEF CreditKept
    <2>3. /\ pending' \in Nat /\ sent' \in Nat /\ sent <= sent'
          /\ num_written' = sent' % Modulus
          /\ sent' - u <= MaxWindow
          /\ pending' > 0 => StreamBuf <= sent' - u
          /\ ends' \subseteq Nat /\ ends \subseteq ends'
          /\ \A e \in ends' : e \in ends \/ (sent < e /\ e <= sent')
          /\ sent' > sent => sent' \in ends'
      BY <1>3, <2>1, <2>2, FlushFacts DEF CountersWrap
    <2>4. num_written' \in UInt32 /\ peer_consumed' \in UInt32
      BY <1>3, <2>1, <2>3, Wrapped
    <2>5. TypeOK'
      BY <1>1, <1>2, <1>3, <2>1, <2>3, <2>4
    <2>6. CountersWrap' /\ CreditKept'
      BY <1>2, <1>3, <2>1, <2>3 DEF CountersWrap, CreditKept
    <2>7. Positions'
      BY <1>2, <1>3, <2>1, <2>3, IndInvOrder DEF Positions
    <2>8. UpdatesInOrder'
      BY <1>1, <1>2, <1>3, <1>4, <2>1 DEF UpdatesInOrder
    <2>9. WindowInForce'
      BY <1>2, <1>3, <2>1 DEF WindowInForce
    <2>10. QED
      BY <2>5, <2>6, <2>7, <2>8, <2>9
  <1>7. QED
    BY <1>5, <1>6

\* The sending stream is closed.
LEMMA CloseSenderIndInv ==
    ASSUME IndInv, CloseSender
    PROVE  IndInv'
  BY DEF CloseSender, receiverVars, IndInv, TypeOK, CountersWrap, Positions, UpdatesInOrder,
         WindowInForce, CreditKept

\* Every step of either end keeps the invariant.
LEMMA NextIndInv ==
    ASSUME IndInv, [Next]_vars
    PROVE  IndInv'
  <1>1. CASE Next
    BY <1>1, ProduceIndInv, ArriveIndInv, ConsumeIndInv, OnUpdateIndInv, CloseSenderIndInv
       DEF Next
  <1>2. CASE UNCHANGED vars
    BY <1>2 DEF vars, IndInv, TypeOK, CountersWrap, Positions, UpdatesInOrder,
                WindowInForce, CreditKept
  <1>3. QED
    BY <1>1, <1>2

\* The inductive invariant holds in every reachable state.
THEOREM FlowInvariant == Spec => []IndInv
  BY InitIndInv, NextIndInv, PTL DEF Spec

\* Type correctness of the flow-control state, the uint32 counters included.
THEOREM FlowTypes == Spec => []TypeOK
  <1>1. IndInv => TypeOK
    BY DEF IndInv
  <1>2. QED
    BY <1>1, FlowInvariant, PTL

\* The receiver never has to hold more than a window of one stream.
THEOREM FlowBuffer == Spec => []BufferBounded
  <1>1. IndInv => BufferBounded
    BY IndInvOrder, WindowFacts DEF BufferBounded
  <1>2. QED
    BY <1>1, FlowInvariant, PTL

\* available_peer_window is exact although its counters wrap.
THEOREM FlowWindow == Spec => []WindowExact
  <1>1. ASSUME IndInv PROVE WindowExact
    <2>1. /\ sent \in Nat /\ acked \in Nat /\ acked <= sent /\ sent - acked <= MaxWindow
          /\ num_written = sent % Modulus /\ peer_consumed = acked % Modulus
          /\ peer_window \in Nat
      BY <1>1, IndInvOrder, FlowAssumption DEF IndInv, TypeOK, CountersWrap
    <2>2. QED
      BY <2>1, AvailableIsExact DEF WindowExact
  <1>2. QED
    BY <1>1, FlowInvariant, PTL

\* A sender that holds bytes back can count on an UPD.
THEOREM FlowNoStall == Spec => []NoStall
  <1>1. ASSUME IndInv, open, pending > 0, consumed >= sent, upds = {} PROVE FALSE
    <2>0. consumed <= sent /\ sent \in Nat /\ consumed \in Nat /\ incr \in Nat /\ acked \in Nat
      <3>1. IndInv
        BY <1>1
      <3>2. QED
        BY <3>1, IndInvOrder
    <2>1. acked = consumed - incr /\ sent = consumed /\ incr < Threshold
      BY <1>1, <2>0 DEF IndInv, UpdatesInOrder
    <2>2. peer_window <= incr
      BY <1>1, <2>0, <2>1 DEF IndInv, TypeOK, CreditKept
    <2>3. CASE acked = 0
      BY <2>0, <2>1, <2>2, <2>3, <1>1, FlowAssumption DEF IndInv, TypeOK, WindowInForce, UpdatesInOrder
    <2>4. CASE acked # 0
      BY <2>0, <2>1, <2>2, <2>4, <1>1, WindowFacts, FlowAssumption DEF IndInv, TypeOK, WindowInForce
    <2>5. QED
      BY <2>3, <2>4
  <1>2. IndInv => NoStall
    BY <1>1 DEF NoStall, IndInv, TypeOK
  <1>3. QED
    BY <1>2, FlowInvariant, PTL

-----------------------------------------------------------------------------
(* RateLimiter: the inductive invariant, by parts.                          *)

Departed == [size : Sizes, at : Nat]

RateTyped ==
    /\ now \in 0..MaxTime
    /\ pending_udp \in Seq(Sizes) /\ given \in Seq(Sizes) /\ departed \in Seq(Departed)
    /\ rate_send_active \in BOOLEAN /\ closing \in BOOLEAN
    /\ expires \in Nat /\ next_tx_time \in Nat

\* A timer that runs stands for the first packet and fires at its time.
TimerServes ==
    rate_send_active => pending_udp # <<>> /\ expires = next_tx_time

\* The next packet may not go before the last one has had its time.
Paced ==
    departed # <<>> =>
        next_tx_time >= departed[Len(departed)].at + Delay(departed[Len(departed)].size)

\* Fifo, packet by packet.
InOrder ==
    /\ Len(given) = Len(departed) + Len(pending_udp)
    /\ \A k \in 1..Len(given) :
          given[k] = IF k <= Len(departed) THEN departed[k].size ELSE pending_udp[k - Len(departed)]

RateIndInv == RateTyped /\ TimerServes /\ QueueTimed /\ Paced /\ RateRespected /\ InOrder

-----------------------------------------------------------------------------
\* A packet occupies the link for at least a microsecond.
LEMMA DelayPositive ==
    ASSUME NEW size \in Sizes
    PROVE  Delay(size) \in Nat /\ Delay(size) >= 1
  <1> DEFINE bits == size * Second
  <1>1. bits \in Nat /\ RateLimit \in Nat \ {0}
    BY RateAssumption
  <1> HIDE DEF bits
  <1>2. bits \div RateLimit \in Int
    BY <1>1
  <1>3. Later(1, bits \div RateLimit) \in Nat /\ Later(1, bits \div RateLimit) >= 1
    BY <1>2 DEF Later
  <1>4. QED
    BY <1>3 DEF Delay, bits

\* next_tx_time never goes back when a packet has left.
LEMMA NextTxTimeLater ==
    ASSUME NEW size \in Sizes, RateTyped
    PROVE  /\ NextTxTime(size) \in Nat
           /\ NextTxTime(size) >= now + Delay(size)
           /\ NextTxTime(size) >= next_tx_time
  BY DelayPositive DEF NextTxTime, Later, RateTyped

\* What schedule_rate_limited_send leaves behind on an open transport.
LEMMA ScheduleFacts ==
    ASSUME RateTyped, ~closing, NEW q \in Seq(Sizes), NEW t \in Nat, Schedule(q, t)
    PROVE  /\ pending_udp' = q
           /\ rate_send_active' \in BOOLEAN /\ (rate_send_active' <=> q # <<>>)
           /\ expires' \in Nat /\ next_tx_time' \in Nat /\ next_tx_time' >= t
           /\ rate_send_active' => expires' = next_tx_time'
  <1>1. now \in Nat /\ Later(t, now) \in Nat /\ Later(t, now) >= t
    BY RateAssumption DEF RateTyped, Later
  <1>2. CASE q = <<>>
    <2>1. rate_send_active' = FALSE /\ next_tx_time' = t /\ expires' = expires
      BY <1>2 DEF Schedule
    <2>2. pending_udp' = q /\ expires \in Nat /\ t >= t
      BY DEF Schedule, RateTyped
    <2>3. QED
      BY <1>2, <2>1, <2>2, Zenon
  <1>3. CASE q # <<>>
    BY <1>1, <1>3 DEF Schedule
  <1>4. QED
    BY <1>2, <1>3

-----------------------------------------------------------------------------
\* Initially nothing waits and nothing has left.
LEMMA RateInitially == RateInit => RateIndInv
  <1>1. SUFFICES ASSUME RateInit PROVE RateIndInv
    OBVIOUS
  <1>2. <<>> \in Seq(Sizes) /\ <<>> \in Seq(Departed)
    BY EmptySeq
  <1>3. 0 \in Nat /\ 0 \in 0..MaxTime
    BY RateAssumption
  <1>4. RateTyped
    BY <1>1, <1>2, <1>3, Zenon DEF RateInit, RateTyped
  <1>5. TimerServes /\ QueueTimed /\ Paced
    BY <1>1 DEF RateInit, TimerServes, QueueTimed, Paced
  <1>6. RateRespected /\ InOrder
    BY <1>1 DEF RateInit, RateRespected, InOrder
  <1>7. QED
    BY <1>4, <1>5, <1>6 DEF RateIndInv

\* A packet is put at the end of the queue, and starts the timer if it is idle.
LEMMA EnqueueKeeps ==
    ASSUME RateIndInv, NEW size \in Sizes, Enqueue(size)
    PROVE  RateIndInv'
  <1> USE DEF RateIndInv
  <1> DEFINE q == Append(pending_udp, size)
  <1>1. RateTyped /\ ~closing
    BY DEF Enqueue
  <1>2. /\ given' = Append(given, size) /\ UNCHANGED <<now, closing, departed>>
        /\ pending_udp' = q
    BY DEF Enqueue, Schedule
  <1>3. /\ q \in Seq(Sizes) /\ q # <<>> /\ Len(q) = Len(pending_udp) + 1
        /\ q[Len(q)] = size
        /\ \A k \in 1..Len(pending_udp) : q[k] = pending_udp[k]
    BY <1>1, AppendProperties DEF RateTyped
  <1>4. /\ rate_send_active' \in BOOLEAN /\ rate_send_active'
        /\ expires' \in Nat /\ next_tx_time' \in Nat /\ next_tx_time' >= next_tx_time
        /\ expires' = next_tx_time'
    <2>1. CASE rate_send_active
      BY <1>1, <2>1 DEF Enqueue, RateTyped, TimerServes
    <2>2. CASE ~rate_send_active
      <3>1. Schedule(q, next_tx_time)
        BY <2>2 DEF Enqueue
      <3>2. next_tx_time \in Nat
        BY <1>1 DEF RateTyped
      <3>3. QED
        BY <1>1, <1>3, <3>1, <3>2, ScheduleFacts
    <2>3. QED
      BY <1>1, <2>1, <2>2 DEF RateTyped
  <1> HIDE DEF q
  <1>5. /\ given' \in Seq(Sizes) /\ Len(given') = Len(given) + 1
        /\ given'[Len(given) + 1] = size
        /\ \A k \in 1..Len(given) : given'[k] = given[k]
    BY <1>1, <1>2, AppendProperties DEF RateTyped
  <1>6. RateTyped'
    BY <1>1, <1>2, <1>3, <1>4, <1>5 DEF RateTyped
  <1>7. TimerServes' /\ QueueTimed'
    BY <1>2, <1>3, <1>4 DEF TimerServes, QueueTimed
  <1>8. Paced'
    <2>1. CASE departed = <<>>
      BY <1>2, <2>1 DEF Paced
    <2>2. CASE departed # <<>>
      <3>1. departed[Len(departed)] \in Departed
        BY <1>1, <2>2 DEF RateTyped
      <3>2. Delay(departed[Len(departed)].size) \in Nat /\ departed[Len(departed)].at \in Nat
        BY <3>1, DelayPositive DEF Departed
      <3>3. next_tx_time >= departed[Len(departed)].at + Delay(departed[Len(departed)].size)
        BY <2>2 DEF Paced
      <3>4. next_tx_time' >= departed[Len(departed)].at + Delay(departed[Len(departed)].size)
        BY <1>1, <1>4, <3>2, <3>3 DEF RateTyped
      <3>5. QED
        BY <1>2, <3>4 DEF Paced, Delay
    <2>3. QED
      BY <2>1, <2>2
  <1>9. RateRespected'
    BY <1>2 DEF RateRespected, Delay
  <1>10. InOrder'
    <2>1. Len(departed) \in Nat /\ Len(pending_udp) \in Nat /\ Len(given) \in Nat
      BY <1>1, LenProperties DEF RateTyped
    <2>2. Len(given') = Len(departed') + Len(pending_udp')
      BY <1>2, <1>3, <1>5, <2>1 DEF InOrder
    <2>3. ASSUME NEW k \in 1..Len(given')
          PROVE  given'[k] = IF k <= Len(departed') THEN departed'[k].size
                                                ELSE pending_udp'[k - Len(departed')]
      <3>1. CASE k = Len(given) + 1
        BY <1>2, <1>3, <1>5, <2>1, <3>1 DEF InOrder
      <3>2. CASE k \in 1..Len(given)
        <4>1. given'[k] = given[k]
          BY <1>5, <3>2
        <4>2. given[k] = IF k <= Len(departed) THEN departed[k].size
                                           ELSE pending_udp[k - Len(departed)]
          BY <3>2 DEF InOrder
        <4>3. ~(k <= Len(departed)) => k - Len(departed) \in 1..Len(pending_udp)
          BY <2>1, <3>2 DEF InOrder
        <4>4. ~(k <= Len(departed)) => q[k - Len(departed)] = pending_udp[k - Len(departed)]
          BY <1>3, <4>3
        <4>5. QED
          BY <1>2, <4>1, <4>2, <4>4
      <3>3. QED
        BY <1>5, <2>1, <2>3, <3>1, <3>2
    <2>4. QED
      BY <2>2, <2>3 DEF InOrder
  <1>11. QED
    BY <1>6, <1>7, <1>8, <1>9, <1>10

\* The handler on an open transport hands the first packet to the socket, and
\* next_tx_time moves at least its delay past now.
LEMMA FiringFacts ==
    ASSUME RateIndInv, TimerFires, ~closing
    PROVE  /\ pending_udp # <<>> /\ Head(pending_udp) \in Sizes
           /\ UNCHANGED <<now, given, closing>>
           /\ departed' = Append(departed, [size |-> Head(pending_udp), at |-> now])
           /\ pending_udp' = Tail(pending_udp)
           /\ next_tx_time <= now
           /\ rate_send_active' \in BOOLEAN
           /\ rate_send_active' <=> Tail(pending_udp) # <<>>
           /\ expires' \in Nat /\ next_tx_time' \in Nat
           /\ next_tx_time' >= now + Delay(Head(pending_udp))
           /\ rate_send_active' => expires' = next_tx_time'
  <1> DEFINE h == Head(pending_udp)
             q == Tail(pending_udp)
  <1>1. /\ expires <= now /\ UNCHANGED <<now, given, closing>>
        /\ departed' = Append(departed, [size |-> h, at |-> now])
        /\ Schedule(q, NextTxTime(h))
    BY DEF TimerFires
  <1>2. pending_udp # <<>> /\ expires = next_tx_time
    BY DEF TimerFires, RateIndInv, TimerServes
  <1>3. RateTyped
    BY DEF RateIndInv
  <1>4. h \in Sizes /\ q \in Seq(Sizes)
    BY <1>2, <1>3, HeadTailProperties DEF RateTyped
  <1> HIDE DEF h, q
  <1>5. /\ NextTxTime(h) \in Nat /\ NextTxTime(h) >= now + Delay(h)
        /\ now \in Nat /\ Delay(h) \in Nat
    BY <1>3, <1>4, NextTxTimeLater, DelayPositive DEF RateTyped
  <1>6. /\ pending_udp' = q
        /\ rate_send_active' \in BOOLEAN /\ (rate_send_active' <=> q # <<>>)
        /\ expires' \in Nat /\ next_tx_time' \in Nat /\ next_tx_time' >= NextTxTime(h)
        /\ rate_send_active' => expires' = next_tx_time'
    BY <1>1, <1>3, <1>4, <1>5, ScheduleFacts
  <1>7. next_tx_time' >= now + Delay(h)
    <2>1. next_tx_time' \in Nat /\ next_tx_time' >= NextTxTime(h)
      BY <1>6
    <2>2. QED
      BY <1>5, <2>1
  <1>8. QED
    BY <1>1, <1>2, <1>4, <1>6, <1>7, Zenon DEF h, q

\* The first packet leaves, after the time of the one before it.
LEMMA FiringKeeps ==
    ASSUME RateIndInv, TimerFires, ~closing
    PROVE  RateIndInv'
  <1> DEFINE h == Head(pending_udp)
             q == Tail(pending_udp)
             p == [size |-> h, at |-> now]
             out == Append(departed, p)
  <1>1. /\ pending_udp # <<>> /\ h \in Sizes
        /\ UNCHANGED <<now, given, closing>>
        /\ departed' = out /\ pending_udp' = q
        /\ next_tx_time <= now
        /\ rate_send_active' \in BOOLEAN /\ (rate_send_active' <=> q # <<>>)
        /\ expires' \in Nat /\ next_tx_time' \in Nat
        /\ next_tx_time' >= now + Delay(h)
        /\ rate_send_active' => expires' = next_tx_time'
    BY FiringFacts
  <1>2. RateTyped /\ now \in Nat /\ Len(departed) \in Nat
    BY RateAssumption, LenProperties DEF RateIndInv, RateTyped
  <1>3. /\ q \in Seq(Sizes) /\ Len(pending_udp) = Len(q) + 1 /\ Len(q) \in Nat
        /\ h = pending_udp[1]
        /\ \A k \in 1..Len(q) : q[k] = pending_udp[k + 1]
    BY <1>1, <1>2, HeadTailProperties, LenProperties DEF RateTyped
  <1>4. p \in Departed /\ p.size = h /\ p.at = now
    BY <1>1, <1>2 DEF Departed
  <1> HIDE DEF h, q, p
  <1>5. /\ out \in Seq(Departed) /\ Len(out) = Len(departed) + 1 /\ out # <<>>
        /\ out[Len(departed) + 1] = p
        /\ \A k \in 1..Len(departed) : out[k] = departed[k]
    BY <1>2, <1>4, AppendProperties DEF RateTyped
  <1> HIDE DEF out
  <1>6. RateTyped'
    BY <1>1, <1>2, <1>3, <1>5 DEF RateTyped
  <1>7. TimerServes' /\ QueueTimed'
    BY <1>1 DEF TimerServes, QueueTimed
  <1>8. Paced'
    <2>1. out[Len(out)] = p
      BY <1>5
    <2>2. QED
      BY <1>1, <1>4, <2>1 DEF Paced, Delay
  <1>9. RateRespected'
    <2>1. SUFFICES ASSUME NEW k \in 1..Len(out), k + 1 \in 1..Len(out)
                   PROVE  out[k + 1].at - out[k].at >= Delay(out[k].size)
      BY <1>1, <1>5, LenProperties DEF RateRespected, Delay
    <2>2. k \in 1..Len(departed) /\ out[k] = departed[k]
      BY <1>2, <1>5, <2>1
    <2>3. CASE k + 1 \in 1..Len(departed)
      <3>1. out[k + 1] = departed[k + 1]
        BY <1>5, <2>3
      <3>2. k \in DOMAIN departed /\ k + 1 \in DOMAIN departed
        BY <1>2, <2>2, <2>3, LenProperties DEF RateTyped
      <3>3. QED
        BY <2>2, <3>1, <3>2 DEF RateIndInv, RateRespected
    <2>4. CASE k = Len(departed)
      <3>1. departed # <<>> /\ departed[k] \in Departed
        BY <1>2, <2>2 DEF RateTyped
      <3>2. Delay(departed[k].size) \in Nat /\ departed[k].at \in Nat
        BY <3>1, DelayPositive DEF Departed
      <3>3. next_tx_time >= departed[k].at + Delay(departed[k].size)
        BY <2>4, <3>1 DEF RateIndInv, Paced
      <3>4. next_tx_time \in Nat /\ now >= next_tx_time
        BY <1>1, <1>2 DEF RateTyped
      <3>5. now - departed[k].at >= Delay(departed[k].size)
        BY <1>2, <3>2, <3>3, <3>4
      <3>6. out[k + 1].at = now
        BY <1>4, <1>5, <2>4
      <3>7. QED
        BY <2>2, <3>5, <3>6
    <2>5. QED
      BY <1>2, <2>2, <2>3, <2>4
  <1>10. InOrder'
    <2>1. Len(given) = Len(departed) + Len(pending_udp)
      BY DEF RateIndInv, InOrder
    <2>2. Len(given') = Len(departed') + Len(pending_udp')
      BY <1>1, <1>2, <1>3, <1>5, <2>1
    <2>3. ASSUME NEW k \in 1..Len(given)
          PROVE  given[k] = IF k <= Len(out) THEN out[k].size ELSE q[k - Len(out)]
      <3>1. given[k] = IF k <= Len(departed) THEN departed[k].size
                                         ELSE pending_udp[k - Len(departed)]
        BY DEF RateIndInv, InOrder
      <3>2. CASE k \in 1..Len(departed)
        BY <1>2, <1>5, <3>1, <3>2
      <3>3. CASE k = Len(departed) + 1
        BY <1>2, <1>3, <1>4, <1>5, <3>1, <3>3
      <3>4. CASE k > Len(departed) + 1
        <4>1. k - Len(out) \in 1..Len(q)
          BY <1>2, <1>3, <1>5, <2>1, <3>4
        <4>2. q[k - Len(out)] = pending_udp[k - Len(departed)]
          <5>1. (k - Len(out)) + 1 = k - Len(departed)
            BY <1>2, <1>5
          <5>2. QED
            BY <1>3, <4>1, <5>1
        <4>3. QED
          BY <1>2, <1>5, <3>1, <3>4, <4>2
      <3>5. QED
        BY <1>2, <3>2, <3>3, <3>4
    <2>4. QED
      BY <1>1, <2>2, <2>3 DEF InOrder
  <1>11. QED
    BY <1>6, <1>7, <1>8, <1>9, <1>10 DEF RateIndInv

\* After close the handler only clears rate_send_active_.
LEMMA TimerFiresKeeps ==
    ASSUME RateIndInv, TimerFires
    PROVE  RateIndInv'
  <1>1. CASE ~closing
    BY <1>1, FiringKeeps
  <1>2. CASE closing
    <2>1. /\ rate_send_active' = FALSE
          /\ UNCHANGED <<now, given, closing, pending_udp, expires, next_tx_time, departed>>
      BY <1>2 DEF TimerFires
    <2>2. RateTyped' /\ TimerServes' /\ QueueTimed'
      BY <1>2, <2>1 DEF RateIndInv, RateTyped, TimerServes, QueueTimed
    <2>3. Paced' /\ RateRespected' /\ InOrder'
      BY <2>1 DEF RateIndInv, Paced, RateRespected, InOrder, Delay
    <2>4. QED
      BY <2>2, <2>3 DEF RateIndInv
  <1>3. QED
    BY <1>1, <1>2

\* Closing and the passing of time leave the queue and the timer alone.
LEMMA IdleKeeps ==
    ASSUME RateIndInv, Close \/ Tick \/ UNCHANGED rateVars
    PROVE  RateIndInv'
  <1>1. /\ UNCHANGED <<given, pending_udp, rate_send_active, expires, next_tx_time, departed>>
        /\ closing' = TRUE \/ closing' = closing
        /\ now' = now \/ (now < MaxTime /\ now' = now + 1)
    BY DEF Close, Tick, rateVars
  <1>2. now' \in 0..MaxTime
    BY <1>1, RateAssumption DEF RateIndInv, RateTyped
  <1>3. RateTyped'
    BY <1>1, <1>2 DEF RateIndInv, RateTyped
  <1>4. TimerServes' /\ QueueTimed'
    BY <1>1 DEF RateIndInv, TimerServes, QueueTimed
  <1>5. Paced' /\ RateRespected' /\ InOrder'
    BY <1>1 DEF RateIndInv, Paced, RateRespected, InOrder, Delay
  <1>6. QED
    BY <1>3, <1>4, <1>5 DEF RateIndInv

\* The concatenation of what left and what waits, packet by packet.
LEMMA FifoFromInOrder == RateTyped /\ InOrder => Fifo
  <1>1. SUFFICES ASSUME RateTyped, InOrder PROVE Fifo
    OBVIOUS
  <1> DEFINE left == [k \in DOMAIN departed |-> departed[k].size]
  <1>2. /\ Len(departed) \in Nat /\ DOMAIN departed = 1..Len(departed)
        /\ \A k \in 1..Len(departed) : departed[k].size \in Sizes
    <2>1. departed \in Seq(Departed) /\ Len(departed) \in Nat /\ DOMAIN departed = 1..Len(departed)
      BY <1>1, LenProperties DEF RateTyped
    <2>2. ASSUME NEW k \in 1..Len(departed) PROVE departed[k].size \in Sizes
      <3>1. departed[k] \in Departed
        BY <2>1, ElementOfSeq
      <3>2. QED
        BY <3>1 DEF Departed
    <2>3. QED
      BY <2>1, <2>2
  <1>3. left \in Seq(Sizes) /\ Len(left) = Len(departed)
        /\ \A k \in 1..Len(departed) : left[k] = departed[k].size
    BY <1>2
  <1> HIDE DEF left
  <1>4. given \in Seq(Sizes) /\ pending_udp \in Seq(Sizes)
    BY <1>1 DEF RateTyped
  <1>5. /\ left \o pending_udp \in Seq(Sizes)
        /\ Len(left \o pending_udp) = Len(left) + Len(pending_udp)
        /\ \A k \in 1..(Len(left) + Len(pending_udp)) :
              (left \o pending_udp)[k] =
                  IF k <= Len(left) THEN left[k] ELSE pending_udp[k - Len(left)]
    BY <1>3, <1>4, ConcatProperties
  <1>6. Len(given) = Len(left \o pending_udp)
    BY <1>1, <1>3, <1>5 DEF InOrder
  <1>7. \A k \in 1..Len(given) : given[k] = (left \o pending_udp)[k]
    BY <1>1, <1>2, <1>3, <1>5, <1>6 DEF InOrder
  <1>8. given = left \o pending_udp
    BY <1>4, <1>5, <1>6, <1>7, SeqEqual
  <1>9. QED
    BY <1>8 DEF Fifo, left

-----------------------------------------------------------------------------
(* RateIndInv holds in every reachable state of the outgoing queue, at any  *)
(* rate limit and however late its timer fires.                             *)
THEOREM RateInvariant == RateSpec => []RateIndInv
  <1>1. RateIndInv /\ [RateNext]_rateVars => RateIndInv'
    BY EnqueueKeeps, TimerFiresKeeps, IdleKeeps DEF RateNext
  <1>2. QED
    BY <1>1, RateInitially, PTL DEF RateSpec

(* The queue and its timer are well typed, and the handler of               *)
(* schedule_rate_limited_send always finds a packet.                        *)
THEOREM RateTypes == RateSpec => []RateTypeOK
  <1>1. RateIndInv => RateTypeOK
    BY DEF RateIndInv, RateTyped, TimerServes, RateTypeOK, Departed
  <1>2. QED
    BY <1>1, RateInvariant, PTL

(* A packet leaves no sooner than schedule_rate_limited_send owes the one   *)
(* before it: neither an idle link nor a late timer earns a burst.          *)
THEOREM RateSpacing == RateSpec => []RateRespected
  <1>1. RateIndInv => RateRespected
    BY DEF RateIndInv
  <1>2. QED
    BY <1>1, RateInvariant, PTL

(* enqueue_udp_packet and the handler lose no packet, repeat none and keep  *)
(* their order.                                                             *)
THEOREM RateFifo == RateSpec => []Fifo
  <1>1. RateIndInv => Fifo
    BY FifoFromInOrder DEF RateIndInv
  <1>2. QED
    BY <1>1, RateInvariant, PTL

(* The queue of an open transport always has a wait on rate_timer_: no      *)
(* packet waits for an enqueue that may never come.                         *)
THEOREM RateTimed == RateSpec => []QueueTimed
  <1>1. RateIndInv => QueueTimed
    BY DEF RateIndInv
  <1>2. QED
    BY <1>1, RateInvariant, PTL
=============================================================================
