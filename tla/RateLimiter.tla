----------------------------- MODULE RateLimiter -----------------------------
(***************************************************************************)
(* The outgoing packet queue of KcpTransport with a rate limit              *)
(* (kcp_transport.cpp: enqueue_udp_packet, schedule_rate_limited_send).     *)
(*                                                                         *)
(* Time is in microseconds of the steady clock.  A timer never fires early  *)
(* and may fire late, when the io_context was busy.                         *)
(***************************************************************************)
EXTENDS Integers, Sequences

CONSTANTS
    Sizes,        \* packet sizes
    Second,       \* 1000000: microseconds in a second
    RateLimit,    \* config ratelimit, bytes per second
    MaxPackets,   \* bound: packets given to the transport
    MaxTime       \* bound: microseconds

ASSUME RateAssumption ==
    /\ Sizes \subseteq Nat \ {0} /\ Second \in Nat \ {0} /\ RateLimit \in Nat \ {0}
    /\ MaxPackets \in Nat /\ MaxTime \in Nat

VARIABLES
    now,
    pending_udp,        \* sizes of the queued packets, oldest first
    rate_send_active,   \* a wait on rate_timer_ is outstanding
    expires,            \* expiry of rate_timer_
    next_tx_time,
    closing,
    given, departed     \* history: sizes enqueued; [size, at] handed to the socket

rateVars == <<now, pending_udp, rate_send_active, expires, next_tx_time, closing, given, departed>>

Later(a, b) == IF a > b THEN a ELSE b

\* How long a packet occupies the link: the quotient truncated to a whole
\* microsecond, and at least one.
Delay(size) == Later(1, (size * Second) \div RateLimit)

\* schedule_rate_limited_send with queue q and earliest time t.
Schedule(q, t) ==
    /\ pending_udp' = q
    /\ IF closing \/ q = <<>>
       THEN rate_send_active' = FALSE /\ next_tx_time' = t /\ UNCHANGED expires
       ELSE /\ rate_send_active' = TRUE
            /\ next_tx_time' = Later(t, now)
            /\ expires' = Later(t, now)

RateInit ==
    /\ now = 0 /\ pending_udp = <<>> /\ rate_send_active = FALSE /\ expires = 0
    /\ next_tx_time = 0 /\ closing = FALSE
    /\ given = <<>> /\ departed = <<>>

\* Mutation: a packet that finds the timer running is dropped.
EnqueueDropsWhenBusy(size) ==
    /\ ~closing /\ Len(given) < MaxPackets
    /\ given' = Append(given, size)
    /\ IF rate_send_active THEN UNCHANGED <<pending_udp, rate_send_active, expires, next_tx_time>>
       ELSE Schedule(Append(pending_udp, size), next_tx_time)
    /\ UNCHANGED <<now, closing, departed>>

\* send_udp (guarded by closing_) and enqueue_udp_packet.
Enqueue(size) ==
    /\ ~closing /\ Len(given) < MaxPackets
    /\ given' = Append(given, size)
    /\ IF rate_send_active
       THEN pending_udp' = Append(pending_udp, size)
            /\ UNCHANGED <<rate_send_active, expires, next_tx_time>>
       ELSE Schedule(Append(pending_udp, size), next_tx_time)
    /\ UNCHANGED <<now, closing, departed>>

\* Mutation: the next packet is due one delay after this one was due.
NextTxTimeFromDue(size) == next_tx_time + Delay(size)

\* When the packet after one of this size may go.
NextTxTime(size) == Later(next_tx_time, now) + Delay(size)

\* Mutation: the handler leaves the rest of the queue to the next enqueue.
TimerFiresOnce ==
    /\ rate_send_active /\ ~closing /\ expires <= now
    /\ departed' = Append(departed, [size |-> Head(pending_udp), at |-> now])
    /\ pending_udp' = Tail(pending_udp) /\ rate_send_active' = FALSE
    /\ next_tx_time' = NextTxTime(Head(pending_udp))
    /\ UNCHANGED <<now, given, expires, closing>>

\* Mutation: the handler does not reset rate_send_active_.
TimerFiresStaysActive ==
    /\ rate_send_active /\ ~closing /\ expires <= now /\ pending_udp # <<>>
    /\ departed' = Append(departed, [size |-> Head(pending_udp), at |-> now])
    /\ pending_udp' = Tail(pending_udp)
    /\ next_tx_time' = NextTxTime(Head(pending_udp))
    /\ UNCHANGED <<now, given, expires, rate_send_active, closing>>

\* The wait handler of rate_timer_.  After close it runs with an error or finds
\* closing_ set, and does the same.
TimerFires ==
    /\ rate_send_active
    /\ \/ /\ closing
          /\ rate_send_active' = FALSE
          /\ UNCHANGED <<pending_udp, expires, next_tx_time, departed>>
       \/ /\ ~closing /\ expires <= now
          /\ departed' = Append(departed, [size |-> Head(pending_udp), at |-> now])
          /\ Schedule(Tail(pending_udp), NextTxTime(Head(pending_udp)))
    /\ UNCHANGED <<now, given, closing>>

\* KcpTransport::close.  What is queued is dropped with the transport.
Close ==
    /\ ~closing
    /\ closing' = TRUE
    /\ UNCHANGED <<now, pending_udp, rate_send_active, expires, next_tx_time, given, departed>>

Tick ==
    /\ now < MaxTime
    /\ now' = now + 1
    /\ UNCHANGED <<pending_udp, rate_send_active, expires, next_tx_time, closing, given, departed>>

RateNext ==
    \/ \E size \in Sizes : Enqueue(size)
    \/ TimerFires
    \/ Close
    \/ Tick

RateSpec == RateInit /\ [][RateNext]_rateVars

(* Time passes and a handler that is due runs.                              *)
RateFairSpec == RateSpec /\ WF_rateVars(Tick) /\ WF_rateVars(TimerFires)

-----------------------------------------------------------------------------
(* The state is well typed, and rate_send_active_ is set only while a packet*)
(* waits: the handler of schedule_rate_limited_send always finds one.       *)
RateTypeOK ==
    /\ now \in 0..MaxTime /\ pending_udp \in Seq(Sizes)
    /\ rate_send_active \in BOOLEAN /\ closing \in BOOLEAN
    /\ rate_send_active => pending_udp # <<>>
    /\ expires \in Nat /\ next_tx_time \in Nat
    /\ given \in Seq(Sizes) /\ departed \in Seq([size : Sizes, at : Nat])

(* However the packets arrive and however late the timer fires, a packet   *)
(* leaves no sooner than the one before it has had its time on the link, so *)
(* that any run of packets takes as long as the rate limit asks: an idle    *)
(* link or a late timer earns no burst.                                     *)
RateRespected ==
    \A k \in DOMAIN departed :
        k + 1 \in DOMAIN departed => departed[k + 1].at - departed[k].at >= Delay(departed[k].size)

(* Packets leave in the order they were queued, none twice and none lost    *)
(* before the transport is closed.                                          *)
Fifo == given = [k \in DOMAIN departed |-> departed[k].size] \o pending_udp

(* Packets wait only behind a timer: the queue of an open transport always  *)
(* has a wait outstanding.                                                  *)
QueueTimed == (~closing /\ pending_udp # <<>>) => rate_send_active

(* With time enough every packet of an open transport is sent.                 *)
QueueDrains == []<>(closing \/ pending_udp = <<>> \/ expires > MaxTime)
==============================================================================
