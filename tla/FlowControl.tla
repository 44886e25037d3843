----------------------------- MODULE FlowControl -----------------------------
(***************************************************************************)
(* The credit protocol of one direction of a smux v2 stream (smux.cpp).    *)
(*                                                                         *)
(* The sender reads from its application into pending_outbound_ and sends   *)
(* PSH frames while available_peer_window() is positive.  The receiver      *)
(* writes each payload to its application and answers, now and then, with   *)
(* an UPD frame that carries the number of bytes consumed and its buffer    *)
(* size.  Bytes are counted, not named: position n is the end of the n-th   *)
(* byte of the direction, a frame is known by the position it ends at, and  *)
(* since positions only grow the two FIFO channels are sets taken in order. *)
(*                                                                         *)
(* The counters num_written_, num_read_ and peer_consumed_ are uint32 and   *)
(* wrap at Modulus.  sent, consumed and acked are the positions they stand  *)
(* for; the code has no such variables.                                     *)
(*                                                                         *)
(* The receiving stream stays open here: when it closes it sends FIN and    *)
(* drops what arrives later, which is the business of module Smux.  A read  *)
(* may complete while bytes are pending: on_update may have issued a second *)
(* one (see Smux), so Produce does not ask for pending = 0.                 *)
(***************************************************************************)
EXTENDS Integers

CONSTANTS
    FrameSize,   \* config framesize
    StreamBuf,   \* config streambuf
    InitWindow,  \* peer_window_ before the first UPD
    ReadBuf,     \* size of tcp_read_buffer_
    Modulus,     \* 2^32
    MaxBytes     \* bound: bytes the application sends

\* validate_common_config demands positive sizes; they are ints, so twice a
\* window is below 2^32.
ASSUME FlowAssumption ==
    /\ FrameSize \in Nat \ {0}
    /\ StreamBuf \in Nat \ {0} /\ 2 * StreamBuf < Modulus
    /\ InitWindow \in Nat \ {0} /\ 2 * InitWindow < Modulus
    /\ ReadBuf \in Nat \ {0}
    /\ Modulus \in Nat \ {0}
    /\ MaxBytes \in Nat

VARIABLES
    open,           \* the sending stream is in streams_
    pending,        \* bytes in pending_outbound_
    sent, num_written,
    acked, peer_consumed, peer_window,
    ends,           \* the positions at which the frames sent so far end
    arrived,        \* end of the last frame the receiver has taken
    consumed, num_read,
    incr,           \* bytes consumed since the last UPD
    upds            \* positions carried by the UPD frames under way

senderVars == <<open, pending, sent, num_written, acked, peer_consumed, peer_window, ends>>
receiverVars == <<arrived, consumed, num_read, incr>>
vars == <<open, pending, sent, num_written, acked, peer_consumed, peer_window, ends,
          arrived, consumed, num_read, incr, upds>>

Threshold == IF StreamBuf \div 2 > 1 THEN StreamBuf \div 2 ELSE 1

\* Mutation: the counters are subtracted as if they never wrapped.
AvailableUnwrapped(w, c, window) == window - (w - c)

\* The window available to a sender that has written w and knows of c consumed.
AvailablePeerWindow(w, c, window) ==
    LET inflight == (w - c) % Modulus
    IN  IF 2 * inflight >= Modulus THEN 0 ELSE window - inflight

\* Mutation: a positive window lets everything through.
AllowedAll(queued, window) == IF window <= 0 THEN 0 ELSE queued

\* How many of the queued bytes the window lets through.
Allowed(queued, window) ==
    IF window <= 0 THEN 0 ELSE IF queued <= window THEN queued ELSE window

(* try_flush_outbound with `queued` bytes pending: everything the window    *)
(* allows goes out, in frames of at most FrameSize bytes.  Where else the   *)
(* frames are cut depends on the buffers the bytes were read into.          *)
TryFlushOutbound(queued, c, window) ==
    LET n == Allowed(queued, AvailablePeerWindow(num_written, c, window))
    IN  /\ pending' = queued - n
        /\ sent' = sent + n
        /\ num_written' = (num_written + n) % Modulus
        /\ \E cuts \in SUBSET ((sent + 1)..(sent + n)) :
              /\ n > 0 => sent + n \in cuts
              /\ \A e \in cuts : \E d \in cuts \cup {sent} : d < e /\ e - d <= FrameSize
              /\ ends' = ends \cup cuts

-----------------------------------------------------------------------------
Init ==
    /\ open = TRUE
    /\ pending = 0 /\ sent = 0 /\ num_written = 0
    /\ acked = 0 /\ peer_consumed = 0 /\ peer_window = InitWindow
    /\ ends = {}
    /\ arrived = 0 /\ consumed = 0 /\ num_read = 0 /\ incr = 0
    /\ upds = {}

\* A read of n bytes completes: queue_outbound, try_flush_outbound.
Produce(n) ==
    /\ open /\ sent + pending + n <= MaxBytes
    /\ TryFlushOutbound(pending + n, peer_consumed, peer_window)
    /\ UNCHANGED <<open, acked, peer_consumed, peer_window, upds, receiverVars>>

\* The receiving session takes the next PSH frame off the wire: on_data.
Arrive ==
    /\ \E e \in ends :
          /\ e > arrived /\ \A d \in ends : d > arrived => e <= d
          /\ arrived' = e
    /\ UNCHANGED <<senderVars, consumed, num_read, incr, upds>>

\* Mutation: no UPD for the first payload.
UpdateDueAtThreshold(unacked, read, bytes) == unacked >= Threshold

\* When mark_payload_consumed answers with an UPD.
UpdateDue(unacked, read, bytes) == unacked >= Threshold \/ read = bytes

ReadCounter(n) == (num_read + n) % Modulus

\* The oldest payload is written to the application: mark_payload_consumed.
Consume ==
    /\ \E e \in ends :
          LET bytes == e - consumed
              read == ReadCounter(bytes)
              unacked == (incr + bytes) % Modulus
              due == UpdateDue(unacked, read, bytes)
          IN  /\ e > consumed /\ e <= arrived
              /\ \A d \in ends : d > consumed => e <= d
              /\ consumed' = e
              /\ num_read' = read
              /\ incr' = IF due THEN 0 ELSE unacked
              /\ upds' = IF due THEN upds \cup {e} ELSE upds
    /\ UNCHANGED <<senderVars, arrived>>

\* Mutation: an UPD opens the window and nothing is flushed.
OnUpdateKeepsPending ==
    /\ \E u \in upds :
          /\ \A v \in upds : u <= v
          /\ upds' = upds \ {u}
          /\ acked' = u /\ peer_consumed' = u % Modulus /\ peer_window' = StreamBuf
    /\ UNCHANGED <<open, pending, sent, num_written, ends, receiverVars>>

\* The next UPD frame reaches the sending session: on_update.
OnUpdate ==
    /\ \E u \in upds :
          /\ \A v \in upds : u <= v
          /\ upds' = upds \ {u}
          /\ IF open
             THEN /\ acked' = u
                  /\ peer_consumed' = u % Modulus
                  /\ peer_window' = StreamBuf
                  /\ TryFlushOutbound(pending, u % Modulus, StreamBuf)
             ELSE UNCHANGED <<acked, peer_consumed, peer_window, pending, sent, num_written, ends>>
    /\ UNCHANGED <<open, receiverVars>>

\* SmuxStream::close on the sending side.
CloseSender ==
    /\ open /\ open' = FALSE
    /\ UNCHANGED <<pending, sent, num_written, acked, peer_consumed, peer_window, ends,
                   receiverVars, upds>>

Next ==
    \/ \E n \in 1..ReadBuf : Produce(n)
    \/ Arrive
    \/ Consume
    \/ OnUpdate
    \/ CloseSender

Spec == Init /\ [][Next]_vars

(* KCP delivers what was sent while the link is up, and the receiving       *)
(* application keeps reading.                                               *)
FairSpec == Spec /\ WF_vars(Arrive) /\ WF_vars(Consume) /\ WF_vars(OnUpdate)

-----------------------------------------------------------------------------
UInt32 == 0..(Modulus - 1)

MaxWindow == IF InitWindow > StreamBuf THEN InitWindow ELSE StreamBuf

(* The state is well typed: the counters of SmuxStream are uint32, the      *)
(* window is one of the two the code can set.                               *)
TypeOK ==
    /\ open \in BOOLEAN
    /\ pending \in Nat /\ sent \in Nat /\ acked \in Nat
    /\ arrived \in Nat /\ consumed \in Nat
    /\ num_written \in UInt32 /\ peer_consumed \in UInt32
    /\ num_read \in UInt32 /\ incr \in UInt32
    /\ peer_window \in {InitWindow, StreamBuf}
    /\ ends \subseteq Nat /\ upds \subseteq Nat

(* What the receiver has to buffer, with what is on its way to it, stays    *)
(* within the larger of the initial and the configured window, although the *)
(* window may shrink with the first UPD and the counters wrap.              *)
BufferBounded == sent - consumed <= MaxWindow

(* available_peer_window computes, from wrapped counters, the window that   *)
(* is left: the sign test on inflight never hides a legal window.           *)
WindowExact ==
    AvailablePeerWindow(num_written, peer_consumed, peer_window) = peer_window - (sent - acked)

(* The sender never waits for an UPD that nobody will send: bytes are held  *)
(* back only while a frame or an UPD is under way or a payload waits for    *)
(* the application.  This is what the UPD for the very first payload is     *)
(* for: the initial window may be smaller than half of streambuf.           *)
NoStall == (open /\ pending > 0) => (consumed < sent \/ upds # {})

(* The inductive invariant behind the three properties above, by parts.     *)
CountersWrap ==
    /\ num_written = sent % Modulus
    /\ peer_consumed = acked % Modulus
    /\ num_read = consumed % Modulus

Positions ==
    /\ consumed <= arrived /\ arrived <= sent
    /\ \A e \in ends : e <= sent
    /\ sent > consumed => sent \in ends

\* The last UPD sent, delivered or not, stands at consumed - incr.
UpdatesInOrder ==
    /\ incr < Threshold /\ acked <= consumed - incr
    /\ \A u \in upds : acked < u /\ u <= consumed - incr
    /\ upds = {} => (~open \/ acked = consumed - incr)
    /\ upds # {} => consumed - incr \in upds

\* The window in force is InitWindow exactly until the first UPD arrives, and
\* the first payload consumed is answered by an UPD.
WindowInForce ==
    /\ peer_window = IF acked = 0 THEN InitWindow ELSE StreamBuf
    /\ (consumed > 0) => consumed - incr > 0

CreditKept ==
    /\ sent - acked <= MaxWindow
    /\ (open /\ pending > 0) => peer_window <= sent - acked

(* All of it together is kept by every step of Next, and implies TypeOK,    *)
(* BufferBounded, WindowExact and NoStall.                                  *)
IndInv ==
    /\ TypeOK /\ CountersWrap /\ Positions /\ UpdatesInOrder
    /\ WindowInForce /\ CreditKept

(* Everything the application handed over reaches the other application.    *)
AllConsumed == []<>(~open \/ consumed = sent + pending)
==============================================================================
