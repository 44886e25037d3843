---------------------------- MODULE FrameChannel ----------------------------
(***************************************************************************)
(* What one direction of a smux session promises to the streams above it:   *)
(* frames come out whole, once each and in the order in which they went in, *)
(* until the receiving session gives up.  Smux takes this channel for       *)
(* granted (its variable net); Framing shows how the code provides it.      *)
(***************************************************************************)
EXTENDS Naturals, Sequences

CONSTANT Frames

VARIABLES
    sent,       \* frames given to send_frame
    received,   \* frames that reached the switch of consume_stream_bytes
    broken      \* the receiving session is closed

vars == <<sent, received, broken>>

Init == sent = <<>> /\ received = <<>> /\ broken = FALSE

Send ==
    /\ \E f \in Frames : sent' = Append(sent, f)
    /\ UNCHANGED <<received, broken>>

\* A delivery may complete several frames, and may end in an error.
Receive ==
    /\ ~broken
    /\ \E n \in Len(received)..Len(sent) : received' = SubSeq(sent, 1, n)
    /\ broken' \in BOOLEAN
    /\ UNCHANGED sent

Next == Send \/ Receive

Spec == Init /\ [][Next]_vars
=============================================================================
