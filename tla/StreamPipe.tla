----------------------------- MODULE StreamPipe -----------------------------
(***************************************************************************)
(* What a Shimakaze tunnel promises to the applications at its two ends:    *)
(* each direction of each stream is a pipe that hands over, in order, what  *)
(* was written into it, and announces the end of it only after the writer   *)
(* has ended and everything has been handed over.  Where something may fail *)
(* a pipe may end early, and what it has handed over by then is still the   *)
(* beginning of what was written.                                           *)
(***************************************************************************)
EXTENDS Naturals, Sequences

CONSTANTS Pipes, Bytes

VARIABLES
    written,    \* [Pipes -> Seq(Bytes)]: what the writing application has sent
    ended,      \* pipes whose writer has closed its sending side
    delivered,  \* [Pipes -> Seq(Bytes)]: what the reading application has got
    announced,  \* pipes whose end the reading application has been told
    mayFail     \* something in this tunnel may fail

vars == <<written, ended, delivered, announced, mayFail>>

Init ==
    /\ written = [p \in Pipes |-> <<>>] /\ delivered = [p \in Pipes |-> <<>>]
    /\ ended = {} /\ announced = {}
    /\ mayFail \in BOOLEAN

Write ==
    /\ \E p \in Pipes \ ended, b \in Bytes : written' = [written EXCEPT ![p] = Append(@, b)]
    /\ UNCHANGED <<ended, delivered, announced, mayFail>>

End ==
    /\ \E p \in Pipes \ ended : ended' = ended \cup {p}
    /\ UNCHANGED <<written, delivered, announced, mayFail>>

\* A step of the tunnel may concern many pipes: a session ends all of its own.
Deliver ==
    /\ \A p \in Pipes : \E n \in Len(delivered[p])..Len(written[p]) :
           delivered'[p] = SubSeq(written[p], 1, n)
    /\ DOMAIN delivered' = Pipes
    /\ announced \subseteq announced' /\ announced' \subseteq Pipes
    /\ \A p \in announced' \ announced :
           mayFail \/ (p \in ended /\ delivered'[p] = written[p])
    /\ UNCHANGED <<written, ended, mayFail>>

Next == Write \/ End \/ Deliver

Spec == Init /\ [][Next]_vars
=============================================================================
