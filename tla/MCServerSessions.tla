-------------------------- MODULE MCServerSessions --------------------------
(***************************************************************************)
(* The sessions of a server: the table of ServerSessions, in which sessions *)
(* end at any time, and in its instance Life the clocks that make one of them end.  *)
(* Neither looks into the other's state; a behaviour runs the part it       *)
(* starts with.                                                             *)
(***************************************************************************)
EXTENDS ServerSessions

CONSTANTS Keepalives, Timeout, Late, Lag, MaxRestarts, MaxTime

VARIABLES
    part,
    keepalive, now, running, last_activity, timer, sent, got, wire, linkUp,
    restarts, orphaned, strays, revivals

Life == INSTANCE SessionLife

ASSUME LifeConstants == Life!LifeAssumption

lifeVars == <<keepalive, now, running, last_activity, timer, sent, got, wire, linkUp,
              restarts, orphaned, strays, revivals>>

\* Two connections behind one endpoint; conversation ids differ.
SharedEndpoint == [c \in Clients |-> "endpoint"]
OwnConv == [c \in Clients |-> c]

Sends == [kind \in Kind |-> IF kind = "data" THEN 2 ELSE 1]

\* Intervals that fit into smux_timeout, and one that does not.
SomeKeepalives == {[client |-> 2, server |-> 2], [client |-> 2, server |-> 6]}

MCInit ==
    /\ Init /\ Life!Init
    /\ \/ part = "table" /\ keepalive = [client |-> 2, server |-> 2]
       \/ part = "life"

MCNext ==
    \/ part = "table" /\ Next /\ UNCHANGED <<part, lifeVars>>
    \/ part = "life" /\ Life!Next /\ UNCHANGED <<part, vars>>

MCSpec == MCInit /\ [][MCNext]_<<part, vars, lifeVars>> /\ Fairness

HealthyStaysOpen == Life!HealthyStaysOpen
SilenceBounded == Life!SilenceBounded
OrphanStarves == Life!OrphanStarves
=============================================================================
