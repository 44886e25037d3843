----------------------------- MODULE SessionLife -----------------------------
(***************************************************************************)
(* The life of one idle session over time (SmuxSession of smux.cpp on       *)
(* KcpTransport): how the two ends keep each other alive with NOP frames,   *)
(* how they learn that the other is gone, and what a client goes through    *)
(* whose server loses the session, by a restart or by closing it.  The      *)
(* server makes a new one from whatever datagram of the client comes next,  *)
(* with a KCP that starts at 0 while the client's goes on.                  *)
(*                                                                         *)
(* KCP is external.  It numbers what is sent, repeats it until it is        *)
(* acknowledged, acknowledges whatever arrives, and hands bytes to the      *)
(* reader only as far as no number is missing.  Frames of streams are left  *)
(* out: they refresh last_activity_ just as NOPs do.                        *)
(***************************************************************************)
EXTENDS Integers, FiniteSets

CONSTANTS
    Keepalives,    \* configurations: [Ends -> Nat], keepalive of each end
    Timeout,       \* smux_timeout (30 seconds in the code)
    Late,          \* bound: how late a timer fires
    Lag,           \* bound: until a segment is acknowledged on a path that works
    MaxRestarts,   \* bound: restarts of the server
    MaxTime        \* bound: the clock

VARIABLES
    keepalive,          \* the configuration of this session
    now,                \* steady_clock
    running,            \* [Ends -> BOOLEAN]: is there a session that is not closed?
    last_activity,      \* [Ends -> Nat]
    timer,              \* [Ends -> Nat]: when keepalive_timer_ expires
    sent,               \* [Ends -> Nat]: KCP's snd_nxt
    got,                \* [Ends -> SUBSET Nat]: segments KCP has received
    wire,               \* [Ends -> sets of segments]: not acknowledged, or on their way
    linkUp,             \* does the path carry datagrams?
    restarts,           \* restarts so far
    orphaned,           \* has the server lost what the client will not send again?
    strays,             \* segments of the server under way when that happened
    revivals            \* how often the client has heard anything since

netVars == <<wire, linkUp>>
historyVars == <<restarts, orphaned, strays, revivals>>
vars == <<keepalive, now, running, last_activity, timer, sent, got, netVars, historyVars>>

Ends == {"client", "server"}

\* What the constants must be.  A module that instantiates this one states it as
\* an assumption.
LifeAssumption ==
    /\ Keepalives \subseteq [Ends -> Nat]
    /\ Timeout \in Nat /\ Late \in Nat /\ Lag \in Nat
    /\ MaxRestarts \in Nat /\ MaxTime \in Nat

Peer(e) == CHOOSE p \in Ends : p # e

Segment(sn) == [sn |-> sn, at |-> now]
NoTimer == -1

\* start_keepalive_timer.
TimerSet(e) == now + (IF keepalive[e] > 0 THEN keepalive[e] ELSE 1)

\* How far KCP can hand on what it has received.
Delivered(segments) == CHOOSE n \in 0..Cardinality(segments) :
                          n \notin segments /\ 0..(n - 1) \subseteq segments

\* Mutation: whatever arrives counts as a sign of life.
HearsAnything(segments, sn) == TRUE

\* Does segment sn bring the reader anything?  on_transport_bytes is called for
\* no other.
Hears(segments, sn) == Delivered(segments \cup {sn}) > Delivered(segments)

-----------------------------------------------------------------------------
\* handle_packet creates transport and session.
CreateServer ==
    /\ running' = [running EXCEPT !["server"] = TRUE]
    /\ timer' = [timer EXCEPT !["server"] = TimerSet("server")]
    /\ sent' = [sent EXCEPT !["server"] = 0]

\* Segment d of its peer reaches end e, which acknowledges it; the
\* acknowledgement may be lost.  Whatever reaches a server that has no session
\* of this conversation, acknowledgements included, makes one.
Arrive(e, d, acknowledged) ==
    LET made == ~running["server"] /\ (e = "server" \/ acknowledged)
        known(p) == IF made /\ p = "server" THEN {} ELSE got[p]
        hears == Hears(known(e), d.sn)
    IN  /\ linkUp /\ d \in wire[Peer(e)]
        /\ e = "client" => running[e]
        /\ got' = [p \in Ends |-> known(p) \cup (IF p = e THEN {d.sn} ELSE {})]
        /\ last_activity' = [p \in Ends |->
              IF (p = e /\ hears) \/ (p = "server" /\ made) THEN now ELSE last_activity[p]]
        /\ revivals' = IF e = "client" /\ orphaned /\ hears THEN revivals + 1 ELSE revivals
        /\ wire' = IF acknowledged THEN [wire EXCEPT ![Peer(e)] = @ \ {d}] ELSE wire
        /\ IF made THEN CreateServer ELSE UNCHANGED <<running, timer, sent>>
        /\ UNCHANGED <<keepalive, now, linkUp, restarts, orphaned, strays>>

\* A frame goes to KCP, which sends it at once.
SendFrame(e) ==
    /\ wire' = [wire EXCEPT ![e] = @ \cup {Segment(sent[e])}]
    /\ sent' = [sent EXCEPT ![e] = @ + 1]

\* The session of end e is gone.  A client of which the server had acknowledged
\* something will not send that again.
Loses(e) ==
    IF e = "server" /\ ~orphaned /\ (\A d \in wire["client"] : d.sn # 0)
    THEN orphaned' = TRUE /\ strays' = Cardinality(wire["server"])
    ELSE UNCHANGED <<orphaned, strays>>

\* Mutation: the tick sends nothing.
KeepaliveTickSilent(e) ==
    /\ running[e] /\ timer[e] <= now
    /\ running' = [running EXCEPT ![e] = now - last_activity[e] <= Timeout]
    /\ timer' = [timer EXCEPT ![e] = TimerSet(e)]
    /\ UNCHANGED <<keepalive, now, last_activity, sent, got, netVars, historyVars>>

\* Mutation: the timer is not set again.
KeepaliveTickOnce(e) ==
    /\ running[e] /\ timer[e] # NoTimer /\ timer[e] <= now
    /\ SendFrame(e)
    /\ timer' = [timer EXCEPT ![e] = NoTimer]
    /\ running' = [running EXCEPT ![e] = now - last_activity[e] <= Timeout]
    /\ UNCHANGED <<keepalive, now, last_activity, got, linkUp, historyVars>>

\* keepalive_tick: the NOP goes out first, also from a session that then closes.
KeepaliveTick(e) ==
    /\ running[e] /\ timer[e] <= now
    /\ SendFrame(e)
    /\ \/ /\ now - last_activity[e] > Timeout
          /\ running' = [running EXCEPT ![e] = FALSE]
          /\ Loses(e)
          /\ UNCHANGED timer
       \/ /\ now - last_activity[e] <= Timeout
          /\ timer' = [timer EXCEPT ![e] = TimerSet(e)]
          /\ UNCHANGED <<running, orphaned, strays>>
    /\ UNCHANGED <<keepalive, now, last_activity, got, linkUp, restarts, revivals>>

-----------------------------------------------------------------------------
\* The server process is started again, without a word to its clients.
Restart ==
    /\ restarts < MaxRestarts /\ running["server"]
    /\ restarts' = restarts + 1
    /\ running' = [running EXCEPT !["server"] = FALSE]
    /\ Loses("server")
    /\ UNCHANGED <<keepalive, now, last_activity, timer, sent, got, netVars, revivals>>

LinkDown ==
    /\ linkUp /\ linkUp' = FALSE
    /\ UNCHANGED <<keepalive, now, running, last_activity, timer, sent, got, wire, historyVars>>

\* The update timer of a running session repeats its segments until the other
\* end has them, which it will if there is one.
InTime(e) ==
    running[e] /\ linkUp /\ (e = "client" \/ running["client"])
        => \A d \in wire[e] : now - d.at < Lag

Tick ==
    /\ now < MaxTime
    /\ \A e \in Ends : running[e] /\ timer[e] # NoTimer => now < timer[e] + Late
    /\ \A e \in Ends : InTime(e)
    /\ now' = now + 1
    /\ wire' = [e \in Ends |-> {d \in wire[e] : running[e] \/ now - d.at < Lag}]
    /\ UNCHANGED <<keepalive, running, last_activity, timer, sent, got, linkUp, historyVars>>

\* The client's session has just been made and its first stream opened.
Init ==
    /\ keepalive \in Keepalives
    /\ now = 0
    /\ running = [e \in Ends |-> e = "client"]
    /\ last_activity = [e \in Ends |-> 0]
    /\ timer = [e \in Ends |-> TimerSet(e)]
    /\ sent = [client |-> 1, server |-> 0]
    /\ got = [e \in Ends |-> {}]
    /\ wire = [client |-> {Segment(0)}, server |-> {}]
    /\ linkUp = TRUE
    /\ restarts = 0 /\ orphaned = FALSE /\ strays = 0 /\ revivals = 0

Next ==
    \/ \E e \in Ends, acknowledged \in BOOLEAN :
          \E d \in wire[Peer(e)] : Arrive(e, d, acknowledged)
    \/ \E e \in Ends : KeepaliveTick(e)
    \/ Restart \/ LinkDown \/ Tick

Spec == Init /\ [][Next]_vars

-----------------------------------------------------------------------------
Interval(e) == IF keepalive[e] > 0 THEN keepalive[e] ELSE 1

(* While the path works and the server is not restarted, no end gives a    *)
(* session up that has nothing to say, provided that both keepalive         *)
(* intervals leave room within smux_timeout for a late timer and, because   *)
(* the server's first NOP waits for the client's first datagram, for the    *)
(* way there and back.  Nothing in validate_common_config demands that.     *)
HealthyStaysOpen ==
    (/\ linkUp /\ restarts = 0
     /\ \A e \in Ends : Interval(e) + Late + 2 * Lag <= Timeout)
    => running["client"] /\ (running["server"] \/ now <= Lag)

(* Whatever happens to peer and path, no session lives on without having    *)
(* heard anything for longer than smux_timeout and one tick.                *)
SilenceBounded ==
    \A e \in Ends : running[e] => now - last_activity[e] <= Timeout + Interval(e) + Late

(* A client whose server has lost the session is not kept alive by the      *)
(* sessions the server makes of its datagrams: these never hear it, send    *)
(* their NOPs with numbers it has seen, and close, so that it hears no more *)
(* than what was under way and the NOPs of one such session.                *)
OrphanStarves ==
    revivals <= strays + Timeout \div Interval("server") + 1
=============================================================================
