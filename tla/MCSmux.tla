------------------------------- MODULE MCSmux -------------------------------
(* Scenarios of Smux for TLC. *)
EXTENDS Smux

Versions(client, server) == [s \in Side |-> IF s = "client" THEN client ELSE server]

\* The bytes the application of each end sends.
Data(up, down) == [s \in Side |-> IF s = "client" THEN up ELSE down]

\* One stream, TCP at both ends, --quiet, nothing fails.
Plain(version, dataLen) ==
    [version |-> version, quiet |-> TRUE, unixSockets |-> FALSE, streams |-> 1,
     dataLen |-> dataLen, targetMayFail |-> FALSE, appMayFail |-> FALSE,
     linkMayFail |-> FALSE]

AllFails(scenario) ==
    [scenario EXCEPT !.targetMayFail = TRUE, !.appMayFail = TRUE, !.linkMayFail = TRUE]

V1 == Versions(1, 1)
V2 == Versions(2, 2)

\* Streams that only their ends, a lost link or unequal versions bring down.
QuietScenarios ==
    { Plain(V1, Data(2, 2)),
      [Plain(V1, Data(2, 1)) EXCEPT !.unixSockets = TRUE, !.linkMayFail = TRUE],
      Plain(Versions(1, 2), Data(1, 1)),
      [Plain(Versions(2, 1), Data(1, 0)) EXCEPT !.linkMayFail = TRUE] }

\* Everything may fail at any time, in both versions; two streams; v2 in both directions.
RoughScenarios ==
    { [AllFails(Plain(V1, Data(2, 1))) EXCEPT !.quiet = FALSE],
      [Plain(V1, Data(1, 0)) EXCEPT !.streams = 2],
      AllFails(Plain(V2, Data(2, 0))),
      Plain(V2, Data(2, 2)) }

V2Upload == {Plain(V2, Data(3, 0))}

V1Logging == {[Plain(V1, Data(1, 1)) EXCEPT !.quiet = FALSE, !.appMayFail = TRUE]}
=============================================================================
