----------------------------- MODULE MCPresence -----------------------------
(* One user with a socket on each of two gateways.  A Tick is 10 s, so the *)
(* four durations of the configuration are those of the code.              *)
EXTENDS Presence

CONSTANTS s1, s2, g1, g2

MCSession == {s1, s2}
MCGateway == {g1, g2}
MCHome == [s \in MCSession |-> IF s = s1 THEN g1 ELSE g2]

\* The race needs no failure: the run of TransitionsCorrect explores only
\* behaviours in which no call, publish or gateway fails.
NothingFailed == ~gap

=============================================================================
