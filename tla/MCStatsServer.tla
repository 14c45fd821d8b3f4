--------------------------- MODULE MCStatsServer ----------------------------
(* Two UDP requests and one TCP request, for pools of one worker each.     *)
EXTENDS StatsServer

CONSTANTS u1, u2, q1, w1, w2
MCRequests == {u1, u2, q1}
MCVia == [r \in MCRequests |-> IF r = q1 THEN Tcp ELSE Udp]
MCWorkers == {w1, w2}
MCPoolOf == [w \in MCWorkers |-> IF w = w2 THEN Tcp ELSE Udp]
=============================================================================
