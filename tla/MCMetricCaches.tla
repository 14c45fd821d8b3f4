--------------------------- MODULE MCMetricCaches ---------------------------
(* Two names, of blocks that do not both fit into the tuples cache.          *)
EXTENDS MetricCaches, TLC

CONSTANTS n1, n2, a1, a2, c1, c2, c3
MCNames == {n1, n2}
MCSize == n1 :> 2 @@ n2 :> 3
MCAddresses == {a1, a2}
MCClients == {c1, c2, c3}
Symmetry == Permutations(MCAddresses) \cup Permutations(MCClients)
=============================================================================
