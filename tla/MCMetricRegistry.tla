-------------------------- MODULE MCMetricRegistry --------------------------
(* One name, contended by two clients and the flush thread.                  *)
EXTENDS MetricRegistry, TLC

CONSTANTS n1, c1, c2
MCNames == {n1}
MCClients == {c1, c2}
Symmetry == Permutations(MCClients)

(* Bound: what follows a race, which most properties say nothing about, is   *)
(* searched until a third metric is made.                                    *)
RaceBound == made <= 2 \/ \A n \in Names : ~raced[n]
=============================================================================
