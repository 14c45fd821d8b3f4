--------------------------- MODULE MCFlushJournal ---------------------------
(* Two metrics of two blocks.                                                *)
EXTENDS FlushJournal, TLC

CONSTANTS m1, m2
MCMetrics == {m1, m2}
Symmetry == Permutations(MCMetrics)

(* Bound: when the faults are used up, what follows the damage of a file, or *)
(* a loss in every metric, is not searched: most properties except it.       *)
DamageBound == faults < MaxFaults \/ (spoilt = {} /\ \E m \in Metrics : ~lossy[m])
=============================================================================
