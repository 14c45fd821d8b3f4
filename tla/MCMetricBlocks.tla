--------------------------- MODULE MCMetricBlocks ---------------------------
(* Three blocks of 1, 2 and 4 seconds a tuple: small enough that updates     *)
(* advance, restart and miss every one of them; statements that reach all of *)
(* them, in groups of less and of more than a tuple.                         *)
EXTENDS SelectWalker

MCFreq == <<1, 2, 4>>
MCCount == <<3, 2, 2>>
MCTimes == {0, 1, 3, 6, 7, 8, 9, 10, 12}
MCQueries == {[from |-> 4, to |-> 13, group |-> g] : g \in {0, 3, 12}}
=============================================================================
