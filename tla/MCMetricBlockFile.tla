------------------------- MODULE MCMetricBlockFile -------------------------
(* Two blocks; the last one has three tuples, so that its position can be    *)
(* below, at and above the highest slot saved.                               *)
EXTENDS MetricBlockFile

MCFreq == <<1, 2>>
MCCount == <<2, 3>>
MCTimes == {0, 2, 3, 4, 6, 8, 9}
=============================================================================
