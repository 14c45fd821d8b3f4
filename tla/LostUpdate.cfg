SPECIFICATION Spec
CONSTANTS
  m1 = m1
  m2 = m2
  Metrics <- MCMetrics
  Absent = Absent
  NoMetric = NoMetric
  NumBlocks = 2
  SameLayout = FALSE
  MaxUpdates = 2
  MaxFaults = 0
  ApplyMayFail = FALSE
CHECK_DEADLOCK FALSE
SYMMETRY Symmetry
INVARIANT NeverLoseAcked
