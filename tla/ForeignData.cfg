SPECIFICATION Spec
CONSTANTS
  m1 = m1
  m2 = m2
  Metrics <- MCMetrics
  Absent = Absent
  NoMetric = NoMetric
  NumBlocks = 1
  SameLayout = TRUE
  MaxUpdates = 2
  MaxFaults = 1
  ApplyMayFail = FALSE
CHECK_DEADLOCK FALSE
SYMMETRY Symmetry
INVARIANT NoForeignData
