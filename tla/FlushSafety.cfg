SPECIFICATION Spec
CONSTANTS
  m1 = m1
  m2 = m2
  Metrics <- MCMetrics
  Absent = Absent
  NoMetric = NoMetric
  NumBlocks = 2
  SameLayout = TRUE
  MaxUpdates = 2
  MaxFaults = 2
  ApplyMayFail = TRUE
CHECK_DEADLOCK FALSE
SYMMETRY Symmetry
CONSTRAINT DamageBound
INVARIANTS
  TypeOK
  WriteAhead
  TornFilesCovered
  AckedReachable
  CleanStopKeepsAll
