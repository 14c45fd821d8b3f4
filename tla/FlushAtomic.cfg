SPECIFICATION FairSpec
CONSTANTS
  m1 = m1
  m2 = m2
  Metrics = {m1}
  Absent = Absent
  NoMetric = NoMetric
  NumBlocks = 2
  SameLayout = TRUE
  MaxUpdates = 2
  MaxFaults = 2
  ApplyMayFail = TRUE
CHECK_DEADLOCK FALSE
PROPERTIES
  FlushIsAtomic
  DurableStaysDurable
  EventuallyDurable
