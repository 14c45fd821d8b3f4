SPECIFICATION Spec
CONSTANTS
  u1 = u1
  u2 = u2
  q1 = q1
  w1 = w1
  w2 = w2
  Udp = Udp
  Tcp = Tcp
  Requests <- MCRequests
  Via <- MCVia
  Workers <- MCWorkers
  PoolOf <- MCPoolOf
INVARIANTS
  StoppedIsSaved
  LastFlushAlone
  PoolsInUse
  CountersExact
PROPERTIES
  EventuallyServed
  StopEnds
