SPECIFICATION Spec
CONSTANTS
  n1 = n1
  n2 = n2
  a1 = a1
  a2 = a2
  c1 = c1
  c2 = c2
  c3 = c3
  Names <- MCNames
  Addresses <- MCAddresses
  Clients <- MCClients
  Flush = Flush
  Size <- MCSize
  MaxMemory = 4
  MaxOpen = 2
  PurgePercent = 50
  MaxMetrics = 2
  MaxStreams = 3
  MaxTime = 1
SYMMETRY Symmetry
INVARIANTS
  UsedMemoryKept
  CachedStreamsCurrent
  CachedTuplesBelong
