SPECIFICATION Spec
CONSTANTS
  n1 = n1
  c1 = c1
  c2 = c2
  Names <- MCNames
  Clients <- MCClients
  Nobody = Nobody
  MaxMetrics = 2
  MaxUpdates = 0
  MaxCrashes = 0
SYMMETRY Symmetry
INVARIANT DropDeletesFiles
