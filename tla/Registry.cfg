SPECIFICATION Spec
CONSTANTS
  n1 = n1
  c1 = c1
  c2 = c2
  Names <- MCNames
  Clients <- MCClients
  Nobody = Nobody
  MaxMetrics = 4
  MaxUpdates = 2
  MaxCrashes = 2
SYMMETRY Symmetry
CONSTRAINT RaceBound
INVARIANTS
  TypeOK
  MapMatchesFiles
  StartFailsOnlyAfterDrop
PROPERTY CreationReplacesNothing
