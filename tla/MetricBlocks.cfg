SPECIFICATION Spec
CONSTANTS
  Freq <- MCFreq
  Count <- MCCount
  Times <- MCTimes
  Values = {1, 3}
  Queries <- MCQueries
  MaxUpdates = 4
  MaxFailures = 0
INVARIANTS
  TypeOK
  RingOrder
  RollupExact
  RollupBounded
  SelectMissesNothing
  SelectShowsData
  SelectCountsOnce
PROPERTY
  KeepsRetained
