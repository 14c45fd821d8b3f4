SPECIFICATION FileSpec
CONSTANTS
  Freq <- MCFreq
  Count <- MCCount
  Times <- MCTimes
  Values = {1}
  MaxUpdates = 4
  MaxFailures = 1
INVARIANTS
  FileLoads
  StampsSurviveReload
  CleanBlocksMatchFile
