SPECIFICATION FairSpec
CONSTANTS
  Concurrency = 3
  Requests = 4
  MaxSamples = 4
INVARIANTS
  NoPartialSuccess
  CutIsBounded
PROPERTIES
  RunEnds
