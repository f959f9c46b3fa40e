SPECIFICATION FairSpec
CONSTANTS
  a = a
  b = b
  Scenarios <- MCScenarios
  Ids <- MCIds
  NoId = NoId
  Owner <- MCOwner
  Counts <- MCCounts
  MaxReceivers = 2
  MaxRequests = 3
INVARIANTS
  NoLostWakeup
  NoReceiverOrphaned
PROPERTIES
  WokenByRequests
