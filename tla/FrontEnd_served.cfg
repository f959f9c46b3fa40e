SPECIFICATION Spec
CONSTANT Trees <- DocumentedTrees
CHECK_DEADLOCK FALSE
INVARIANTS
  AcceptedMeansServed
