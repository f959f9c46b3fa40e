SPECIFICATION Spec
CONSTANT Trees <- MCTrees
CHECK_DEADLOCK FALSE
INVARIANTS
  StepsRunInFileOrder
  
  
  AcceptedStepsLower
  NoVacuousExpectation
