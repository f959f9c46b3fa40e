SPECIFICATION TestFairSpec
CONSTANTS
  Scenarios = {a, b, c}
  Parallel = 2
  Hanging = {a}
  Timeout = TRUE
  Detached = TRUE
  TeardownSteps = 2
  Closers = {"sql"}
  Verbose = TRUE
  NoError = NoError
INVARIANTS
  
  StalledComplete
  
PROPERTIES
  RefinesContract
  Ends
