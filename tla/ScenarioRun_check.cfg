SPECIFICATION FairSpec
CONSTANTS
  Steps = 4
  Cleanups = 2
  Hooks = {"mobile", "other"}
  Depends <- MCDepends
  Attempts <- MCAttempts
  Paused <- MCPaused
  Hanging <- MCHanging
  Timeout = TRUE
  Detached = TRUE
INVARIANTS
  StopsAtFirstFailure
  DependenciesHaveResults
  HooksAreLifo
  TeardownIsWhole
PROPERTIES
  RetriesExhausted
  Terminates
