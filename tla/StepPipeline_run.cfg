SPECIFICATION Spec
CONSTANTS
  Main = "main"
  Teardown = "teardown"
  Keywords <- MCKeywords
  Plan <- MCPlan
  Outputs <- MCOutputs
  StepNames <- MCStepNames
INVARIANTS
  ResultsAreOfPasses
  SeedScopeIsCallPath
  ReportTellsTheAttempt
