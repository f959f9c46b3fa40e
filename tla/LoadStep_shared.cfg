SPECIFICATION Spec
CONSTANTS
  Scenarios = {"a", "b"}
INVARIANTS
  RequestFound
