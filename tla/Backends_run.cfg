SPECIFICATION MCSpec
CONSTANTS
  Steps <- MCSteps
  Modes = {"none", "steps"}
  Attempts = 2
  MaxPolls = 3
  Procs = {p1, p2, p3}
  MaxFailures = 2
  Versions = {v1, v2}
  MaxLives = 3
  Forms <- MCForms
  CaptureModes = {"none", "failures", "steps", "actions"}
  Requests = {q1, q2, q3}
  Limit = 2
  MaxPending = 2
  MaxEvents = 6
  MaxStarts = 2
INVARIANTS
  VerdictIsTrue
  DeadDriverIsNotHidden
  
  MarkersTellTheTruth
  RetryIsFresh
  BuildsAreAccountedFor
  AnsweredByOurs
  NothingLeftBehind
  BlameIsTrue
  EvidenceIsRecent
PROPERTIES
  AllSettle
