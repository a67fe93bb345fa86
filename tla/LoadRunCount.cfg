\* Count mode: two clients, a budget, and every statement may fail at any time.
SPECIFICATION Spec
CONSTANTS
  NumOps = 4
  Queries <- AllQueries
  QueryOf <- CountSchedule
  Bracketed <- Writes
  Staged <- StagedWrites
  Joined <- JoinedWrites
  Concurrency = 2
  OpenModel = FALSE
  WarmupOps = 0
  Budgeted = TRUE
  MayExpire = FALSE
  MayCancel = FALSE
  Faults = {"setup", "exec", "teardown"}
INVARIANTS
  OwnRowsOnly
  EveryQueryMeasured
PROPERTY
  ImplementsAdmission
\* Run returns, so the last state has no successor.
CHECK_DEADLOCK FALSE
