\* One client, a stream that fails after Exec returned.
SPECIFICATION Spec
CONSTANTS
  NumOps = 3
  Queries <- AllQueries
  QueryOf <- ShortSchedule
  Bracketed <- Writes
  Staged <- StagedWrites
  Joined <- JoinedWrites
  Concurrency = 1
  OpenModel = FALSE
  WarmupOps = 0
  Budgeted = FALSE
  MayExpire = FALSE
  MayCancel = FALSE
  Faults = {"stream"}
INVARIANT
  SampledOkCompleted
\* Run returns, so the last state has no successor.
CHECK_DEADLOCK FALSE
