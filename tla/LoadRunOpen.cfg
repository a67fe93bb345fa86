\* Open model: two clients, one warmup op, deadlines and cancellation.
SPECIFICATION Spec
CONSTANTS
  NumOps = 4
  Queries <- AllQueries
  QueryOf <- OpenSchedule
  Bracketed <- Writes
  Staged <- StagedWrites
  Joined = {}
  Concurrency = 2
  OpenModel = TRUE
  WarmupOps = 1
  Budgeted = FALSE
  MayExpire = TRUE
  MayCancel = TRUE
  Faults = {}
INVARIANTS
  PoolConserved
  BracketExclusive
  SummaryIsComplete
PROPERTY
  RunReturns
\* Run returns, so the last state has no successor.
CHECK_DEADLOCK FALSE
