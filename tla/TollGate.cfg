\* Five queries, everything may go wrong, the run may be interrupted.
SPECIFICATION Spec
CONSTANTS
  NumQueries = 5
  Writes <- AllWrites
  Needs <- QueryNeeds
  Offers <- EngineOffers
  Draws <- TwoDraws
  HasSetup <- Staged
  HasTeardown <- Bracketed
  Checked <- PostConditions
  Telling <- TellingChecks
  Referenced <- Oracled
  MayCancel = TRUE
  Faults = {"setup", "exec", "answer", "commit", "oracle", "check", "teardown"}
INVARIANTS
  ApprovedEarned
  ResidueIsReported
PROPERTY
  NothingAfterPoison
\* Run returns, so the last state has no successor.
CHECK_DEADLOCK FALSE
