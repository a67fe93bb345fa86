\* An engine with no fault of its own, and an interruption.
SPECIFICATION Spec
CONSTANTS
  NumQueries = 5
  Writes <- AllWrites
  Needs <- QueryNeeds
  Offers <- EngineOffers
  Draws <- TwoDraws
  HasSetup <- Staged
  HasTeardown <- Bracketed
  Checked <- PostConditions
  Telling <- TellingChecks
  Referenced <- Oracled
  MayCancel = TRUE
  Faults = {}
INVARIANT
  FailBlamesEngine
\* Run returns, so the last state has no successor.
CHECK_DEADLOCK FALSE
