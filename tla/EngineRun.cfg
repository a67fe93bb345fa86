\* Every kind of run over one staged write and one read, everything may go wrong.
SPECIFICATION Spec
CONSTANTS
  NumQueries = 2
  Writes <- TheWrite
  Needs <- QueryNeeds
  Offers <- EngineOffers
  Draws <- OneDraw
  HasSetup <- TheWrite
  HasTeardown <- TheWrite
  Checked <- TheWrite
  Telling <- TheWrite
  Referenced <- NoQuery
  MayCancel = TRUE
  Faults = {"setup", "exec", "answer", "commit", "oracle", "check", "teardown"}
  Runs <- AnyRun
  Trouble = {"dataset", "tempdir", "docker", "start", "load", "close", "analytics", "warm"}
INVARIANTS
  AllReleased
  SessionHasGround
  SizedAfterShutdown
PROPERTIES
  MeasuredAfterCleanVerification
  RunReturns
\* The run returns, so the last state has no successor.
CHECK_DEADLOCK FALSE
