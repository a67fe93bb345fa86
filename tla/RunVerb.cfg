\* Two engines, every kind of command.
SPECIFICATION Spec
CONSTANTS
  NumEngines = 2
  NumQueries = 3
  Writes <- TheWrite
  Unbound <- NoPool
  FamilySize <- FamilySizes
  GenericSize <- GenericSizes
  Wanted <- SampleSizes
  Count <- Counts
  MixDraws = 3
  Reps = 2
  Dispatched <- SomeCounts
  Asked <- Commands
INVARIANTS
  BinderSameDraws
  ComparedBreadth
  EvenTiming
  ExitTellsAll
\* The command returns, so the last state has no successor.
CHECK_DEADLOCK FALSE
