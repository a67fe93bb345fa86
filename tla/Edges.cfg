\* Three callers, two texts; the modules fix what only one part needs.
SPECIFICATION EdgesSpec
CONSTANTS
  Callers = {c1, c2, c3}
  MaxLoads = 1
  Texts = {q1, q2}
  Calls <- TwoCallers
  LbTexts <- OneText
  NumRows = 4
  Capacity = 2
  Stores = {"neo4j", "memgraph", "mongo", "postgres", "sqlite", "duckdb"}
  Datasets <- TwoDatasets
  MaxBulk = 3
  Processes <- TwoCallers
  Recipes = {"grid", "er"}
  Custom = {"own"}
  Files <- ThreeFiles
  Engines <- TwoEngines
  Keys = {"khop", "sp"}
  None = None
  Torn = Torn
  MaxCalls = 3
  MaxFaults = 1
  MaxFetches = 3
  MaxCrashes = 1
  MaxRuns = 2
  MaxKills = 1
INVARIANTS
  NothingLost
  TxKeepsItsConn
  NothingLeftOpen
  LoadsAreWhole
  ToldCommitted
  CacheIsSound
PROPERTIES
  LendsSafely
  SessionsAsPromised
  GoroutinesEnd
  NeverReplaced
  CacheIsThePin
  SharedFilesSurvive
\* A closed session takes no call, and the calls are bounded.
CHECK_DEADLOCK FALSE
