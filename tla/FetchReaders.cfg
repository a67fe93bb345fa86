\* Two processes fetch one pin.
SPECIFICATION PinAlone
CONSTANTS
  Callers = {c1, c2, c3}
  MaxLoads = 1
  Texts = {q1, q2}
  Calls <- TwoCallers
  LbTexts <- OneText
  NumRows = 4
  Capacity = 2
  Stores = {"neo4j", "memgraph", "mongo", "postgres", "sqlite", "duckdb"}
  Datasets <- TwoDatasets
  MaxBulk = 3
  Processes <- TwoCallers
  Recipes = {"grid", "er"}
  Custom = {"own"}
  Files <- ThreeFiles
  Engines <- TwoEngines
  Keys = {"khop", "sp"}
  None = None
  Torn = Torn
  MaxCalls = 3
  MaxFaults = 1
  MaxFetches = 3
  MaxCrashes = 1
  MaxRuns = 2
  MaxKills = 1
INVARIANT ReadersKeepTheirs
CHECK_DEADLOCK FALSE
