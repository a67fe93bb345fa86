CONSTANTS
  None = None
  Second = 1000
  Valve = 500
  Questions <- FigureQuestions
  Width = 2
  Tol = 15
  Streak = 2
  MinBuckets = 3
  MinDuration = 9
  MinOps = 5
  Values = {0, 10, 11, 13}
  Gaps = {1, 3}
  MaxOps = 6
  Bits = 6
  Golden = 39
  Mixers <- SmallMixers
  Clock = 7
  Day = 4
  PairTries = 4
  RowClasses <- MatrixClasses
  RowNames <- MatrixNames
  Metrics <- MatrixMetrics
  Thousand = 100
SPECIFICATION AllSpec
INVARIANTS
  SummaryOfCompleted
  VerdictsAreFair
  ScheduleIsExact
  StableIsEarned
  OraclesAgree
  TextsAgree
  ComparisonIsFair
  DataAsPromised
  MatrixTellsAll
CHECK_DEADLOCK FALSE
