SPECIFICATION Spec
CONSTANTS
  a = a
  b = b
  k = k
  Nobody = Nobody
  Ticker <- TwoTickers
  Label <- OneLabel
  Labelling <- Together
  Price <- FewPrices
  TakeProfitPct = 2
  StopLossPct = 2
  BreakEvenEnabled = TRUE
  BreakEvenPercent = 50
  RatchetEnabled = TRUE
  RatchetMaxSteps = 1
  MaxOpenPositions = 2
  MaxPerCluster = 1
  MaxDailyStopLosses = 0
  OperatorPause = FALSE
  MaxSize = 1
  MaxFaults = 0
PROPERTIES
  ClusterCapKept
CHECK_DEADLOCK TRUE
