SPECIFICATION Spec
CONSTANTS
  a = a
  b = b
  k = k
  Nobody = Nobody
  Ticker <- TwoTickers
  Label <- OneLabel
  Labelling <- Together
  Price <- FewPrices
  TakeProfitPct = 2
  StopLossPct = 2
  BreakEvenEnabled = TRUE
  BreakEvenPercent = 50
  RatchetEnabled = FALSE
  RatchetMaxSteps = 1
  MaxOpenPositions = 1
  MaxPerCluster = 1
  MaxDailyStopLosses = 0
  OperatorPause = FALSE
  MaxSize = 1
  MaxFaults = 1
PROPERTIES
  ImplementsLifecycle
CHECK_DEADLOCK TRUE
