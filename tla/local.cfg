SPECIFICATION Spec
CONSTANTS
  a = a
  b = b
  k = k
  m = m
  Nobody = Nobody
  Ticker <- MCTicker
  Label <- MCLabel
  Labelling <- MCLabelling
  Price <- MCPrice
  Universe <- ShrinkingUniverse
  TakeProfitPct = 2
  StopLossPct = 2
  BreakEvenEnabled = TRUE
  BreakEvenPercent = 50
  RatchetEnabled = TRUE
  RatchetMaxSteps = 2
  MaxOpenPositions = 2
  MaxPerCluster = 1
  MaxDailyStopLosses = 1
  OperatorPause = FALSE
  StaleAfter = 1
  BarTicks = 1
  AnalyticsEnabled = TRUE
  MaxAborts = 1
INVARIANTS
  TypeOK
  LadderInv
  EventTellsTheStop
  LedgerComplete
PROPERTIES
  ClusterCapKept
  BreakerSlack
  ImplementsLifecycle
CHECK_DEADLOCK TRUE
