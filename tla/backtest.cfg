SPECIFICATION Spec
CONSTANTS
  a = a
  b = b
  k = k
  m = m
  Ticker <- MCTicker
  Labelling <- MCLabelling
  Price <- MCPrice
  Minutes = 5
  DayMinutes = 3
  Scale = 100
  StartingEquity = 40000
  RiskPct = 1
  MaxExposurePercent = 75
  FeeUnits = 1
  SlippageUnits = 1
  MaxOpenPositions = 2
  MaxPerCluster = 1
  MaxDailyStopLosses = 1
  StaleMinutes = 2
  PostExitBars = 3
  TakeProfitPct = 2
  StopLossPct = 2
  BreakEvenEnabled = TRUE
  BreakEvenPercent = 50
  RatchetEnabled = TRUE
  RatchetMaxSteps = 2
INVARIANTS
  TypeOK
  LedgerBalances
  ReasonTellsPrice
  LaterCandlesOnly
  NeverStale
  FollowedToTheBar
PROPERTIES
  EntriesWithinLimits
  ImplementsLifecycle
CHECK_DEADLOCK TRUE
