SPECIFICATION FairSpec
CONSTANTS
  a = a
  b = b
  k = k
  Nobody = Nobody
  Ticker <- OneTicker
  Label <- OneLabel
  Labelling <- Together
  Price <- MCPrice
  TakeProfitPct = 2
  StopLossPct = 2
  BreakEvenEnabled = TRUE
  BreakEvenPercent = 50
  RatchetEnabled = TRUE
  RatchetMaxSteps = 1
  MaxOpenPositions = 1
  MaxPerCluster = 1
  MaxDailyStopLosses = 0
  OperatorPause = FALSE
  MaxSize = 2
  MaxFaults = 2
INVARIANTS
  TypeOK
  VenueStopTight
  ClosedFromOwnRecord
  UntrackedIsStray
  SoldAgainAfterFailure
PROPERTIES
  ClosedIsSynced
CHECK_DEADLOCK TRUE
