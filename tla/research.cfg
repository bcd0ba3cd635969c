SPECIFICATION Spec
CONSTANTS
  a = a
  b = b
  btc = btc
  dom = dom
  Universe <- MCUniverse
  Btc = btc
  Btcdom = dom
  Series <- MCSeries
  Width <- MCWidth
  Order <- MCOrder
  Absences <- MCAbsences
  FirstNow = 7
  MaxNow = 8
  BarMinutes = 2
  DayMinutes = 4
  StateWindow = 1
  BtcDailyLookback = 1
  BtcdomLookback = 1
  GridCycles = 1
  TrainCycles = 1
  TestCycles = 1
  LookbackMinutes = 6
  StepMinutes = 2
  PinnedEnd = 8
  Strict = FALSE
  MinActiveUniverse = 1
  BootstrapConcurrency = 2
  GridSettings <- MCGrid
  TakeProfit = 2
  NeighborStep = 1
  NeighborCount = 1
  Profiles <- MCProfiles
  Workers = 2
  Score <- MCScore
  TradedEnds <- MCTradedEnds
  MaxCommands = 2
  MaxFaults = 1
INVARIANTS
  TypeOK
  CacheHoldsClosedCandles
  PlanWhole
  WindowsApart
  SelectedIsBest
  PinnedRowsComparable
  RowsOwnExports
  SnapshotOutlivesWorkers
CHECK_DEADLOCK FALSE
