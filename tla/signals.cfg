SPECIFICATION Spec
CONSTANTS
  a = a
  NoAlert = NoAlert
  Ticker <- MCTicker
  MaxRank = 3
  MaxScore = 2
  WatchlistTopN = 2
  EmergingTopN = 2
  EntryReadyTopN = 1
  EmergingMinObservations = 2
  EntryReadyMinObservations = 3
  EmergingMinRankImprovement = 1
  EntryReadyMinRankImprovement = 1
  EntryReadyMinCompositeGain = 2
  RegimeFilterEnabled = TRUE
  RegimeMinPassCount = 3
  MinWindow = 3
  EmergingCooldown = 3
  EntryReadyCooldown = 4
  MaxCycles = 7
  MaxBars = 2
INVARIANTS
  TypeOK
  KindEarned
  OneBarBehindAtMost
PROPERTIES
  AlertsAsSpecified
CHECK_DEADLOCK TRUE
