SPECIFICATION Spec
CONSTANTS
  a = a
  b = b
  Symbol <- MCSymbol
  Universe <- MCUniverse
  Window = 2
  FirstBars = 2
  MaxBar = 4
  MaxFaults = 1
  QueueSize = 1
INVARIANTS
  TypeOK
  NoHoles
PROPERTIES
  EventsFollowed
  ConfirmedClockForward
  HistoryHeals
CHECK_DEADLOCK FALSE
