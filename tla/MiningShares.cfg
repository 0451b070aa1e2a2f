SPECIFICATION MCSpec
CONSTANTS
  NumComputors = 5
  PacketBytes = 8
  Cycle = 10
  Offset = 2
  Reports <- MCReports
  FirstTick = 6
  LastTick = 12
  MaxEvents = 6
INVARIANTS TotalsAreWhatOthersReported EventsAccounted
CHECK_DEADLOCK FALSE
