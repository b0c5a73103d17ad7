CONSTANTS
  MaxPoweroffs = 2
  PipeRoom = 2
SPECIFICATION Spec
INVARIANTS TypeOK CommandsReachShell EarlyReportIsHeard
PROPERTY RunReturns
CHECK_DEADLOCK FALSE
