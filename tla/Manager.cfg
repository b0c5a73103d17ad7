CONSTANTS
  c1 = c1
  c2 = c2
  c3 = c3
  Conn = {c1, c2, c3}
  Grace = 2
  Retry = 1
  HardTimeout = 2
  NoDeadline = NoDeadline
  AcceptMayFail = TRUE
SPECIFICATION FairSpec
INVARIANTS TypeOK RefCountExact IInv
PROPERTIES PoweroffAfterGrace ForcedExitIsLastResort ImplementsLease
PROPERTIES AbandonedManagerEnds StoppedGuestEndsManager
\* The manager's process ends.
CHECK_DEADLOCK FALSE
