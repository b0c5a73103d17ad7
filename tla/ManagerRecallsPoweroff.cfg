CONSTANTS
  c1 = c1
  c2 = c2
  Conn = {c1, c2}
  Grace = 2
  Retry = 1
  HardTimeout = 2
  NoDeadline = NoDeadline
  AcceptMayFail = TRUE
SPECIFICATION Spec
PROPERTY ShutsDownOnlyAtZero
\* The manager's process ends.
CHECK_DEADLOCK FALSE
