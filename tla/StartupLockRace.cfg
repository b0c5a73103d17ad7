CONSTANTS
  v1 = v1
  v2 = v2
  Client = {v1, v2}
  NoFile = NoFile
  MaxStops = 0
  Faults = {"lockGap"}
SPECIFICATION Spec
INVARIANT AtMostOneVm
\* Every process may have ended.
CHECK_DEADLOCK FALSE
