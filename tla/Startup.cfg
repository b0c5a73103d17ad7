CONSTANTS
  v1 = v1
  v2 = v2
  Client = {v1, v2}
  NoFile = NoFile
  MaxStops = 3
  Faults <- AllThatFails
SPECIFICATION FairSpec
INVARIANTS TypeOK SerialStartsShareOneVm NoForgottenLock
PROPERTY LoneClientRecovers
\* Every process may have ended.
CHECK_DEADLOCK FALSE
