CONSTANTS
  v1 = v1
  v2 = v2
  Client = {v1, v2}
  Manager = {1, 2}
  NoFile = NoFile
  Empty = Empty
  Garbled = Garbled
  Progress = Progress
  NoIp = NoIp
  Old = Old
  MaxIds = 1
  MaxStops = 1
  SshRetries = 2
SPECIFICATION FairSpec
INVARIANTS TypeOK OneIdentity NoStaleAddress PublishedStays
PROPERTIES WaiterGetsAddress ErrorEndsAWait
\* Every process may have ended.
CHECK_DEADLOCK FALSE
