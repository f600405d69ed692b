CONSTANTS
  Sessions = {s1, s2}
  MaxConnections = 2
  MaxSwitches = 1
  MaxCheckpoint = 3
SPECIFICATION Spec
INVARIANTS
  CommitIsIsolated
  PreshutdownIsHonoured
  ConnectedEventAgrees
PROPERTIES
  OnlyCondemnedDropped
  CheckpointsAdvance
  ServiceStops
  StaleAgentDropped
CHECK_DEADLOCK FALSE
