CONSTANTS
  j1 = j1
  j2 = j2
  u = u
  a = a
  b = b
  PushJobs <- MCPushJobs
  UpdateJobs = {u}
  Agents <- MCAgents
  Requests <- MCRequests
  Watched <- MCWatched
  QueueSize = 1
  WatchBuffer = 3
  MaxFaults = 1
SPECIFICATION Spec
INVARIANTS
  AuditTruthful
  UpdateCoversAll
PROPERTIES
  OverIsOver
  AckedEnds
  StreamEndsInTime
CHECK_DEADLOCK FALSE
