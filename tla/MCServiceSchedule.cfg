CONSTANTS
  w1 = w1
  w2 = w2
  i1 = i1
  i2 = i2
  i3 = i3
  MaxCall = 3
  Workspaces = {w1, w2}
  RequestIds = {i1, i2, i3}
  RunningLimit = 2
  QueueLimit = 2
  TableLimit = 4
  OutstandingLimit = 3
  ControlLimit = 1
  DirectLimit = 1
  MaxEvents = 0
  SpawnMayFail = TRUE
  CloseSpawnMayFail = FALSE
  ChannelMayEnd = FALSE
  Shared = {}
  Requests <- ScheduleRequests
SPECIFICATION Spec
CHECK_DEADLOCK FALSE
INVARIANTS ClassExclusion NoMissedStart
PROPERTIES QueueOrder
