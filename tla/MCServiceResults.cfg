CONSTANTS
  w1 = w1
  w2 = w2
  i1 = i1
  i2 = i2
  i3 = i3
  MaxCall = 4
  Workspaces = {w1}
  RequestIds = {i1, i2}
  RunningLimit = 1
  QueueLimit = 1
  TableLimit = 2
  OutstandingLimit = 3
  ControlLimit = 1
  DirectLimit = 1
  MaxEvents = 0
  SpawnMayFail = FALSE
  CloseSpawnMayFail = FALSE
  ChannelMayEnd = FALSE
  Shared = {}
  Requests <- ResultRequests
SPECIFICATION Spec
CHECK_DEADLOCK FALSE
INVARIANTS EvictedOnlyDelivered OneReply NothingForgotten
