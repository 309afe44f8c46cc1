CONSTANTS
  w1 = w1
  w2 = w2
  i1 = i1
  i2 = i2
  i3 = i3
  MaxCall = 2
  Workspaces = {w1}
  RequestIds = {i1, i2}
  RunningLimit = 2
  QueueLimit = 2
  TableLimit = 4
  OutstandingLimit = 3
  ControlLimit = 1
  DirectLimit = 1
  MaxEvents = 0
  SpawnMayFail = FALSE
  CloseSpawnMayFail = TRUE
  ChannelMayEnd = FALSE
  Shared = {}
  Requests <- InlineRequests
SPECIFICATION FairSpec
CHECK_DEADLOCK FALSE
PROPERTIES CloseCompletes
