CONSTANTS
  w1 = w1
  w2 = w2
  reader = reader
  closer = closer
  k1 = k1
  NoThread = NoThread
  Crossers <- MCCrossers
  Controllers <- MCControllers
  Callbacks <- MCCallbacks
  MaxCrossings = 1
SPECIFICATION FairSpec
CHECK_DEADLOCK FALSE
INVARIANTS GateSafe
PROPERTIES ViewMonotone GateImplementsContract RevokeReturns CallbackRuns
