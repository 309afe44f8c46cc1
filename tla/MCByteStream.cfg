CONSTANTS
  x = x
  y = y
  Senders = {s1, s2}
  Closers = {c1}
  Reader = reader
  NoFrame = NoFrame
  Keys <- MCKeys
  MaxSends = 2
  MaxFrames = 1
SPECIFICATION FairSpec
CHECK_DEADLOCK FALSE
INVARIANTS WireSound NoSleepingTurn ToldOnceAfterLastRoute WriterReleased
PROPERTIES SendReturns EndIsTold
