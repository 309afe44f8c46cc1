CONSTANTS
  j1 = j1
  j2 = j2
  c1 = c1
  c2 = c2
  p1 = p1
  p3 = p3
  t1 = t1
  t2 = t2
  s1 = s1
  s2 = s2
  s3 = s3
  i1 = i1
  m1 = m1
  r1 = r1
  r2 = r2
  r3 = r3
  n1 = n1
  n2 = n2
  n3 = n3
  ssh = ssh
  https = https
  h1 = h1
  small = small
  big = big
  Job = {j1, j2}
  Closer = {c1, c2}
  NoCount = NoCount
  Taker = {p1, p3}
  Token = {t1, t2}
  NoToken = NoToken
  TokenOf <- MCTokenOf
  Spelling = {s1, s2, s3}
  Identity <- MCIdentity
  NoIdentity = NoIdentity
  Member = {m1}
  Keying = "identity"
  NoKey = NoKey
  Nobody = Nobody
  MaxStrays = 1
  Receiver = {r1, r2, r3}
  SideOf <- MCSideOf
  LaneCapacity <- MCLaneCapacity
  MaxFrames = 2
  NoEnding = NoEnding
  Conn = {n1, n2, n3}
  Pool = {ssh, https}
  Remote = {h1}
  Request = {small, big}
  PoolOf <- MCPoolOf
  RemoteOf <- MCRemoteOf
  RequestOf <- MCRequestOf
  LimitOf <- MCLimitOf
  Base <- MCBase
  Capacity = 3
  MaxRecords = 7
SPECIFICATION MCSpec
CHECK_DEADLOCK FALSE
INVARIANTS
  ShutdownExact LocksSound NoDeafReceiver
  NoSleepingConnection LogSound
PROPERTIES
  ReleaseDropsAll CancelledWaitEnds HeldAnswered ChannelImplementsContract
