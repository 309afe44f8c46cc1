SPECIFICATION MCSpec
CONSTANTS
  m1 = m1
  m2 = m2
  Targets <- MCTargets
  KindChoices <- MCKindChoices
  ChangeSets <- MCChangeSets
  MaxDirty = 1
  NoMember = NoMember
  NoAct = NoAct
  w0 = w0
  w1 = w1
  w2 = w2
  p1 = p1
  p2 = p2
  Workspace = {w0, w1, w2}
  Original = {w0}
  Process = {p1, p2}
  Id = {1, 2, 3, 4, 5, 6, 7, 8, 9, 10}
  MaxCommands = 3
  Nobody = Nobody
  NoId = NoId
INVARIANTS
  RecordAccountsForRepos
  NoResidue
  RecoveryReopens
  FamilySound
  SourceStands
PROPERTIES
  ResolutionKept
  InvocationEnds
  MergeImplementsContract
