SPECIFICATION Spec
CONSTANTS
  m1 = m1
  m2 = m2
  Targets <- MCTargets
  KindChoices <- MCKindChoices
  ChangeSets <- MCChangeSets
  MaxDirty = 1
  NoMember = NoMember
  NoAct = NoAct
PROPERTY NoEditDiscarded
