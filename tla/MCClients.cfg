SPECIFICATION FairSpec
CONSTANTS
  s1 = s1
  s2 = s2
  key = key
  k1 = k1
  NoKey = NoKey
  Stas <- MCStas
  NumVaps = 2
  KeyIds <- MCKeyIds
  EmptyKeyId = NoKey
  InitialKeyId = key
  MultiPsk = TRUE
  HAL_CB_QUEUE_MAX = 2
  MaxRaised = 2
  MaxChanges = 3
  MaxFailures = 1
INVARIANTS
  TypeOK
  ReportsMatchTree
  AccurateWhenQuiet
PROPERTY
  EventuallyAccurate
