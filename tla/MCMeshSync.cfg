SPECIFICATION FairSpec
CONSTANTS
  SyncExtHomeAcls = TRUE
  MaxInbox = 2
  MaxChanges = 2
  MaxOutages = 1
  MaxFailures = 1
INVARIANTS
  ConnectedOrTrying
  ModeFollowsMesh
  NoSilentChange
PROPERTIES
  EventuallyConnected
CHECK_DEADLOCK FALSE
