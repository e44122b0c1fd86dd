SPECIFICATION FairSpec
CONSTANTS
  v1 = v1
  a = a
  b = b
  none = none
  Vaps <- MCVaps
  Confs <- MCPair
  Types <- MCOne
  Addrs <- MCPair
  SessionEnds <- MCTimeout
  DELAY = 2
  SettleMax = 1
  HAL_CB_QUEUE_MAX = 2
  MaxRaised = 2
  MaxEvents = 1
  MaxConfigs = 2
  MaxFailures = 1
  NoVap = none
INVARIANTS
  ConfShownWhenQuiet
  PbcEndIsNoticed
PROPERTIES
  EventuallyShown
