SPECIFICATION Spec
CONSTANTS
  c1 = c1
  c2 = c2
  none = none
  Channels <- MCChannels
  NoChannel = none
  NumRadios = 2
  HAL_CB_QUEUE_MAX = 2
  RESYNC_UPDATE_DELAY_SECONDS = 2
  MaxRaised = 2
  MaxChanges = 2
  MaxConfigs = 1
  MaxFailures = 1
INVARIANT
  ChannelsShown
