SPECIFICATION FairSpec
CONSTANTS
  t1 = t1
  t2 = t2
  t3 = t3
  e1 = e1
  e2 = e2
  Threads <- MCThreads
  Events <- MCEvents
  HAL_CB_QUEUE_MAX = 3
  SavesLoop = FALSE
  Loop = Loop
  NoOne = NoOne
  NoEvent = NoEvent
PROPERTY
  EntriesAreHandled
