SPECIFICATION MCSpec
CONSTANTS
  s1 = s1
  s2 = s2
  c1 = c1
  c2 = c2
  r1 = r1
  p1 = p1
  k1 = k1
  k2 = k2
  rule1 = rule1
  rule2 = rule2
  a = a
  b = b
  Servers <- MCServers
  Clients <- MCClients
  Ranges <- MCRanges
  Files <- MCFiles
  NoFile = NoFile
  Garbage = Garbage
  NotTold = NotTold
  MaxWrites = 2
  MaxCreated = 3
  MaxParseFailures = 1
  Procs <- MCProcs
  Conns <- MCConns
  HDR = 2
  BODY = 1
  SOCKBUF = 3
  PL2RL_RETRIES = 3
  NoConn = NoConn
  MaxTrouble = 2
  MaxStops = 1
  Rules <- MCRules
  Empty = Empty
  LanSettings <- MCLanSettings
  LanChanges <- MCLanChanges
  AsOptions <- MCAsOptions
  LanManagement = TRUE
  MaxEvents = 3
  ch1 = ch1
  ch2 = ch2
  b1 = b1
  b2 = b2
  net = net
  guest = guest
  none = none
  Chans <- MCChans
  Bssids <- MCBssids
  Ssids <- MCSsids
  Tables <- MCTables
  STATS_SCAN_MAX_RECORDS = 3
  STATS_SCAN_RESULT_POLL_TIMEOUT = 3
  NoResults = none
  NoRequest = none
  MaxStarts = 3
  MaxFailures = 1
  Counters <- MCCounters
  WORD = 300
  Amounts <- MCAmounts
  Times <- MCTimes
  SurveyStart = 298
  MaxChanges = 3
CHECK_DEADLOCK FALSE
INVARIANTS
  ServicesTypeOK
  MessagesIntact
  InSyncWhenQuiet
  TimerServesScan
  TrafficAccounted
  PercentCorrect
  CurrentWhenQuiet
PROPERTIES
  LeasesEventuallyCurrent
  LogHeardAgain
  ReportComplete
  EventuallyAnswered
