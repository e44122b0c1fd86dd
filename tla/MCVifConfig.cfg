SPECIFICATION MCSpec
CONSTANTS
  s1 = s1
  s2 = s2
  k1 = k1
  k2 = k2
  m1 = m1
  m2 = m2
  m3 = m3
  b1 = b1
  b2 = b2
  Unset = Unset
  Bssids <- MCBssids
  Credentials <- MCCredentials
  StaRequests <- MCStaRequests
  Ssids <- MCSsids
  Keys <- MCKeys
  Macs <- MCMacs
  KeyMgmts <- MCKeyMgmts
  Builds <- MCBuilds
  Requests <- MCRequestsAll
  MaxRequests = 3
  MaxFailures = 1
CHECK_DEADLOCK FALSE
INVARIANTS
  TypeOK
  RequestApplied
  MeshKnowsDriver
  AdoptionIsStable
  StationFollowsRequest
PROPERTIES
  AclKeepsCommon
