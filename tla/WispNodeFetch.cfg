SPECIFICATION FairSpec
CONSTANTS
  s1 = s1
  s2 = s2
  k1 = k1
  k2 = k2
  Sids = {s1, s2}
  Proto <- TcpFetch
  Chunks <- OneUp
  Says <- OneUp
  Short = {}
  MaxTraffic = 9
  Capacity = 1
  MaxUp = 1
PROPERTIES
  NodeSteps
  EndReachesClient
  Returns
CHECK_DEADLOCK FALSE
