SPECIFICATION Spec
CONSTANTS
  s1 = s1
  s2 = s2
  k1 = k1
  k2 = k2
  Sids = {s1, s2}
  Proto <- TcpUdp
  Chunks <- TwoEach
  Says <- TwoEach
  Short = {k2}
  MaxTraffic = 5
  Capacity = 2
  MaxUp = 1
INVARIANTS
  TypeOK
  DownInOrder
  UpIsWhole
  EndIsTrue
  MapFollowsPumps
CONSTRAINT Traffic
CHECK_DEADLOCK FALSE
