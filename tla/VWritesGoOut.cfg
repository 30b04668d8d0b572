SPECIFICATION NodeSpec
CONSTANTS
  s1 = s1
  s2 = s2
  k1 = k1
  k2 = k2
  Sids = {s1}
  Proto <- OneTcp
  Chunks <- TwoUp
  Says <- OneUp
  Short = {}
  MaxTraffic = 9
  Capacity = 1
  MaxUp = 2
PROPERTIES
  WritesGoOut
CHECK_DEADLOCK FALSE
