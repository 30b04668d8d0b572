SPECIFICATION FairSpec
CONSTANTS
  Conns = {c1, c2}
  Reqs = {get}
  Bodied = {}
PROPERTIES
  EndMeansComplete
CHECK_DEADLOCK FALSE
