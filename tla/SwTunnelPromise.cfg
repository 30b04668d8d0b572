SPECIFICATION FairSpec
CONSTANTS
  Conns = {c1, c2}
  Reqs = {get}
  Bodied = {}
INVARIANTS
  Inductive
PROPERTIES
  KeepsPromise
  TunnelLetsGo
CHECK_DEADLOCK FALSE
