SPECIFICATION FairSpec
CONSTANTS
  w1 = w1
  g1 = g1
  f1 = f1
  f2 = f2
  f3 = f3
  None = None
  Windows = {w1}
  Gateways = {g1}
  Flaky = {g1}
  MayStop = TRUE
  Fetches = {f1, f2, f3}
  Kind <- EachKind
  MaxPosts = 2
  MaxQueue = 2
INVARIANT CountedOnce
PROPERTY BarCatchesUp
CHECK_DEADLOCK FALSE
