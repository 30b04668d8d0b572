SPECIFICATION Spec
CONSTANTS
  t1 = t1
  t2 = t2
  t3 = t3
  u = u
  TabIds = {t1, t2, t3}
  Urls = {u}
  MaxHist = 2
  MaxMounts = 3
SYMMETRY Symmetry
INVARIANTS
  TypeOK
  ActiveExists
  AddressIsEntry
  LoadingHasFrame
PROPERTIES
  NoPastRewritten
