SPECIFICATION Spec
CONSTANTS
  t1 = t1
  t2 = t2
  t3 = t3
  u = u
  TabIds = {t1}
  Urls = {u}
  MaxHist = 3
  MaxMounts = 3
INVARIANT BlockedIsRefused
CHECK_DEADLOCK FALSE
