SPECIFICATION Spec
CONSTANTS
  CodePoints = {62, 63, 255, 1023, 8364, 128512}
  MaxName = 4
  Units = {"https", "c", "wide", "quote", "vt", "paren"}
  MaxText = 5
  Sites = {"s", "o"}
  Paths = {"a", "b"}
  Hosts = {"ip", "name", "onion", "long"}
  Lengths = {0, 1, 3}
  Stream <- TwoBytes
  P = 127
  A24 = 3
  Bits = 7
  Sizes = {0, 1, 123, 124, 125, 300}
  MaxBodies = 3
INVARIANTS
  LinksComeBack
  RewritesSoundly
  ReferencesLead
  HandsOnWhole
  SecretsAgree
  PartsReadBack
PROPERTY HangUpEnds
CHECK_DEADLOCK FALSE
