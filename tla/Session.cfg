SPECIFICATION Spec
CONSTANTS
  n1 = n1
  n2 = n2
  x1 = x1
  p1 = p1
  p2 = p2
  Names = {n1, n2}
  Archives = {x1}
  Saves = {p1, p2}
  MaxDownloads = 1
  MaxBlocked = 1
SYMMETRY Symmetry
INVARIANTS
  TypeOK
  InterceptedIsUnderWay
  
PROPERTIES
  LoadBrings
