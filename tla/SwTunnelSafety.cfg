SPECIFICATION Spec
CONSTANTS
  Conns = {c1, c2}
  Reqs = {get, post}
  Bodied = {post}
SYMMETRY Symmetry
INVARIANTS
  TypeOK
  OwnResponse
  SealedOnWire
  BodyOnce
  NoOrphan
  EndIsLast
CHECK_DEADLOCK FALSE
