CONSTANTS
  u1 = u1
  u2 = u2
  p1 = p1
  v1 = v1
  v2 = v2
  raw = raw
  plain = plain
  contents = contents
  sidecar = sidecar
  User = User
  None = None
  Unpackers = {u1}
  FromBase = {u1}
  Packers = {}
  Versions = {v1}
  Graphless = {}
  Plain = {}
  Order <- ContentsFirst
  Required = {contents}
  MaxEdits = 0
SPECIFICATION Spec
INVARIANTS
  OriginalPreserved
CHECK_DEADLOCK FALSE
