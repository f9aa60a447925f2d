CONSTANTS
  u1 = u1
  u2 = u2
  p1 = p1
  v1 = v1
  v2 = v2
  raw = raw
  plain = plain
  contents = contents
  sidecar = sidecar
  User = User
  None = None
  Unpackers = {u1, u2}
  FromBase = {u1}
  Packers = {p1}
  Versions = {v1, v2, raw, plain}
  Graphless = {raw, plain}
  Plain = {plain}
  Order <- ContentsFirst
  Required = {contents}
  MaxEdits = 1
SPECIFICATION Spec
INVARIANTS
  BaseWhole
  BaseRecoverable
  TreeOfOneRun
PROPERTIES PackCoherent
CHECK_DEADLOCK FALSE
