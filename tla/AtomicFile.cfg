CONSTANTS
  resigner = resigner
  packer = packer
  patcher = patcher
  p1 = p1
  Writers = {resigner, packer, patcher}
  Packers = {resigner, packer}
  Resigners = {resigner}
  Pids = {p1}
  MaxAttempts = 2
  Original = Original
  NoFile = NoFile
SPECIFICATION FairSpec
INVARIANTS
  DestComplete
  TempExclusive
  NoLitter
PROPERTIES
  ImplementsPromise
  RunsEnd
CHECK_DEADLOCK FALSE
