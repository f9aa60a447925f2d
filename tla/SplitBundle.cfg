SPECIFICATION Spec
CONSTANTS
  None = None
  Driver = Driver
  Undefined = Undefined
  ma = ma
  mb = mb
  mc = mc
  md = md
  vx = vx
  vy = vy
  fx = fx
  Modules = {ma, mb, mc, md}
  Variables = {vx, vy}
  Target <- OneFunction
  Programs <- AllPrograms
INVARIANTS StatementsOnce AllRan NamesFound
PROPERTIES RunsLikeBundle
CHECK_DEADLOCK FALSE
