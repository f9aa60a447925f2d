SPECIFICATION Spec
CONSTANTS
  None = None
  Keep = Keep
  MaxOffset = 169
  Values <- AllValues
  Names <- AllNames
  Replacements <- AllReplacements
  Inputs <- AllInputs
INVARIANTS ReadsBack RefusesAsPromised
PROPERTIES RestKept
CHECK_DEADLOCK FALSE
