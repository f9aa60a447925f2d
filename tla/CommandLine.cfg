SPECIFICATION Spec
CONSTANTS
  None = None
  Paths <- MCPaths
  Here <- MCHere
  CommandLines <- MCCommandLines
  Originals <- MCOriginals
INVARIANTS
  NothingDropped
  OriginalSpared
  OutputOfOne
\* The command line was read.
CHECK_DEADLOCK FALSE
